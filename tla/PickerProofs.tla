---------------------------- MODULE PickerProofs ----------------------------
(***************************************************************************)
(* Proofs about the job picker and the script browser.                     *)
(*                                                                         *)
(* First, what a list of rows is: places in a finite set of pairs of       *)
(* numbers can be arranged, each row has a place of its own, and so every  *)
(* row of the set is in the list once.  Then what one pass of the loop and *)
(* every key keep of the invariant: rows that are not those of the job     *)
(* list are marked stale (Current), a screen that is not what was drawn    *)
(* asks to be drawn (FrameOK), the marks are the open panes but for what   *)
(* the user did (MarksOK), and the cursor is where the last key left it or *)
(* is about to be put there (AimOK).                                       *)
(***************************************************************************)
EXTENDS Picker, SequenceTheorems, FiniteSetTheorems, FunctionTheorems, WellFoundedInduction, TLAPS

-----------------------------------------------------------------------------
(* The inductive invariant of the picker, in parts.                        *)
UiFields ==
    {"manage", "direct", "cluster", "live", "blocked", "filter", "query", "jobs", "known",
     "selected", "expanded", "focus", "focusedKey", "rows",
     "viewDirty", "catalogDirty", "redraw", "selectionDirty"}

RowSet ==
    [job : Jobs \cup {NoJob}, name : {NameOf[j] : j \in Jobs}, members : SUBSET Jobs,
     nested : BOOLEAN]

(* Lists name jobs there are, the cursor is on a row if there are rows,    *)
(* and every mark is on a job that is known.                               *)
UiOK(u) ==
    /\ DOMAIN u = UiFields
    /\ u.rows \in Seq(RowSet) /\ DOMAIN u.jobs \subseteq Jobs /\ DOMAIN u.known \subseteq Jobs
    /\ u.focus \in Nat \ {0} /\ (u.rows # <<>> => u.focus <= Len(u.rows))
    /\ u.selected \subseteq DOMAIN u.known

(* Whatever makes the rows stale says so. *)
Current(u) == ~ u.viewDirty => u.rows = RowsOf(u)

(* The marks are the open panes but for what the user did. *)
MarksOK(u, panes, marked) ==
    /\ panes \ marked \subseteq u.selected /\ u.selected \subseteq panes \cup marked
    /\ ~ u.manage => panes = {}

(* A frame is only left out when nothing it shows has changed.             *)
FrameOK(u, frame) ==
    /\ u.viewDirty => u.redraw
    /\ ~ u.redraw => frame = Drawn(u)

(* Until the rows are rebuilt the loop remembers the row it has to find.   *)
AimOK(u, aim) ==
    /\ DOMAIN aim = {"row", "rebuilds"} /\ aim.rebuilds \in 0..2
    /\ aim.rebuilds = 0 => u.focusedKey = aim.row /\ KeyAt(u) = aim.row
    /\ aim.rebuilds = 1 /\ (\E k \in DOMAIN u.rows : RowKey(u.rows[k]) = aim.row)
           => KeyAt(u) = aim.row

ResultOK == (at # "done" => result = {}) /\ OpensWhatWasMarked

PickerInv ==
    /\ UiOK(ui) /\ Current(ui) /\ MarksOK(ui, open, touched)
    /\ FrameOK(ui, screen) /\ AimOK(ui, aimed)
    /\ Waiting => ~ ui.viewDirty /\ ~ ui.redraw
    /\ ResultOK

(* The rows of the browser are those of its target, and only a script can  *)
(* be asked about.                                                         *)
BankFields == {"at", "scripts", "rows", "focus", "query", "expanded", "target", "dirty"}

RowsBelong(b) ==
    /\ Len(b.rows) \in Nat /\ DOMAIN b.rows = 1..Len(b.rows)
    /\ \A k \in DOMAIN b.rows :
          b.rows[k].kind = "file" => Supports(b.rows[k].script, Target(b))

BankOK(b) ==
    /\ DOMAIN b = BankFields
    /\ b.at # "closed" => ~ b.dirty /\ RowsBelong(b)
    /\ b.at = "confirm" => b.focus \in DOMAIN b.rows /\ b.rows[b.focus].kind = "file"

BankInv == BankOK(bank)

-----------------------------------------------------------------------------
(* Rows.  Places in a finite set of pairs of numbers can be arranged: each *)
(* has another number of places before it, so the numbers 0..n-1 are all   *)
(* taken.                                                                  *)
LEMMA BeforeFacts ==
    ASSUME NEW S, IsFiniteSet(S), NEW p \in S
    PROVE  /\ IsFiniteSet(Before(S, p)) /\ Cardinality(Before(S, p)) \in Nat
           /\ \A T \in SUBSET Before(S, p) : Cardinality(T) \in Nat
           /\ ~ Precedes(p, p) => Cardinality(Before(S, p)) < Cardinality(S)
  <1>1. Before(S, p) \in SUBSET S
    BY DEF Before
  <1>2. IsFiniteSet(Before(S, p))
    BY <1>1, FS_Subset
  <1>3. \A T \in SUBSET Before(S, p) : Cardinality(T) \in Nat
    BY <1>2, FS_Subset, FS_CardinalityType
  <1>4. Cardinality(S) \in Nat
    BY FS_CardinalityType
  <1>5. ASSUME ~ Precedes(p, p)
        PROVE  Cardinality(Before(S, p)) < Cardinality(S)
    <2>1. Before(S, p) # S
      BY <1>5 DEF Before
    <2>2. Cardinality(Before(S, p)) <= Cardinality(S) /\ Cardinality(Before(S, p)) # Cardinality(S)
      BY <1>1, <2>1, FS_Subset
    <2> QED BY <2>2, <1>2, <1>4, FS_CardinalityType
  <1> QED BY <1>2, <1>3, <1>5, FS_CardinalityType

LEMMA ArrangedFacts ==
    ASSUME NEW S \in SUBSET (Int \X Int), IsFiniteSet(S)
    PROVE  /\ Cardinality(S) \in Nat
           /\ DOMAIN Arranged(S) = 1..Cardinality(S)
           /\ \A i \in 1..Cardinality(S) : Arranged(S)[i] \in S
           /\ \A i, k \in 1..Cardinality(S) : Arranged(S)[i] = Arranged(S)[k] => i = k
           /\ \A p \in S : \E i \in 1..Cardinality(S) : Arranged(S)[i] = p
  <1> DEFINE n == Cardinality(S)
             rank == [p \in S |-> Cardinality(Before(S, p))]
  <1>1. n \in Nat
    BY FS_CardinalityType
  <1>2. ASSUME NEW p \in S
        PROVE  ~ Precedes(p, p) /\ rank[p] \in 0..(n - 1)
    <2>1. ~ Precedes(p, p)
      BY DEF Precedes
    <2>2. Cardinality(Before(S, p)) \in Nat /\ Cardinality(Before(S, p)) < n
      BY <2>1, BeforeFacts, FS_CardinalityType
    <2> QED BY <1>1, <2>1, <2>2
  <1>3. ASSUME NEW p \in S, NEW q \in S, Precedes(p, q)
        PROVE  rank[p] # rank[q]
    <2>1. Before(S, p) \in SUBSET Before(S, q)
      BY <1>3 DEF Before, Precedes
    <2>2. p \in Before(S, q) /\ p \notin Before(S, p)
      BY <1>2, <1>3 DEF Before
    <2>3. Cardinality(Before(S, p)) # Cardinality(Before(S, q))
      BY <2>1, <2>2, BeforeFacts, FS_Subset
    <2> QED BY <2>3
  <1>4. ASSUME NEW p \in S, NEW q \in S, rank[p] = rank[q]
        PROVE  p = q
    <2>1. Precedes(p, q) \/ Precedes(q, p) \/ p = q
      BY DEF Precedes
    <2> QED BY <2>1, <1>3, <1>4
  <1>5. rank \in Injection(S, 0..(n - 1))
    <2>1. rank \in [S -> 0..(n - 1)]
      BY <1>2
    <2> HIDE DEF rank
    <2> QED BY <2>1, <1>4, Fun_IsInj
  <1>6. IsFiniteSet(0..(n - 1)) /\ Cardinality(0..(n - 1)) = n
    <2> HIDE DEF n
    <2> 0 \in Int /\ n - 1 \in Int
      BY <1>1
    <2> QED BY <1>1, FS_Interval
  <1>7. rank \in Surjection(S, 0..(n - 1))
    <2> HIDE DEF rank
    <2> QED BY <1>5, <1>6, FS_Injection
  <1>8. ASSUME NEW i \in 1..n
        PROVE  \E p \in S : Cardinality(Before(S, p)) = i - 1
    <2>1. i - 1 \in 0..(n - 1)
      BY <1>1
    <2>2. PICK p \in S : rank[p] = i - 1
      <3> HIDE DEF rank
      <3> QED BY <1>7, <2>1 DEF Surjection
    <2> QED BY <2>2
  <1>9. ASSUME NEW i \in 1..n
        PROVE  Arranged(S)[i] \in S /\ rank[Arranged(S)[i]] = i - 1
    <2>1. Arranged(S)[i] = CHOOSE p \in S : Cardinality(Before(S, p)) = i - 1
      BY <1>1 DEF Arranged
    <2>2. Arranged(S)[i] \in S /\ Cardinality(Before(S, Arranged(S)[i])) = i - 1
      BY <1>8, <2>1
    <2> QED BY <2>2
  <1>10. ASSUME NEW i \in 1..n, NEW k \in 1..n, Arranged(S)[i] = Arranged(S)[k]
         PROVE  i = k
    <2>1. rank[Arranged(S)[i]] = i - 1 /\ rank[Arranged(S)[k]] = k - 1
      BY <1>9
    <2>2. i - 1 = k - 1
      <3> HIDE DEF rank
      <3> QED BY <2>1, <1>10
    <2>3. i \in Int /\ k \in Int
      BY <1>1
    <2> QED BY <2>2, <2>3
  <1>11. ASSUME NEW p \in S
         PROVE  \E i \in 1..n : Arranged(S)[i] = p
    <2>1. rank[p] \in 0..(n - 1)
      BY <1>2
    <2>2. PICK i \in 1..n : i - 1 = rank[p]
      <3>1. PICK r \in 0..(n - 1) : r = rank[p]
        BY <2>1
      <3>2. r + 1 \in 1..n /\ (r + 1) - 1 = r
        BY <1>1
      <3> QED BY <3>1, <3>2
    <2>3. Arranged(S)[i] \in S /\ rank[Arranged(S)[i]] = rank[p]
      BY <1>9, <2>2
    <2> HIDE DEF rank
    <2> QED BY <1>4, <2>3
  <1>12. DOMAIN Arranged(S) = 1..n
    BY DEF Arranged
  <1> HIDE DEF rank
  <1> QED BY <1>1, <1>9, <1>10, <1>11, <1>12

-----------------------------------------------------------------------------
(* What a finite set yields. *)
LEMMA ImageFinite ==
    ASSUME NEW S, IsFiniteSet(S), NEW f, DOMAIN f = S
    PROVE  IsFiniteSet({f[x] : x \in S})
  <1> DEFINE T == {f[x] : x \in S}
             g == [x \in S |-> f[x]]
  <1>1. g \in [S -> T] /\ \A t \in T : \E x \in S : g[x] = t
    OBVIOUS
  <1> HIDE DEF g, T
  <1>2. g \in Surjection(S, T)
    BY <1>1, Fun_IsSurj
  <1>3. IsFiniteSet(T)
    BY <1>2, FS_Surjection
  <1> QED BY <1>3 DEF T

LEMMA LessThan ==
    \A x, y \in Nat : <<y, x>> \in OpToRel(<, Nat) \/ x <= y
  <1>1. OpToRel(<, Nat) = {ss \in Nat \X Nat : ss[1] < ss[2]}
    BY DEF OpToRel
  <1>2. ASSUME NEW x \in Nat, NEW y \in Nat
        PROVE  <<y, x>> \in OpToRel(<, Nat) \/ x <= y
    <2>1. y < x => <<y, x>> \in OpToRel(<, Nat)
      BY <1>1
    <2>2. y < x \/ x <= y
      OBVIOUS
    <2> QED BY <2>1, <2>2
  <1> QED BY <1>2

LEMMA MinIn ==
    ASSUME NEW S \in SUBSET Nat, S # {}
    PROVE  Min(S) \in S
  <1>1. PICK x \in S : \A y \in S : ~ (<<y, x>> \in OpToRel(<, Nat))
    BY NatLessThanWellFounded, WFMin
  <1>2. \A y \in S : x <= y
    BY <1>1, LessThan
  <1> QED BY <1>2 DEF Min

LEMMA MaxIn ==
    ASSUME NEW n \in Nat, NEW S \in SUBSET 0..n, S # {}
    PROVE  Max(S) \in S
  <1> DEFINE T == {k \in Nat : n - k \in S}
  <1>1. T # {} /\ T \in SUBSET Nat
    <2>1. PICK x \in S : TRUE
      OBVIOUS
    <2>2. n - x \in T
      OBVIOUS
    <2> QED BY <2>2
  <1>2. PICK k \in T : \A y \in T : ~ (<<y, k>> \in OpToRel(<, Nat))
    <2> HIDE DEF T
    <2> QED BY <1>1, NatLessThanWellFounded, WFMin
  <1>3. \A y \in T : k <= y
    BY <1>2, LessThan
  <1>4. n - k \in S /\ \A y \in S : n - k >= y
    <2>1. ASSUME NEW y \in S
          PROVE  n - k >= y
      <3>1. y \in 0..n /\ k \in Nat
        OBVIOUS
      <3>2. n - y \in T
        BY <3>1
      <3>3. k <= n - y
        <4> HIDE DEF T
        <4> QED BY <3>2, <1>3
      <3> QED BY <3>1, <3>3
    <2> QED BY <2>1
  <1> QED BY <1>4 DEF Max

-----------------------------------------------------------------------------
(* The rows of the picker are a list of rows of the jobs it shows.         *)
LEMMA PlaceFacts ==
    ASSUME NEW jobs, NEW shown \in SUBSET Jobs, NEW j \in shown,
           NEW row \in {GroupRow(shown, j), JobRow(shown, j)}
    PROVE  /\ row.name = NameOf[j] /\ Limit \in Nat /\ Rank(jobs[j]) \in 0..3
           /\ \E r \in 0..3, i \in Named(shown, NameOf[j]) :
                 Place(jobs, shown, row) =
                    <<r * Limit - NumberOf[i],
                      IF row.job = NoJob THEN -1
                      ELSE Rank(jobs[j]) * Limit + (Limit - 1 - NumberOf[j])>>
  <1> DEFINE group == Named(shown, row.name)
             ranks == {Rank(jobs[i]) : i \in group}
             numbers == {NumberOf[i] : i \in group}
  <1>1. row.name = NameOf[j] /\ row.job \in {NoJob, j}
    BY DEF GroupRow, JobRow, Row
  <1>2. j \in group /\ group \subseteq Jobs
    BY <1>1 DEF Named
  <1>3. Limit \in Nat /\ \A i \in Jobs : NumberOf[i] \in 0..(Limit - 1)
    BY PickerAssumption
  <1>4. \A s : Rank(s) \in 0..3
    BY DEF Rank
  <1> HIDE DEF group
  <1>5. Min(ranks) \in 0..3
    <2>1. ranks \in SUBSET (0..3) /\ ranks # {}
      BY <1>2, <1>4
    <2> HIDE DEF ranks
    <2>2. ranks \in SUBSET Nat
      BY <2>1
    <2> QED BY <2>1, <2>2, MinIn
  <1>6. \E i \in group : Max(numbers) = NumberOf[i]
    <2>1. numbers \in SUBSET 0..(Limit - 1) /\ numbers # {}
      BY <1>2, <1>3
    <2>2. Limit - 1 \in Nat
      BY <1>2, <1>3
    <2>3. Max(numbers) \in numbers
      <3> HIDE DEF numbers
      <3> QED BY <2>1, <2>2, MaxIn
    <2> QED BY <2>3
  <1>7. row.job # NoJob => Order(jobs, row.job) = Rank(jobs[j]) * Limit + (Limit - 1 - NumberOf[j])
    BY <1>1 DEF Order
  <1>8. Place(jobs, shown, row) =
           <<Min(ranks) * Limit - Max(numbers),
             IF row.job = NoJob THEN -1 ELSE Order(jobs, row.job)>>
    BY DEF Place, group
  <1> HIDE DEF ranks, numbers
  <1>9. PICK i \in group : Max(numbers) = NumberOf[i]
    BY <1>6
  <1>10. group = Named(shown, NameOf[j])
    BY <1>1 DEF group
  <1> QED BY <1>1, <1>3, <1>4, <1>5, <1>7, <1>8, <1>9, <1>10

(* A rank and a number below Limit can be read off their place. *)
LEMMA SamePlace ==
    ASSUME NEW L \in Nat, NEW r \in 0..3, NEW s \in 0..3,
           NEW m \in 0..(L - 1), NEW n \in 0..(L - 1)
    PROVE  /\ r * L + (L - 1 - m) \in Nat
           /\ r * L - m = s * L - n => m = n
           /\ r * L + (L - 1 - m) = s * L + (L - 1 - n) => m = n
  <1>1. r * L \in {0, L, 2 * L, 3 * L} /\ s * L \in {0, L, 2 * L, 3 * L}
    <2>1. r \in {0, 1, 2, 3} /\ s \in {0, 1, 2, 3}
      OBVIOUS
    <2>2. 0 * L = 0 /\ 1 * L = L
      OBVIOUS
    <2> QED BY <2>1, <2>2
  <1> DEFINE x == r * L
             y == s * L
  <1> HIDE DEF x, y
  <1>2. x \in {0, L, 2 * L, 3 * L} /\ y \in {0, L, 2 * L, 3 * L}
    BY <1>1 DEF x, y
  <1>3. /\ x + (L - 1 - m) \in Nat
        /\ x - m = y - n => m = n
        /\ x + (L - 1 - m) = y + (L - 1 - n) => m = n
    BY <1>2
  <1> QED BY <1>3 DEF x, y

LEMMA PlaceIsPair ==
    ASSUME NEW jobs, NEW shown \in SUBSET Jobs, NEW j \in shown,
           NEW row \in {GroupRow(shown, j), JobRow(shown, j)}
    PROVE  Place(jobs, shown, row) \in Int \X Int
  <1>1. PICK r \in 0..3, i \in Named(shown, NameOf[j]) :
           Place(jobs, shown, row) =
              <<r * Limit - NumberOf[i],
                IF row.job = NoJob THEN -1
                ELSE Rank(jobs[j]) * Limit + (Limit - 1 - NumberOf[j])>>
    BY PlaceFacts
  <1>2. Limit \in Nat /\ Rank(jobs[j]) \in 0..3
    BY PlaceFacts
  <1>3. NumberOf[i] \in Int /\ NumberOf[j] \in Int
    BY PickerAssumption DEF Named
  <1> QED BY <1>1, <1>2, <1>3

LEMMA GroupRowsFacts ==
    ASSUME NEW shown \in SUBSET Jobs, NEW expanded
    PROVE  /\ IsFiniteSet(GroupRows(shown, expanded))
           /\ \A row \in GroupRows(shown, expanded) :
                 /\ row \in RowSet /\ row.members \subseteq shown
                 /\ \E j \in shown : row \in {GroupRow(shown, j), JobRow(shown, j)}
  <1> DEFINE several == {i \in shown : Several(shown, i)}
             listed == {i \in shown : Several(shown, i) => NameOf[i] \in expanded}
             groups == [j \in several |-> GroupRow(shown, j)]
             singles == [j \in listed |-> JobRow(shown, j)]
  <1>1. IsFiniteSet(several) /\ IsFiniteSet(listed)
    BY PickerAssumption, FS_Subset
  <1>2. GroupRows(shown, expanded) =
          {groups[j] : j \in several} \cup {singles[j] : j \in listed}
    BY DEF GroupRows
  <1>3. DOMAIN groups = several /\ DOMAIN singles = listed
    OBVIOUS
  <1>4. IsFiniteSet(GroupRows(shown, expanded))
    <2> HIDE DEF several, listed, groups, singles
    <2>1. IsFiniteSet({groups[j] : j \in several}) /\ IsFiniteSet({singles[j] : j \in listed})
      BY <1>1, <1>3, ImageFinite
    <2> QED BY <2>1, <1>2, FS_Union
  <1>5. ASSUME NEW row \in GroupRows(shown, expanded)
        PROVE  /\ row \in RowSet /\ row.members \subseteq shown
               /\ \E j \in shown : row \in {GroupRow(shown, j), JobRow(shown, j)}
    <2>1. PICK j \in shown : row \in {GroupRow(shown, j), JobRow(shown, j)}
      BY DEF GroupRows
    <2>2. GroupRow(shown, j) \in RowSet /\ GroupRow(shown, j).members \subseteq shown
      BY DEF GroupRow, Row, RowSet, Named
    <2>3. JobRow(shown, j) \in RowSet /\ JobRow(shown, j).members \subseteq shown
      BY DEF JobRow, Row, RowSet, Several
    <2> QED BY <2>1, <2>2, <2>3
  <1> QED BY <1>4, <1>5

(* No two rows have one place, so that every row has a position.           *)
LEMMA PlacesTellRows ==
    ASSUME NEW jobs, NEW shown \in SUBSET Jobs, NEW expanded,
           NEW r1 \in GroupRows(shown, expanded), NEW r2 \in GroupRows(shown, expanded),
           Place(jobs, shown, r1) = Place(jobs, shown, r2)
    PROVE  r1 = r2
  <1>1. PICK j1 \in shown : r1 \in {GroupRow(shown, j1), JobRow(shown, j1)}
    BY GroupRowsFacts
  <1>2. PICK j2 \in shown : r2 \in {GroupRow(shown, j2), JobRow(shown, j2)}
    BY GroupRowsFacts
  <1>3. PICK s1 \in 0..3, i1 \in Named(shown, NameOf[j1]) :
           Place(jobs, shown, r1) =
              <<s1 * Limit - NumberOf[i1],
                IF r1.job = NoJob THEN -1
                ELSE Rank(jobs[j1]) * Limit + (Limit - 1 - NumberOf[j1])>>
    BY <1>1, PlaceFacts
  <1>4. PICK s2 \in 0..3, i2 \in Named(shown, NameOf[j2]) :
           Place(jobs, shown, r2) =
              <<s2 * Limit - NumberOf[i2],
                IF r2.job = NoJob THEN -1
                ELSE Rank(jobs[j2]) * Limit + (Limit - 1 - NumberOf[j2])>>
    BY <1>2, PlaceFacts
  <1>5. /\ Limit \in Nat /\ Rank(jobs[j1]) \in 0..3 /\ Rank(jobs[j2]) \in 0..3
        /\ i1 \in Jobs /\ i2 \in Jobs /\ j1 \in Jobs /\ j2 \in Jobs
        /\ NameOf[i1] = NameOf[j1] /\ NameOf[i2] = NameOf[j2]
    BY <1>1, <1>2, PlaceFacts DEF Named
  <1>6. /\ \A i \in Jobs : NumberOf[i] \in 0..(Limit - 1)
        /\ \A i, k \in Jobs : NumberOf[i] = NumberOf[k] => i = k
    BY PickerAssumption
  <1> DEFINE head1 == s1 * Limit - NumberOf[i1]
             head2 == s2 * Limit - NumberOf[i2]
             order1 == Rank(jobs[j1]) * Limit + (Limit - 1 - NumberOf[j1])
             order2 == Rank(jobs[j2]) * Limit + (Limit - 1 - NumberOf[j2])
             last1 == IF r1.job = NoJob THEN -1 ELSE order1
             last2 == IF r2.job = NoJob THEN -1 ELSE order2
  <1>7. order1 \in Nat /\ order2 \in Nat
    BY <1>5, <1>6, SamePlace
  <1>8. head1 = head2 /\ last1 = last2
    <2>1. Place(jobs, shown, r1) = <<head1, last1>> /\ Place(jobs, shown, r2) = <<head2, last2>>
      BY <1>3, <1>4
    <2>2. <<head1, last1>> = <<head2, last2>>
      <3> HIDE DEF head1, head2, last1, last2
      <3> QED BY <2>1
    <2> HIDE DEF head1, head2, last1, last2
    <2> QED BY <2>2
  <1>9. NameOf[j1] = NameOf[j2]
    <2>1. NumberOf[i1] = NumberOf[i2]
      BY <1>8, <1>5, <1>6, SamePlace
    <2> QED BY <2>1, <1>5, <1>6
  <1>10. (r1.job = NoJob) <=> (r2.job = NoJob)
    <2> HIDE DEF order1, order2
    <2> QED BY <1>7, <1>8
  <1>11. CASE r1.job = NoJob
    <2>1. r1 = GroupRow(shown, j1) /\ r2 = GroupRow(shown, j2)
      BY <1>1, <1>2, <1>5, <1>10, <1>11, NamesAssumption DEF JobRow, Row
    <2> QED BY <1>9, <2>1 DEF GroupRow
  <1>12. CASE r1.job # NoJob
    <2>1. r1 = JobRow(shown, j1) /\ r2 = JobRow(shown, j2)
      BY <1>1, <1>2, <1>10, <1>12 DEF GroupRow, Row
    <2>2. order1 = order2
      <3> HIDE DEF order1, order2
      <3> QED BY <1>8, <1>10, <1>12
    <2>3. NumberOf[j1] = NumberOf[j2]
      BY <2>2, <1>5, <1>6, SamePlace
    <2> QED BY <2>1, <2>3, <1>5, <1>6
  <1> QED BY <1>11, <1>12

LEMMA GroupedRowsFacts ==
    ASSUME NEW jobs, NEW shown \in SUBSET Jobs, NEW expanded
    PROVE  \E list \in Seq(RowSet) :
              /\ list = GroupedRows(jobs, shown, expanded)
              /\ \A k \in DOMAIN list : list[k] \in GroupRows(shown, expanded)
              /\ \A row \in GroupRows(shown, expanded) : \E k \in DOMAIN list : list[k] = row
              /\ \A k, l \in DOMAIN list : list[k] = list[l] => k = l
  <1> DEFINE rows == GroupRows(shown, expanded)
             place == [row \in rows |-> Place(jobs, shown, row)]
             places == {place[row] : row \in rows}
             order == Arranged(places)
             n == Cardinality(places)
             list == [i \in 1..n |-> CHOOSE row \in rows : place[row] = order[i]]
  <1>1. IsFiniteSet(rows) /\ DOMAIN place = rows
    BY GroupRowsFacts
  <1>2. IsFiniteSet(places)
    <2> HIDE DEF rows, place
    <2> QED BY <1>1, ImageFinite
  <1>3. places \in SUBSET (Int \X Int)
    BY GroupRowsFacts, PlaceIsPair
  <1>4. /\ n \in Nat /\ DOMAIN order = 1..n /\ \A i \in 1..n : order[i] \in places
        /\ \A i, k \in 1..n : order[i] = order[k] => i = k
        /\ \A p \in places : \E i \in 1..n : order[i] = p
    <2> HIDE DEF places
    <2> QED BY <1>2, <1>3, ArrangedFacts
  <1>5. GroupedRows(jobs, shown, expanded) = list
    <2> DEFINE o == Arranged({Place(jobs, shown, row) : row \in GroupRows(shown, expanded)})
    <2>1. places = {Place(jobs, shown, row) : row \in GroupRows(shown, expanded)}
      OBVIOUS
    <2>2. order = o
      BY <2>1
    <2>3. GroupedRows(jobs, shown, expanded) =
            [i \in DOMAIN o |->
                CHOOSE row \in GroupRows(shown, expanded) : Place(jobs, shown, row) = o[i]]
      <3> HIDE DEF place, places, order
      <3> QED BY DEF GroupedRows
    <2>4. ASSUME NEW i \in 1..n
          PROVE  (CHOOSE row \in rows : Place(jobs, shown, row) = order[i])
                    = (CHOOSE row \in rows : place[row] = order[i])
      <3> HIDE DEF order, rows
      <3> QED OBVIOUS
    <2>5. GroupedRows(jobs, shown, expanded) =
            [i \in DOMAIN order |-> CHOOSE row \in rows : Place(jobs, shown, row) = order[i]]
      <3> HIDE DEF order, o
      <3> QED BY <2>2, <2>3
    <2> HIDE DEF order, rows, n, place
    <2> QED BY <2>4, <2>5, <1>4
  <1>6. ASSUME NEW i \in 1..n
        PROVE  list[i] \in rows /\ place[list[i]] = order[i]
    <2>1. \E row \in rows : place[row] = order[i]
      <3> HIDE DEF rows, place, order
      <3> QED BY <1>4
    <2> HIDE DEF rows, place, order, n
    <2> QED BY <2>1
  <1>7. list \in Seq(RowSet)
    <2>1. \A i \in 1..n : list[i] \in RowSet
      BY <1>6, GroupRowsFacts
    <2>2. list \in [1..n -> RowSet]
      <3> HIDE DEF rows, place, order, n
      <3> QED BY <2>1
    <2> HIDE DEF list, n
    <2> QED BY <1>4, <2>2, SeqDef
  <1>8. DOMAIN list = 1..n
    OBVIOUS
  <1>9. ASSUME NEW i \in 1..n, NEW k \in 1..n, list[i] = list[k]
        PROVE  i = k
    <2>1. order[i] = order[k]
      <3> HIDE DEF rows, place, order, list, n
      <3> QED BY <1>6, <1>9
    <2> HIDE DEF order, n
    <2> QED BY <2>1, <1>4
  <1>10. ASSUME NEW row \in rows
         PROVE  \E i \in 1..n : list[i] = row
    <2>1. place[row] \in places
      <3> HIDE DEF rows, place
      <3> QED OBVIOUS
    <2>2. PICK i \in 1..n : order[i] = place[row]
      <3> HIDE DEF rows, place, places, order, n
      <3> QED BY <2>1, <1>4
    <2>3. list[i] \in rows /\ place[list[i]] = place[row]
      <3> HIDE DEF rows, place, order, list, n
      <3> QED BY <1>6, <2>2
    <2>4. Place(jobs, shown, list[i]) = Place(jobs, shown, row)
      <3> HIDE DEF rows, list, n
      <3> QED BY <2>3
    <2>5. list[i] = row
      <3> HIDE DEF list, n
      <3> QED BY <2>3, <2>4, PlacesTellRows
    <2> HIDE DEF list, n
    <2> QED BY <2>5
  <1> HIDE DEF list, n, place
  <1> WITNESS list \in Seq(RowSet)
  <1> QED BY <1>5, <1>6, <1>8, <1>9, <1>10

(* Every job shown is in a row, and no two rows have one key. *)
LEMMA RowsCoverJobs ==
    ASSUME NEW shown \in SUBSET Jobs, NEW expanded
    PROVE  /\ \A j \in shown : \E row \in GroupRows(shown, expanded) : j \in row.members
           /\ \A r1, r2 \in GroupRows(shown, expanded) : RowKey(r1) = RowKey(r2) => r1 = r2
  <1>1. ASSUME NEW j \in shown
        PROVE  \E row \in GroupRows(shown, expanded) : j \in row.members
    <2>1. CASE Several(shown, j)
      <3>1. GroupRow(shown, j) \in GroupRows(shown, expanded)
        BY <2>1 DEF GroupRows
      <3>2. j \in GroupRow(shown, j).members
        BY DEF GroupRow, Row, Named
      <3> QED BY <3>1, <3>2
    <2>2. CASE ~ Several(shown, j)
      <3>1. JobRow(shown, j) \in GroupRows(shown, expanded)
        BY <2>2 DEF GroupRows
      <3>2. j \in JobRow(shown, j).members
        BY DEF JobRow, Row
      <3> QED BY <3>1, <3>2
    <2> QED BY <2>1, <2>2
  <1>2. ASSUME NEW r1 \in GroupRows(shown, expanded), NEW r2 \in GroupRows(shown, expanded),
               RowKey(r1) = RowKey(r2)
        PROVE  r1 = r2
    <2>1. PICK j1 \in shown : r1 \in {GroupRow(shown, j1), JobRow(shown, j1)}
      BY GroupRowsFacts
    <2>2. PICK j2 \in shown : r2 \in {GroupRow(shown, j2), JobRow(shown, j2)}
      BY GroupRowsFacts
    <2>3. /\ \A j \in shown : RowKey(GroupRow(shown, j)) = NameOf[j]
          /\ \A j \in shown : RowKey(JobRow(shown, j)) = j
      BY NamesAssumption DEF RowKey, GroupRow, JobRow, Row
    <2>4. NameOf[j1] # j2 /\ NameOf[j2] # j1
      BY NamesAssumption
    <2>5. CASE r1 = GroupRow(shown, j1)
      <3>1. r2 = GroupRow(shown, j2) /\ NameOf[j1] = NameOf[j2]
        BY <1>2, <2>2, <2>3, <2>4, <2>5
      <3> QED BY <2>5, <3>1 DEF GroupRow
    <2>6. CASE r1 = JobRow(shown, j1)
      <3>1. r2 = JobRow(shown, j2) /\ j1 = j2
        BY <1>2, <2>2, <2>3, <2>4, <2>6
      <3> QED BY <2>6, <3>1
    <2> QED BY <2>1, <2>5, <2>6
  <1> QED BY <1>1, <1>2

-----------------------------------------------------------------------------
(* The script browser: whatever is drawn, its files are ones the target    *)
(* may run.                                                                *)
LEMMA PlacesFacts ==
    ASSUME NEW b
    PROVE  /\ Places(b) \in SUBSET (Int \X Int) /\ IsFiniteSet(Places(b))
           /\ \A p \in Places(b) :
                 RowAt(p).kind = "file" => Supports(RowAt(p).script, Target(b))
  <1>1. Len(Directories) \in Nat /\ Len(Scripts) \in Nat
    BY BankBrowserAssumption
  <1>2. IsFiniteSet(Grid)
    <2>1. Len(Directories) + 1 \in Int /\ Len(Scripts) \in Int
      BY <1>1
    <2>2. IsFiniteSet(0..(Len(Directories) + 1)) /\ IsFiniteSet(0..Len(Scripts))
      BY <2>1, FS_Interval
    <2> QED BY <2>2, FS_Product DEF Grid
  <1>3. Places(b) \in SUBSET Grid
    BY DEF Places
  <1>4. ASSUME NEW p \in Places(b)
        PROVE  RowAt(p).kind = "file" => Supports(RowAt(p).script, Target(b))
    <2>1. p[2] \in Nat
      BY <1>1, <1>3 DEF Grid
    <2>2. CASE p[2] > 0
      <3>1. p[2] \in Supported(b)
        BY <2>2 DEF Places, InTree, FilesIn
      <3> QED BY <2>2, <3>1 DEF RowAt, FileRow, Supported
    <2>3. CASE p[2] = 0
      BY <2>3 DEF RowAt, BankRow, DirectoryRow
    <2> QED BY <2>1, <2>2, <2>3
  <1>5. Grid \subseteq Int \X Int
    BY <1>1 DEF Grid
  <1>6. IsFiniteSet(Places(b))
    BY <1>2, <1>3, FS_Subset
  <1> QED BY <1>3, <1>4, <1>5, <1>6

LEMMA BankRowsFacts ==
    ASSUME NEW b
    PROVE  /\ Len(BankRows(b)) \in Nat /\ DOMAIN BankRows(b) = 1..Len(BankRows(b))
           /\ \A k \in DOMAIN BankRows(b) : BankRows(b)[k].kind = "file" =>
                 Supports(BankRows(b)[k].script, Target(b))
  <1> DEFINE order == Arranged(Places(b))
             n == Cardinality(Places(b))
             list == [i \in 1..n |-> RowAt(order[i])]
  <1>1. n \in Nat /\ DOMAIN order = 1..n /\ \A i \in 1..n : order[i] \in Places(b)
    BY PlacesFacts, ArrangedFacts
  <1>2. BankRows(b) = list
    BY <1>1 DEF BankRows
  <1>3. \A i \in 1..n :
           list[i].kind = "file" => Supports(list[i].script, Target(b))
    <2> HIDE DEF order, n
    <2> QED BY <1>1, PlacesFacts
  <1>4. DOMAIN list = 1..n /\ Len(list) = n
    <2> HIDE DEF n
    <2> QED BY <1>1
  <1> HIDE DEF list, n
  <1> QED BY <1>1, <1>2, <1>3, <1>4

(* Draw leaves a frame whose files belong to its target, as long as the    *)
(* rows it was given did or are made anew.                                 *)
LEMMA DrawFacts ==
    ASSUME NEW b, DOMAIN b = BankFields, b.dirty \/ RowsBelong(b)
    PROVE  /\ DOMAIN Draw(b) = BankFields /\ RowsBelong(Draw(b))
           /\ Draw(b).dirty = FALSE /\ Draw(b).at = b.at
           /\ ~ b.dirty /\ b.focus \in DOMAIN b.rows =>
                 Draw(b).rows = b.rows /\ Draw(b).focus = b.focus
  <1> DEFINE rows == IF b.dirty THEN BankRows(b) ELSE b.rows
  <1>1. /\ DOMAIN Draw(b) = BankFields /\ Draw(b).rows = rows /\ Draw(b).dirty = FALSE
        /\ Draw(b).target = b.target /\ Draw(b).at = b.at
        /\ Draw(b).focus = IF b.focus > Len(rows) /\ rows # <<>> THEN Len(rows)
                           ELSE IF rows = <<>> THEN 1 ELSE b.focus
    BY DEF Draw, BankFields
  <1>2. /\ Len(rows) \in Nat /\ DOMAIN rows = 1..Len(rows)
        /\ \A k \in DOMAIN rows : rows[k].kind = "file" => Supports(rows[k].script, Target(b))
    BY BankRowsFacts DEF RowsBelong
  <1>3. Target(Draw(b)) = Target(b)
    BY <1>1 DEF Target
  <1>4. RowsBelong(Draw(b))
    <2> HIDE DEF rows
    <2> QED BY <1>1, <1>2, <1>3 DEF RowsBelong
  <1>5. ASSUME ~ b.dirty, b.focus \in DOMAIN b.rows
        PROVE  Draw(b).rows = b.rows /\ Draw(b).focus = b.focus
    <2>1. rows = b.rows
      BY <1>5
    <2>2. b.focus \in 1..Len(rows)
      BY <1>2, <1>5, <2>1
    <2> HIDE DEF rows
    <2>3. rows # <<>> /\ ~ (b.focus > Len(rows))
      BY <1>2, <2>2
    <2> QED BY <1>1, <2>1, <2>3
  <1> QED BY <1>1, <1>4, <1>5

LEMMA TypedKeeps ==
    ASSUME NEW place, NEW b, Typed(place, b),
           DOMAIN b = BankFields, b.dirty \/ RowsBelong(b),
           b.at = "confirm" =>
              ~ b.dirty /\ b.focus \in DOMAIN b.rows /\ b.rows[b.focus].kind = "file"
    PROVE  BankInv'
  <1>1. PICK d : d = Draw(b)
    OBVIOUS
  <1>2. bank' = d
    BY <1>1 DEF Typed
  <1>3. /\ DOMAIN d = BankFields /\ RowsBelong(d) /\ d.dirty = FALSE /\ d.at = b.at
        /\ ~ b.dirty /\ b.focus \in DOMAIN b.rows => d.rows = b.rows /\ d.focus = b.focus
    BY <1>1, DrawFacts
  <1>4. BankOK(d)
    BY <1>3 DEF BankOK
  <1> QED BY <1>2, <1>4 DEF BankInv

LEMMA BrowserKeyKeeps ==
    ASSUME BankInv, BrowserKey
    PROVE  BankInv'
  <1>1. /\ DOMAIN bank = BankFields
        /\ bank.at # "closed" => ~ bank.dirty /\ RowsBelong(bank)
    BY DEF BankInv, BankOK
  <1>2. ASSUME NEW b, NEW place, Typed(place, Dirty(b)), DOMAIN b = BankFields,
               b.at # "confirm"
        PROVE  BankInv'
    <2>1. DOMAIN Dirty(b) = BankFields /\ Dirty(b).dirty = TRUE /\ Dirty(b).at = b.at
      BY <1>2 DEF Dirty, BankFields
    <2> QED BY <1>2, <2>1, TypedKeeps
  <1>3. ASSUME NEW b, NEW place, Typed(place, b), DOMAIN b = BankFields,
               place \in {"browse", "search", "confirm"}, b.rows = bank.rows,
               b.target = bank.target, b.dirty = bank.dirty,
               b.at = "confirm" => b.focus \in DOMAIN b.rows /\ b.rows[b.focus].kind = "file"
        PROVE  BankInv'
    <2>1. ~ b.dirty /\ RowsBelong(bank)
      BY <1>1, <1>3 DEF Typed
    <2>2. RowsBelong(b)
      BY <1>3, <2>1 DEF RowsBelong, Target
    <2> QED BY <1>3, <2>1, <2>2, TypedKeeps
  <1>4. CASE StepFocus
    <2>1. PICK k : Typed("browse", [bank EXCEPT !.focus = k])
      BY <1>4 DEF StepFocus
    <2>2. bank.at = "browse"
      BY <2>1 DEF Typed
    <2> QED BY <1>1, <1>3, <2>1, <2>2 DEF BankFields
  <1>5. CASE NextTarget
    <2>1. PICK k : Typed("browse", Dirty([bank EXCEPT !.target = k]))
      BY <1>5 DEF NextTarget, Retarget
    <2>2. bank.at = "browse"
      BY <2>1 DEF Typed
    <2> QED BY <1>1, <1>2, <2>1, <2>2 DEF BankFields
  <1>6. CASE Rescan
    <2>1. PICK found : Typed("browse", Dirty([bank EXCEPT !.scripts = found,
                                                  !.expanded = @ \cup {Root}]))
      BY <1>6 DEF Rescan
    <2>2. bank.at = "browse"
      BY <2>1 DEF Typed
    <2> QED BY <1>1, <1>2, <2>1, <2>2 DEF BankFields
  <1>7. CASE StartSearch
    BY <1>1, <1>2, <1>7 DEF StartSearch, BankFields
  <1>8. CASE EditSearch
    <2>1. PICK s : Typed("search", Dirty([bank EXCEPT !.query = s]))
      BY <1>8 DEF EditSearch
    <2>2. bank.at = "search"
      BY <2>1 DEF Typed
    <2> QED BY <1>1, <1>2, <2>1, <2>2 DEF BankFields
  <1>9. CASE EndSearch
    BY <1>1, <1>2, <1>3, <1>9 DEF EndSearch, BankFields
  <1>10. CASE ClearSearch
    <2>1. bank.at = "browse"
      BY <1>10 DEF ClearSearch, Typed
    <2> QED BY <1>1, <1>2, <1>10, <2>1 DEF ClearSearch, BankFields
  <1>11. CASE Fold
    <2>1. PICK e : Typed("browse", Dirty([bank EXCEPT !.expanded = e]))
      BY <1>11 DEF Fold
    <2>2. bank.at = "browse"
      BY <2>1 DEF Typed
    <2> QED BY <1>1, <1>2, <2>1, <2>2 DEF BankFields
  <1>12. CASE CloseFold
    <2>1. PICK e : Typed("browse", Dirty([bank EXCEPT !.expanded = e]))
      BY <1>12 DEF CloseFold
    <2>2. bank.at = "browse"
      BY <2>1 DEF Typed
    <2> QED BY <1>1, <1>2, <2>1, <2>2 DEF BankFields
  <1>13. CASE AskSubmit
    <2>1. bank.focus \in DOMAIN bank.rows /\ bank.rows[bank.focus].kind = "file"
      BY <1>13 DEF AskSubmit, OnRow, Under
    <2> QED BY <1>1, <1>3, <1>13, <2>1 DEF AskSubmit, BankFields
  <1>14. CASE Decline
    BY <1>1, <1>3, <1>14 DEF Decline, BankFields
  <1> QED BY <1>4, <1>5, <1>6, <1>7, <1>8, <1>9, <1>10, <1>11, <1>12, <1>13, <1>14 DEF BrowserKey

LEMMA ClosedFacts ==
    /\ BankOK(Closed)
    /\ \A scripts : BankOK(Opened(scripts))
  <1>1. DOMAIN Closed = BankFields /\ Closed.at = "closed" /\ Closed.dirty = TRUE
    BY DEF Closed, BankFields
  <1>2. ASSUME NEW scripts
        PROVE  BankOK(Opened(scripts))
    <2> DEFINE b == [Closed EXCEPT !.at = "browse", !.scripts = scripts]
    <2>1. DOMAIN b = BankFields /\ b.at = "browse" /\ b.dirty = TRUE
      BY <1>1 DEF BankFields
    <2>2. DOMAIN Draw(b) = BankFields /\ RowsBelong(Draw(b)) /\ Draw(b).dirty = FALSE
          /\ Draw(b).at = "browse"
      <3> HIDE DEF b
      <3> QED BY <2>1, DrawFacts
    <2> HIDE DEF b
    <2>3. BankOK(Draw(b))
      BY <2>2 DEF BankOK
    <2> QED BY <2>3 DEF Opened, b
  <1> QED BY <1>1, <1>2 DEF BankOK

-----------------------------------------------------------------------------
(* What the helpers of the picker leave alone.                             *)
LEMMA RowsOfFacts ==
    ASSUME NEW u, DOMAIN u.jobs \subseteq Jobs
    PROVE  /\ RowsOf(u) \in Seq(RowSet) /\ Indices(u) \subseteq DOMAIN u.jobs
           /\ \A k \in DOMAIN RowsOf(u) : RowsOf(u)[k].members \subseteq DOMAIN u.jobs
  <1>1. Indices(u) \subseteq DOMAIN u.jobs /\ Indices(u) \in SUBSET Jobs
    BY DEF Indices
  <1>2. PICK list \in Seq(RowSet) :
           /\ list = RowsOf(u)
           /\ \A k \in DOMAIN list : list[k] \in GroupRows(Indices(u), u.expanded)
    <2>1. PICK shown \in SUBSET Jobs : shown = Indices(u)
      BY <1>1
    <2>2. PICK jobs, expanded : jobs = u.jobs /\ expanded = u.expanded
      OBVIOUS
    <2>3. RowsOf(u) = GroupedRows(jobs, shown, expanded)
      BY <2>1, <2>2 DEF RowsOf
    <2> QED BY <2>1, <2>2, <2>3, GroupedRowsFacts
  <1>3. \A row \in GroupRows(Indices(u), u.expanded) : row.members \subseteq Indices(u)
    BY <1>1, GroupRowsFacts
  <1> QED BY <1>1, <1>2, <1>3

LEMMA SameRows ==
    ASSUME NEW u, NEW v, v.jobs = u.jobs, v.filter = u.filter, v.query = u.query,
           v.expanded = u.expanded
    PROVE  RowsOf(v) = RowsOf(u)
  BY DEF RowsOf, Indices

LEMMA MergeDomain ==
    ASSUME NEW f, NEW g
    PROVE  DOMAIN Merged(f, g) = DOMAIN f \cup DOMAIN g
  BY DEF Merged

LEMMA RememberFacts ==
    ASSUME NEW u, DOMAIN u = UiFields, DOMAIN u.jobs \subseteq Jobs,
           DOMAIN u.known \subseteq Jobs
    PROVE  /\ DOMAIN Remember(u) = UiFields
           /\ \A f \in UiFields \ {"known"} : Remember(u)[f] = u[f]
           /\ DOMAIN Remember(u).known = DOMAIN u.known \cup (u.selected \cap DOMAIN u.jobs)
  <1>1. PICK seen : seen = Only(u.jobs, u.selected)
    OBVIOUS
  <1>2. DOMAIN seen = u.selected \cap DOMAIN u.jobs
    BY <1>1 DEF Only, Restrict
  <1>3. PICK known : known = Merged(seen, u.known)
    OBVIOUS
  <1>4. Remember(u) = [u EXCEPT !.known = known]
    BY <1>1, <1>3 DEF Remember
  <1>5. "known" \in UiFields
    BY DEF UiFields
  <1>6. DOMAIN known = DOMAIN u.known \cup (u.selected \cap DOMAIN u.jobs)
    <2>1. DOMAIN known = DOMAIN seen \cup DOMAIN u.known
      BY <1>3, MergeDomain
    <2> QED BY <1>2, <2>1
  <1> QED BY <1>4, <1>5, <1>6

LEMMA RestoreFacts ==
    ASSUME NEW u, DOMAIN u = UiFields
    PROVE  /\ DOMAIN Restore(u) = UiFields
           /\ \A f \in UiFields \ {"jobs"} : Restore(u)[f] = u[f]
           /\ DOMAIN Restore(u).jobs \subseteq DOMAIN u.jobs \cup DOMAIN u.known
  <1> DEFINE missing == {j \in u.selected \cap DOMAIN u.known :
                            InTab(u.cluster, j) /\ (u.blocked \/ u.known[j] # "blocked")}
  <1>1. PICK back : back = Restrict(u.known, missing)
    OBVIOUS
  <1>2. DOMAIN back \subseteq DOMAIN u.known
    BY <1>1 DEF Restrict
  <1>3. PICK jobs : jobs = Merged(u.jobs, back)
    OBVIOUS
  <1>4. Restore(u) = [u EXCEPT !.jobs = jobs]
    BY <1>1, <1>3 DEF Restore
  <1>5. "jobs" \in UiFields
    BY DEF UiFields
  <1>6. DOMAIN jobs \subseteq DOMAIN u.jobs \cup DOMAIN u.known
    BY <1>2, <1>3, MergeDomain
  <1> QED BY <1>4, <1>5, <1>6

LEMMA RefreshedFacts ==
    ASSUME NEW u, DOMAIN u = UiFields, DOMAIN u.jobs \subseteq Jobs, NEW forced
    PROVE  /\ DOMAIN Refreshed(u, forced) = UiFields
           /\ \A f \in UiFields \ {"jobs", "viewDirty", "catalogDirty", "redraw"} :
                 Refreshed(u, forced)[f] = u[f]
           /\ DOMAIN Refreshed(u, forced).jobs \subseteq Jobs
           /\ forced => Refreshed(u, forced).viewDirty
           /\ ~ Refreshed(u, forced).viewDirty =>
                 /\ ~ u.viewDirty /\ Refreshed(u, forced).jobs = u.jobs
                 /\ (Refreshed(u, forced).redraw <=> u.redraw)
           /\ Refreshed(u, forced).viewDirty =>
                 u.viewDirty \/ forced \/ Refreshed(u, forced).redraw
           /\ u.redraw => Refreshed(u, forced).redraw
  <1>1. PICK fresh : fresh = Fresh(u)
    OBVIOUS
  <1>2. DOMAIN fresh \subseteq Jobs
    <2> DEFINE pinned == {j \in DOMAIN u.jobs : u.jobs[j] = "open" /\ InTab(u.cluster, j)}
    <2>1. PICK now : now = [j \in Visible(u) |-> listing'[j]]
      OBVIOUS
    <2>2. PICK kept : kept = Restrict(u.jobs, pinned)
      OBVIOUS
    <2>3. fresh = Merged(now, kept)
      BY <1>1, <2>1, <2>2 DEF Fresh
    <2>4. DOMAIN now \subseteq Jobs
      BY <2>1 DEF Visible
    <2>5. DOMAIN kept \subseteq Jobs
      BY <2>2 DEF Restrict
    <2> QED BY <2>3, <2>4, <2>5, MergeDomain
  <1>3. PICK v : v = Refreshed(u, forced)
    OBVIOUS
  <1>4. v = [u EXCEPT !.jobs = fresh, !.viewDirty = @ \/ forced \/ u.jobs # fresh,
                      !.catalogDirty = @ \/ u.jobs # fresh, !.redraw = @ \/ u.jobs # fresh]
    BY <1>1, <1>3 DEF Refreshed, Changed
  <1>5. /\ DOMAIN v = UiFields
        /\ \A f \in UiFields \ {"jobs", "viewDirty", "catalogDirty", "redraw"} : v[f] = u[f]
        /\ v.jobs = fresh /\ (v.viewDirty <=> u.viewDirty \/ forced \/ u.jobs # fresh)
        /\ (v.redraw <=> u.redraw \/ u.jobs # fresh)
    BY <1>4 DEF UiFields
  <1>6. ~ v.viewDirty => ~ u.viewDirty /\ v.jobs = u.jobs /\ (v.redraw <=> u.redraw)
    BY <1>5
  <1> QED BY <1>2, <1>3, <1>5, <1>6

-----------------------------------------------------------------------------
(* The part of a pass before the frame: after it the rows are those of the *)
(* lists, and the cursor is on the row it was to find, if there is one.    *)
LEMMA RebuildStale ==
    ASSUME NEW u, UiOK(u), u.viewDirty
    PROVE  LET b == Rebuild(u)
           IN  /\ UiOK(b) /\ ~ b.viewDirty /\ b.rows = RowsOf(b)
               /\ b.selected = u.selected /\ b.manage = u.manage /\ (b.redraw <=> u.redraw)
               /\ (\E k \in DOMAIN b.rows : RowKey(b.rows[k]) = u.focusedKey)
                     => KeyAt(b) = u.focusedKey
  <1> DEFINE remembered == IF u.catalogDirty THEN Remember(u) ELSE u
             restored == IF u.manage /\ u.viewDirty THEN Restore(remembered) ELSE remembered
             found(rows) == {k \in 1..Len(rows) : RowKey(rows[k]) = u.focusedKey}
             last(rows) == IF rows = <<>> THEN 1 ELSE Len(rows)
  <1>1. /\ DOMAIN u = UiFields /\ DOMAIN u.jobs \subseteq Jobs /\ DOMAIN u.known \subseteq Jobs
        /\ u.focus \in Nat \ {0} /\ u.selected \subseteq DOMAIN u.known
    BY DEF UiOK
  <1>2. PICK m : m = remembered
    OBVIOUS
  <1>3. /\ DOMAIN m = UiFields /\ \A f \in UiFields \ {"known"} : m[f] = u[f]
        /\ DOMAIN m.known \subseteq Jobs /\ DOMAIN u.known \subseteq DOMAIN m.known
    <2>1. CASE u.catalogDirty
      <3>1. m = Remember(u)
        BY <1>2, <2>1
      <3> QED BY <3>1, <1>1, RememberFacts
    <2>2. CASE ~ u.catalogDirty
      BY <2>2, <1>1, <1>2
    <2> QED BY <2>1, <2>2
  <1>4. PICK r : r = IF u.manage /\ u.viewDirty THEN Restore(m) ELSE m
    OBVIOUS
  <1>5. /\ DOMAIN r = UiFields /\ \A f \in UiFields \ {"known", "jobs"} : r[f] = u[f]
        /\ DOMAIN r.known \subseteq Jobs /\ DOMAIN u.known \subseteq DOMAIN r.known
        /\ DOMAIN r.jobs \subseteq Jobs
    <2>1. m.jobs = u.jobs
      BY <1>3 DEF UiFields
    <2>2. CASE u.manage
      <3>1. r = Restore(m)
        BY <1>4, <2>2
      <3>2. /\ DOMAIN r = UiFields /\ \A f \in UiFields \ {"jobs"} : r[f] = m[f]
            /\ DOMAIN r.jobs \subseteq DOMAIN m.jobs \cup DOMAIN m.known
        BY <3>1, <1>3, RestoreFacts
      <3>3. r.known = m.known
        BY <3>2 DEF UiFields
      <3> QED BY <3>2, <3>3, <2>1, <1>1, <1>3
    <2>3. CASE ~ u.manage
      BY <2>1, <2>3, <1>1, <1>3, <1>4
    <2> QED BY <2>2, <2>3
  <1>6. PICK rows : rows = RowsOf(r)
    OBVIOUS
  <1>7. rows \in Seq(RowSet) /\ Len(rows) \in Nat /\ DOMAIN rows = 1..Len(rows)
    BY <1>5, <1>6, RowsOfFacts
  <1>8. PICK focus : focus = IF found(rows) # {} THEN CHOOSE k \in found(rows) : TRUE ELSE u.focus
    OBVIOUS
  <1>9. /\ focus \in Nat \ {0}
        /\ (\E k \in DOMAIN rows : RowKey(rows[k]) = u.focusedKey) =>
              focus \in DOMAIN rows /\ RowKey(rows[focus]) = u.focusedKey
    <2>1. CASE found(rows) # {}
      <3>1. focus \in found(rows)
        BY <1>8, <2>1
      <3> QED BY <3>1, <1>7
    <2>2. CASE found(rows) = {}
      BY <2>2, <1>1, <1>7, <1>8
    <2> QED BY <2>1, <2>2
  <1>10. PICK at1 : at1 = IF focus > last(rows) THEN last(rows) ELSE focus
    OBVIOUS
  <1>11. /\ at1 \in Nat \ {0} /\ (rows # <<>> => at1 <= Len(rows))
         /\ focus \in DOMAIN rows => at1 = focus
    <2>1. CASE rows = <<>>
      <3>1. Len(rows) = 0 /\ last(rows) = 1
        BY <2>1
      <3> QED BY <3>1, <2>1, <1>7, <1>9, <1>10
    <2>2. CASE rows # <<>>
      <3>1. Len(rows) >= 1 /\ last(rows) = Len(rows)
        BY <2>2, <1>7
      <3> HIDE DEF last
      <3> QED BY <3>1, <1>7, <1>9, <1>10
    <2> QED BY <2>1, <2>2
  <1>12. PICK b : b = Rebuild(u)
    OBVIOUS
  <1>13. b = [r EXCEPT !.catalogDirty = FALSE, !.viewDirty = FALSE, !.rows = rows,
                       !.focusedKey = NoRow, !.focus = at1]
    BY <1>2, <1>4, <1>6, <1>8, <1>10, <1>12 DEF Rebuild
  <1>14. /\ DOMAIN b = UiFields /\ b.viewDirty = FALSE /\ b.rows = rows /\ b.focus = at1
         /\ \A f \in UiFields \ {"catalogDirty", "viewDirty", "rows", "focusedKey", "focus"} :
               b[f] = r[f]
    BY <1>5, <1>13 DEF UiFields
  <1>15. /\ b.jobs = r.jobs /\ b.known = r.known /\ b.filter = r.filter /\ b.query = r.query
         /\ b.expanded = r.expanded /\ b.selected = r.selected /\ b.manage = r.manage
         /\ b.redraw = r.redraw
    BY <1>14 DEF UiFields
  <1>16. r.selected = u.selected /\ r.manage = u.manage /\ r.redraw = u.redraw
    BY <1>5 DEF UiFields
  <1>17. b.rows = RowsOf(b)
    BY <1>6, <1>14, <1>15, SameRows
  <1>18. UiOK(b)
    BY <1>1, <1>5, <1>7, <1>11, <1>14, <1>15, <1>16 DEF UiOK
  <1>19. (\E k \in DOMAIN b.rows : RowKey(b.rows[k]) = u.focusedKey) => KeyAt(b) = u.focusedKey
    BY <1>9, <1>11, <1>14 DEF KeyAt, Focused
  <1> QED BY <1>12, <1>14, <1>15, <1>16, <1>17, <1>18, <1>19

LEMMA RebuildFresh ==
    ASSUME NEW u, UiOK(u), ~ u.viewDirty
    PROVE  /\ UiOK(Rebuild(u))
           /\ \A f \in UiFields \ {"known", "catalogDirty"} : Rebuild(u)[f] = u[f]
  <1>1. /\ DOMAIN u = UiFields /\ DOMAIN u.jobs \subseteq Jobs /\ DOMAIN u.known \subseteq Jobs
    BY DEF UiOK
  <1>2. PICK m : m = IF u.catalogDirty THEN Remember(u) ELSE u
    OBVIOUS
  <1>3. /\ DOMAIN m = UiFields /\ \A f \in UiFields \ {"known"} : m[f] = u[f]
        /\ DOMAIN m.known \subseteq Jobs /\ DOMAIN u.known \subseteq DOMAIN m.known
    <2>1. CASE u.catalogDirty
      <3>1. m = Remember(u)
        BY <1>2, <2>1
      <3> QED BY <3>1, <1>1, RememberFacts
    <2>2. CASE ~ u.catalogDirty
      BY <2>2, <1>1, <1>2
    <2> QED BY <2>1, <2>2
  <1>4. PICK b : b = Rebuild(u)
    OBVIOUS
  <1>5. b = [m EXCEPT !.catalogDirty = FALSE]
    BY <1>2, <1>4 DEF Rebuild
  <1>6. DOMAIN b = UiFields /\ b.known = m.known
        /\ \A f \in UiFields \ {"known", "catalogDirty"} : b[f] = u[f]
    BY <1>3, <1>5 DEF UiFields
  <1>7. b.rows = u.rows /\ b.jobs = u.jobs /\ b.focus = u.focus /\ b.selected = u.selected
    BY <1>6 DEF UiFields
  <1> QED BY <1>3, <1>4, <1>6, <1>7 DEF UiOK

-----------------------------------------------------------------------------
(* A pass of the loop over lists that are marked stale if they are. *)
LEMMA PassKeeps ==
    ASSUME NEW u, UiOK(u), Current(u), MarksOK(u, open, touched), FrameOK(u, screen),
           AimOK(u, aimed), at # "done", result = {}, Pass(u)
    PROVE  PickerInv'
  <1>1. PICK b : b = Rebuild(u)
    OBVIOUS
  <1>2. PICK v : v = [b EXCEPT !.redraw = FALSE]
    OBVIOUS
  <1>3. PICK frame : frame = IF b.redraw THEN Drawn(b) ELSE screen
    OBVIOUS
  <1>4. PICK aim : aim = IF u.viewDirty /\ aimed.rebuilds < 2
                         THEN [aimed EXCEPT !.rebuilds = @ + 1] ELSE aimed
    OBVIOUS
  <1>5. /\ ui' = v /\ screen' = frame /\ aimed' = aim /\ at' = "key"
        /\ result' = result /\ open' = open /\ touched' = touched
    BY <1>1, <1>2, <1>3, <1>4 DEF Pass
  <1>6. /\ UiOK(b) /\ ~ b.viewDirty /\ b.rows = RowsOf(b)
        /\ b.selected = u.selected /\ b.manage = u.manage /\ (b.redraw <=> u.redraw)
        /\ ~ u.viewDirty =>
              b.rows = u.rows /\ b.focus = u.focus /\ b.focusedKey = u.focusedKey
        /\ u.viewDirty => ((\E k \in DOMAIN b.rows : RowKey(b.rows[k]) = u.focusedKey)
                             => KeyAt(b) = u.focusedKey)
    <2>1. CASE u.viewDirty
      BY <1>1, <2>1, RebuildStale
    <2>2. CASE ~ u.viewDirty
      <3>1. UiOK(b) /\ \A f \in UiFields \ {"known", "catalogDirty"} : b[f] = u[f]
        BY <1>1, <2>2, RebuildFresh
      <3>2. /\ b.rows = u.rows /\ b.focus = u.focus /\ b.focusedKey = u.focusedKey
            /\ b.selected = u.selected /\ b.manage = u.manage /\ b.redraw = u.redraw
            /\ b.viewDirty = u.viewDirty /\ b.jobs = u.jobs /\ b.filter = u.filter
            /\ b.query = u.query /\ b.expanded = u.expanded
        BY <3>1 DEF UiFields
      <3>3. b.rows = RowsOf(b)
        BY <2>2, <3>2, SameRows DEF Current
      <3> QED BY <3>1, <3>2, <3>3, <2>2
    <2> QED BY <2>1, <2>2
  <1>7. /\ DOMAIN v = UiFields /\ v.redraw = FALSE
        /\ \A f \in UiFields \ {"redraw"} : v[f] = b[f]
    BY <1>2, <1>6 DEF UiOK, UiFields
  <1>8. /\ v.rows = b.rows /\ v.focus = b.focus /\ v.focusedKey = b.focusedKey
        /\ v.selected = b.selected /\ v.manage = b.manage /\ v.viewDirty = b.viewDirty
        /\ v.jobs = b.jobs /\ v.filter = b.filter /\ v.query = b.query
        /\ v.expanded = b.expanded /\ v.known = b.known
    BY <1>7 DEF UiFields
  <1>9. UiOK(v)
    BY <1>6, <1>7, <1>8 DEF UiOK
  <1>10. Current(v) /\ ~ v.viewDirty
    BY <1>6, <1>8, SameRows DEF Current
  <1>11. MarksOK(v, open, touched)
    BY <1>6, <1>8 DEF MarksOK
  <1>12. FrameOK(v, frame)
    <2>1. CASE b.redraw
      BY <2>1, <1>3, <1>8, <1>10 DEF FrameOK, Drawn
    <2>2. CASE ~ b.redraw
      BY <2>2, <1>3, <1>6, <1>8, <1>10 DEF FrameOK, Drawn
    <2> QED BY <2>1, <2>2
  <1>13. KeyAt(v) = KeyAt(b)
    BY <1>8 DEF KeyAt, Focused
  <1>14. AimOK(v, aim)
    <2>1. CASE ~ u.viewDirty
      <3>1. aim = aimed /\ KeyAt(v) = KeyAt(u) /\ v.rows = u.rows /\ v.focusedKey = u.focusedKey
        BY <2>1, <1>4, <1>6, <1>8 DEF KeyAt, Focused
      <3> QED BY <3>1 DEF AimOK
    <2>2. CASE u.viewDirty /\ aimed.rebuilds = 2
      BY <2>2, <1>4 DEF AimOK
    <2>3. CASE u.viewDirty /\ aimed.rebuilds # 2
      <3>1. aimed.rebuilds \in {0, 1}
        BY <2>3 DEF AimOK
      <3>2. /\ DOMAIN aim = {"row", "rebuilds"} /\ aim.rebuilds = aimed.rebuilds + 1
            /\ aim.row = aimed.row
        BY <2>3, <3>1, <1>4 DEF AimOK
      <3>3. aimed.rebuilds = 0 => u.focusedKey = aim.row
        BY <3>2 DEF AimOK
      <3> QED BY <2>3, <3>1, <3>2, <3>3, <1>6, <1>8, <1>13 DEF AimOK
    <2> QED BY <2>1, <2>2, <2>3 DEF AimOK
  <1>15. PickerInv'
    BY <1>5, <1>7, <1>9, <1>10, <1>11, <1>12, <1>14
    DEF PickerInv, ResultOK, OpensWhatWasMarked, Waiting
  <1> QED BY <1>15

(* A key that leaves marks and lists in order. *)
LEMMA PressKeeps ==
    ASSUME NEW u, UiOK(u), Current(u), MarksOK(u, open, touched'), result = {},
           ui' = [u EXCEPT !.redraw = TRUE, !.focusedKey = CursorRow(u)],
           aimed' = [row |-> KeyAt(u), rebuilds |-> 0],
           UNCHANGED <<screen, result, open>>, at' \in {"loop", "bank"}
    PROVE  PickerInv'
  <1>1. PICK v : v = [u EXCEPT !.redraw = TRUE, !.focusedKey = KeyAt(u)]
    OBVIOUS
  <1>2. PICK aim : aim = [row |-> KeyAt(u), rebuilds |-> 0]
    OBVIOUS
  <1>3. /\ ui' = v /\ screen' = screen /\ aimed' = aim /\ at' \in {"loop", "bank"}
        /\ result' = result /\ open' = open
    BY <1>1, <1>2 DEF CursorRow
  <1>4. /\ DOMAIN v = UiFields /\ v.redraw = TRUE /\ v.focusedKey = KeyAt(u)
        /\ \A f \in UiFields \ {"redraw", "focusedKey"} : v[f] = u[f]
    BY <1>1 DEF UiOK, UiFields
  <1>5. /\ v.rows = u.rows /\ v.focus = u.focus
        /\ v.selected = u.selected /\ v.manage = u.manage /\ v.viewDirty = u.viewDirty
        /\ v.jobs = u.jobs /\ v.filter = u.filter /\ v.query = u.query
        /\ v.expanded = u.expanded /\ v.known = u.known
    BY <1>4 DEF UiFields
  <1>6. UiOK(v)
    BY <1>4, <1>5 DEF UiOK
  <1>7. Current(v)
    BY <1>5, SameRows DEF Current
  <1>8. PICK marked : marked = touched'
    OBVIOUS
  <1>9. MarksOK(v, open, marked)
    BY <1>5, <1>8 DEF MarksOK
  <1>10. AimOK(v, aim)
    BY <1>2, <1>4, <1>5 DEF AimOK, KeyAt, Focused
  <1>11. FrameOK(v, screen)
    BY <1>4 DEF FrameOK
  <1> QED BY <1>3, <1>6, <1>7, <1>8, <1>9, <1>10, <1>11
          DEF PickerInv, ResultOK, OpensWhatWasMarked, Waiting

LEMMA PressedKeeps ==
    ASSUME NEW u, UiOK(u), Current(u), MarksOK(u, open, touched'), result = {}, Press(u)
    PROVE  PickerInv'
  <1>1. /\ ui' = [u EXCEPT !.redraw = TRUE, !.focusedKey = CursorRow(u)]
        /\ aimed' = [row |-> KeyAt(u), rebuilds |-> 0]
        /\ UNCHANGED <<screen, result, open>> /\ at' \in {"loop", "bank"}
    BY DEF Press
  <1> QED BY <1>1, PressKeeps

(* What holds when a key is waited for. *)
LEMMA KeyFacts ==
    ASSUME PickerInv, Waiting
    PROVE  /\ UiOK(ui) /\ Current(ui) /\ MarksOK(ui, open, touched) /\ ~ ui.viewDirty
           /\ result = {} /\ screen = Drawn(ui) /\ Indices(ui) \subseteq DOMAIN ui.jobs
           /\ \A k \in DOMAIN ui.rows : ui.rows[k].members \subseteq DOMAIN ui.jobs
           /\ HasRows => /\ ui.focus \in DOMAIN ui.rows
                         /\ Focused(ui).members \subseteq DOMAIN ui.jobs
  <1>1. /\ UiOK(ui) /\ Current(ui) /\ MarksOK(ui, open, touched) /\ ~ ui.viewDirty
        /\ result = {} /\ screen = Drawn(ui)
    BY DEF PickerInv, Waiting, ResultOK, FrameOK
  <1>2. DOMAIN ui.jobs \subseteq Jobs /\ ui.rows = RowsOf(ui)
    BY <1>1 DEF UiOK, Current
  <1>3. /\ Indices(ui) \subseteq DOMAIN ui.jobs
        /\ \A k \in DOMAIN ui.rows : ui.rows[k].members \subseteq DOMAIN ui.jobs
    BY <1>2, RowsOfFacts
  <1>4. HasRows => ui.focus \in DOMAIN ui.rows
    BY <1>1 DEF UiOK, HasRows
  <1> QED BY <1>1, <1>3, <1>4 DEF Focused

(* A key that changes how the lists are shown and says so. *)
LEMMA StaleKeeps ==
    ASSUME PickerInv, Waiting, NEW u, DOMAIN u = UiFields,
           \A f \in UiFields \ {"expanded", "filter", "query"} : u[f] = ui[f],
           Press(Stale(u)), touched' = touched
    PROVE  PickerInv'
  <1>1. PICK v : v = Stale(u)
    OBVIOUS
  <1>2. /\ DOMAIN v = UiFields /\ v.viewDirty = TRUE
        /\ \A f \in UiFields \ {"expanded", "filter", "query", "viewDirty"} : v[f] = ui[f]
    BY <1>1 DEF Stale, UiFields
  <1>3. /\ v.rows = ui.rows /\ v.jobs = ui.jobs /\ v.known = ui.known /\ v.focus = ui.focus
        /\ v.selected = ui.selected /\ v.manage = ui.manage
    BY <1>2 DEF UiFields
  <1>4. UiOK(v) /\ Current(v) /\ MarksOK(v, open, touched)
    BY <1>2, <1>3, KeyFacts DEF UiOK, Current, MarksOK
  <1> QED BY <1>1, <1>4, KeyFacts, PressedKeeps DEF MarksOK

(* A key that gives or takes marks, of jobs that are listed. *)
LEMMA MarkKeeps ==
    ASSUME PickerInv, Waiting, NEW s, s \subseteq ui.selected \cup DOMAIN ui.jobs,
           NEW u, u = [ui EXCEPT !.selected = s, !.selectionDirty = TRUE],
           Press(Remember(u)), Marks(u)
    PROVE  PickerInv'
  <1>1. /\ DOMAIN ui = UiFields /\ DOMAIN ui.jobs \subseteq Jobs /\ DOMAIN ui.known \subseteq Jobs
        /\ ui.selected \subseteq DOMAIN ui.known
    BY KeyFacts DEF UiOK
  <1>2. /\ DOMAIN u = UiFields /\ u.selected = s
        /\ \A f \in UiFields \ {"selected", "selectionDirty"} : u[f] = ui[f]
    BY <1>1 DEF UiFields
  <1>3. u.jobs = ui.jobs /\ u.known = ui.known
    BY <1>2 DEF UiFields
  <1>4. PICK v : v = Remember(u)
    OBVIOUS
  <1>5. /\ DOMAIN v = UiFields /\ \A f \in UiFields \ {"known"} : v[f] = u[f]
        /\ DOMAIN v.known = DOMAIN u.known \cup (u.selected \cap DOMAIN u.jobs)
    BY <1>1, <1>2, <1>3, <1>4, RememberFacts
  <1>6. /\ v.rows = ui.rows /\ v.jobs = ui.jobs /\ v.focus = ui.focus /\ v.selected = s
        /\ v.manage = ui.manage /\ v.viewDirty = ui.viewDirty /\ v.filter = ui.filter
        /\ v.query = ui.query /\ v.expanded = ui.expanded
    BY <1>2, <1>5 DEF UiFields
  <1>7. s \subseteq DOMAIN v.known /\ DOMAIN v.known \subseteq Jobs
    BY <1>1, <1>2, <1>3, <1>5
  <1>8. UiOK(v)
    BY <1>5, <1>6, <1>7, KeyFacts DEF UiOK
  <1>9. Current(v)
    BY <1>6, KeyFacts, SameRows DEF Current
  <1>10. PICK marked : marked = touched \cup (s \ ui.selected) \cup (ui.selected \ s)
    OBVIOUS
  <1>11. touched' = marked
    BY <1>2, <1>10 DEF Marks
  <1>12. MarksOK(v, open, marked)
    BY <1>6, <1>10, KeyFacts DEF MarksOK
  <1>13. MarksOK(v, open, touched')
    BY <1>11, <1>12
  <1> QED BY <1>4, <1>8, <1>9, <1>13, KeyFacts, PressedKeeps

(* A key that asks for a new listing, whether it gets one or not. *)
LEMMA RefreshKeyFacts ==
    ASSUME NEW u, UiOK(u), NEW v, v \in {Refreshed(u, TRUE), NotRefreshed(u, TRUE)}
    PROVE  /\ UiOK(v) /\ v.viewDirty /\ v.selected = u.selected /\ v.manage = u.manage
  <1>1. DOMAIN u = UiFields /\ DOMAIN u.jobs \subseteq Jobs
    BY DEF UiOK
  <1>2. CASE v = Refreshed(u, TRUE)
    <2>1. /\ DOMAIN v = UiFields /\ DOMAIN v.jobs \subseteq Jobs /\ v.viewDirty
          /\ \A f \in UiFields \ {"jobs", "viewDirty", "catalogDirty", "redraw"} : v[f] = u[f]
      <3>1. /\ DOMAIN Refreshed(u, TRUE) = UiFields /\ DOMAIN Refreshed(u, TRUE).jobs \subseteq Jobs
            /\ Refreshed(u, TRUE).viewDirty
            /\ \A f \in UiFields \ {"jobs", "viewDirty", "catalogDirty", "redraw"} :
                  Refreshed(u, TRUE)[f] = u[f]
        BY <1>1, RefreshedFacts
      <3> QED BY <3>1, <1>2
    <2>2. /\ v.rows = u.rows /\ v.known = u.known /\ v.focus = u.focus
          /\ v.selected = u.selected /\ v.manage = u.manage
      BY <2>1 DEF UiFields
    <2> QED BY <2>1, <2>2 DEF UiOK
  <1>3. CASE v = NotRefreshed(u, TRUE)
    <2>1. /\ DOMAIN v = UiFields /\ v.viewDirty
          /\ \A f \in UiFields \ {"viewDirty"} : v[f] = u[f]
      BY <1>1, <1>3 DEF NotRefreshed, UiFields
    <2>2. /\ v.rows = u.rows /\ v.known = u.known /\ v.focus = u.focus /\ v.jobs = u.jobs
          /\ v.selected = u.selected /\ v.manage = u.manage
      BY <2>1 DEF UiFields
    <2> QED BY <2>1, <2>2 DEF UiOK
  <1> QED BY <1>2, <1>3

LEMMA PressAndRefreshKeeps ==
    ASSUME PickerInv, Waiting, NEW u, DOMAIN u = UiFields,
           \A f \in UiFields \ {"live", "blocked", "query", "cluster"} : u[f] = ui[f],
           PressAndRefresh(u), touched' = touched
    PROVE  PickerInv'
  <1>1. /\ u.rows = ui.rows /\ u.jobs = ui.jobs /\ u.known = ui.known /\ u.focus = ui.focus
        /\ u.selected = ui.selected /\ u.manage = ui.manage
    BY DEF UiFields
  <1>2. UiOK(u)
    BY <1>1, KeyFacts DEF UiOK
  <1>3. PICK v \in {Refreshed(u, TRUE), NotRefreshed(u, TRUE)} : Press(v)
    BY DEF PressAndRefresh
  <1>4. UiOK(v) /\ v.viewDirty /\ v.selected = u.selected /\ v.manage = u.manage
    BY <1>2, <1>3, RefreshKeyFacts
  <1>5. Current(v) /\ MarksOK(v, open, touched)
    BY <1>1, <1>4, KeyFacts DEF Current, MarksOK
  <1> QED BY <1>3, <1>4, <1>5, KeyFacts, PressedKeeps

-----------------------------------------------------------------------------
(* The keys, one by one. *)
LEMMA MoveKeeps ==
    ASSUME PickerInv, Waiting, Move
    PROVE  PickerInv'
  <1> DEFINE last == IF HasRows THEN Len(ui.rows) ELSE 1
  <1>1. PICK k \in {1, last} \cup ({ui.focus - 1, ui.focus + 1} \cap 1..last) :
              Press([ui EXCEPT !.focus = k]) /\ touched' = touched
    BY DEF Move, Same
  <1>2. DOMAIN ui = UiFields /\ ui.rows \in Seq(RowSet) /\ Len(ui.rows) \in Nat
    BY KeyFacts DEF UiOK
  <1>3. ui.rows # <<>> => Len(ui.rows) >= 1
    BY <1>2
  <1>4. k \in Nat \ {0} /\ (ui.rows # <<>> => k <= Len(ui.rows))
    BY <1>2, <1>3 DEF HasRows
  <1> HIDE DEF last
  <1>5. PICK u : u = [ui EXCEPT !.focus = k]
    OBVIOUS
  <1>6. DOMAIN u = UiFields /\ u.focus = k /\ \A f \in UiFields \ {"focus"} : u[f] = ui[f]
    BY <1>2, <1>5 DEF UiFields
  <1>7. /\ u.rows = ui.rows /\ u.jobs = ui.jobs /\ u.known = ui.known /\ u.selected = ui.selected
        /\ u.manage = ui.manage /\ u.viewDirty = ui.viewDirty /\ u.filter = ui.filter
        /\ u.query = ui.query /\ u.expanded = ui.expanded
    BY <1>6 DEF UiFields
  <1>8. UiOK(u)
    BY <1>4, <1>6, <1>7, KeyFacts DEF UiOK
  <1>9. Current(u) /\ MarksOK(u, open, touched)
    BY <1>7, KeyFacts, SameRows DEF Current, MarksOK
  <1> QED BY <1>1, <1>5, <1>8, <1>9, KeyFacts, PressedKeeps

LEMMA FoldKeeps ==
    ASSUME PickerInv, Waiting, Expand \/ Collapse \/ NextFilter \/ Search
    PROVE  PickerInv'
  <1>1. DOMAIN ui = UiFields
    BY KeyFacts DEF UiOK
  <1>2. touched' = touched
    BY DEF Expand, Collapse, NextFilter, Search, Same
  <1>3. PICK u : /\ Press(Stale(u))
                 /\ \/ \E e : u = [ui EXCEPT !.expanded = e]
                    \/ \E e : u = [ui EXCEPT !.filter = e]
                    \/ \E e : u = [ui EXCEPT !.query = e]
    <2>1. CASE Expand
      BY <2>1 DEF Expand
    <2>2. CASE Collapse
      BY <2>2 DEF Collapse
    <2>3. CASE NextFilter
      BY <2>3 DEF NextFilter
    <2>4. CASE Search
      BY <2>4 DEF Search
    <2> QED BY <2>1, <2>2, <2>3, <2>4
  <1>4. /\ DOMAIN u = UiFields
        /\ \A f \in UiFields \ {"expanded", "filter", "query"} : u[f] = ui[f]
    BY <1>1, <1>3
  <1> QED BY <1>2, <1>3, <1>4, StaleKeeps

LEMMA MarkKeysKeep ==
    ASSUME PickerInv, Waiting, ToggleMarks \/ MarkVisible
    PROVE  PickerInv'
  <1>1. CASE ToggleMarks
    <2> DEFINE s == Toggled(ui.selected, Focused(ui).members)
               u == [ui EXCEPT !.selected = s, !.selectionDirty = TRUE]
    <2>1. Press(Remember(u)) /\ Marks(u) /\ HasRows
      BY <1>1 DEF ToggleMarks
    <2>2. s \subseteq ui.selected \cup DOMAIN ui.jobs
      BY <2>1, KeyFacts DEF Toggled
    <2> HIDE DEF s
    <2> QED BY <2>1, <2>2, MarkKeeps
  <1>2. CASE MarkVisible
    <2> DEFINE s == ui.selected \cup Indices(ui)
               u == [ui EXCEPT !.selected = s, !.selectionDirty = TRUE]
    <2>1. Press(Remember(u)) /\ Marks(u)
      BY <1>2 DEF MarkVisible
    <2>2. s \subseteq ui.selected \cup DOMAIN ui.jobs
      BY KeyFacts
    <2> HIDE DEF s
    <2> QED BY <2>1, <2>2, MarkKeeps
  <1> QED BY <1>1, <1>2

(* Marks that are taken from jobs, listed or not. *)
LEMMA UnmarkKeeps ==
    ASSUME PickerInv, Waiting, NEW u, UiOK(u), Current(u), u.manage = ui.manage,
           u.selected \subseteq ui.selected, Press(u), Marks(u)
    PROVE  PickerInv'
  <1>1. PICK marked : marked = touched \cup (u.selected \ ui.selected) \cup (ui.selected \ u.selected)
    OBVIOUS
  <1>2. touched' = marked
    BY <1>1 DEF Marks
  <1>3. MarksOK(u, open, marked)
    BY <1>1, KeyFacts DEF MarksOK
  <1>4. MarksOK(u, open, touched')
    BY <1>2, <1>3
  <1> QED BY <1>4, KeyFacts, PressedKeeps

LEMMA ClearMarksKeeps ==
    ASSUME PickerInv, Waiting, ClearMarks
    PROVE  PickerInv'
  <1>1. PICK u : u = [ui EXCEPT !.selected = {}, !.selectionDirty = TRUE]
    OBVIOUS
  <1>2. Press(u) /\ Marks(u)
    BY <1>1 DEF ClearMarks
  <1>3. DOMAIN ui = UiFields
    BY KeyFacts DEF UiOK
  <1>4. /\ DOMAIN u = UiFields /\ u.selected = {}
        /\ \A f \in UiFields \ {"selected", "selectionDirty"} : u[f] = ui[f]
    BY <1>1, <1>3 DEF UiFields
  <1>5. /\ u.rows = ui.rows /\ u.jobs = ui.jobs /\ u.known = ui.known /\ u.focus = ui.focus
        /\ u.manage = ui.manage /\ u.viewDirty = ui.viewDirty
    BY <1>4 DEF UiFields
  <1>6. u.filter = ui.filter /\ u.query = ui.query /\ u.expanded = ui.expanded
    BY <1>4 DEF UiFields
  <1>7. UiOK(u)
    BY <1>4, <1>5, KeyFacts DEF UiOK
  <1>8. Current(u)
    BY <1>5, <1>6, KeyFacts, SameRows DEF Current
  <1> QED BY <1>2, <1>4, <1>5, <1>7, <1>8, UnmarkKeeps

LEMMA DismissKeeps ==
    ASSUME PickerInv, Waiting, Dismiss
    PROVE  PickerInv'
  <1>1. PICK hidden, targets, over :
            /\ over \/ (Press(ui) /\ touched' = touched)
            /\ LET u == [ui EXCEPT !.jobs = Only(@, Jobs \ hidden), !.selected = @ \ hidden]
               IN  ~ over \/ (Press(Stale(u)) /\ Marks(u))
    <2> DEFINE t == IF ui.selected = {} THEN Focused(ui).members
                    ELSE ui.selected \cap DOMAIN ui.jobs
    <2>1. PICK targets : targets = t
      OBVIOUS
    <2>2. PICK hidden : hidden = targets \cap dismissed'
      OBVIOUS
    <2> HIDE DEF t
    <2> QED BY <2>1, <2>2 DEF Dismiss, t, Same
  <1>2. CASE ~ over
    BY <1>1, <1>2, KeyFacts, PressedKeeps DEF MarksOK
  <1>3. CASE over
    <2>1. PICK jobs : jobs = Only(ui.jobs, Jobs \ hidden)
      OBVIOUS
    <2>2. DOMAIN jobs \subseteq Jobs
      BY <2>1 DEF Only, Restrict
    <2>3. PICK u : u = [ui EXCEPT !.jobs = jobs, !.selected = @ \ hidden]
      OBVIOUS
    <2>4. PICK v : v = Stale(u)
      OBVIOUS
    <2>5. Press(v) /\ Marks(u)
      BY <1>1, <1>3, <2>1, <2>3, <2>4
    <2>6. DOMAIN ui = UiFields
      BY KeyFacts DEF UiOK
    <2>7. /\ DOMAIN v = UiFields /\ v.viewDirty = TRUE /\ v.jobs = jobs
          /\ u.selected = ui.selected \ hidden /\ v.selected = u.selected
          /\ \A f \in UiFields \ {"jobs", "selected", "viewDirty"} : v[f] = ui[f]
      BY <2>3, <2>4, <2>6 DEF Stale, UiFields
    <2>8. /\ v.rows = ui.rows /\ v.known = ui.known /\ v.focus = ui.focus /\ v.manage = ui.manage
      BY <2>7 DEF UiFields
    <2>9. UiOK(v) /\ Current(v) /\ v.selected \subseteq ui.selected
      BY <2>2, <2>7, <2>8, KeyFacts DEF UiOK, Current
    <2>10. Marks(v)
      BY <2>5, <2>7 DEF Marks
    <2> QED BY <2>5, <2>8, <2>9, <2>10, UnmarkKeeps
  <1> QED BY <1>2, <1>3

LEMMA CycleClusterKeeps ==
    ASSUME PickerInv, Waiting, CycleCluster
    PROVE  PickerInv'
  <1>1. DOMAIN ui = UiFields
    BY KeyFacts DEF UiOK
  <1>2. PICK tab :
           LET moved == [ui EXCEPT !.cluster = tab]
           IN  \/ Press(Unmark(Refreshed(moved, TRUE)))
               \/ Press(Unmark(NotRefreshed(moved, TRUE)))
    BY DEF CycleCluster
  <1>3. PICK m : m = [ui EXCEPT !.cluster = tab]
    OBVIOUS
  <1>4. PICK v \in {Refreshed(m, TRUE), NotRefreshed(m, TRUE)} : Press(Unmark(v))
    BY <1>2, <1>3
  <1>5. DOMAIN m = UiFields /\ \A f \in UiFields \ {"cluster"} : m[f] = ui[f]
    BY <1>1, <1>3 DEF UiFields
  <1>6. /\ m.rows = ui.rows /\ m.jobs = ui.jobs /\ m.known = ui.known /\ m.focus = ui.focus
        /\ m.selected = ui.selected /\ m.manage = ui.manage
    BY <1>5 DEF UiFields
  <1>7. UiOK(m)
    BY <1>5, <1>6, KeyFacts DEF UiOK
  <1>8. UiOK(v) /\ v.viewDirty /\ v.selected = ui.selected /\ v.manage = ui.manage
    BY <1>4, <1>6, <1>7, RefreshKeyFacts
  <1>9. PICK w : w = Unmark(v)
    OBVIOUS
  <1>10. /\ DOMAIN w = UiFields /\ w.selected \subseteq ui.selected
         /\ w.manage => w.selected = ui.selected
         /\ \A f \in UiFields \ {"selected"} : w[f] = v[f]
    <2>1. DOMAIN v = UiFields
      BY <1>8 DEF UiOK
    <2>2. CASE v.manage
      BY <2>1, <2>2, <1>8, <1>9 DEF Unmark
    <2>3. CASE ~ v.manage
      <3>1. w = [v EXCEPT !.selected = @ \cap DOMAIN v.jobs]
        BY <2>3, <1>9 DEF Unmark
      <3> QED BY <3>1, <2>1, <2>3, <1>8 DEF UiFields
    <2> QED BY <2>2, <2>3
  <1>11. /\ w.rows = v.rows /\ w.jobs = v.jobs /\ w.known = v.known /\ w.focus = v.focus
         /\ w.manage = v.manage /\ w.viewDirty = v.viewDirty
    BY <1>10 DEF UiFields
  <1>12. UiOK(w) /\ Current(w)
    BY <1>8, <1>10, <1>11 DEF UiOK, Current
  <1>13. touched' = touched
    BY DEF CycleCluster, Same
  <1>14. MarksOK(w, open, touched)
    BY <1>8, <1>10, <1>11, KeyFacts DEF MarksOK
  <1> QED BY <1>4, <1>9, <1>12, <1>13, <1>14, KeyFacts, PressedKeeps

LEMMA RefreshKeysKeep ==
    ASSUME PickerInv, Waiting, Stop \/ Reload \/ History \/ ShowBlocked
    PROVE  PickerInv'
  <1>1. DOMAIN ui = UiFields
    BY KeyFacts DEF UiOK
  <1>2. touched' = touched
    BY DEF Stop, Reload, History, ShowBlocked, Same
  <1>3. PICK u : /\ PressAndRefresh(u)
                 /\ \/ u = ui
                    \/ \E live : u = [ui EXCEPT !.live = live, !.query = NoQuery]
                    \/ u = [ui EXCEPT !.blocked = ~ @]
    <2>1. CASE Stop
      BY <2>1 DEF Stop
    <2>2. CASE Reload
      BY <2>2 DEF Reload
    <2>3. CASE History
      BY <2>3 DEF History
    <2>4. CASE ShowBlocked
      BY <2>4 DEF ShowBlocked
    <2> QED BY <2>1, <2>2, <2>3, <2>4
  <1>4. /\ DOMAIN u = UiFields
        /\ \A f \in UiFields \ {"live", "blocked", "query", "cluster"} : u[f] = ui[f]
    BY <1>1, <1>3
  <1> QED BY <1>2, <1>3, <1>4, PressAndRefreshKeeps

(* What the picker answers with: the marks that are known, or, without a   *)
(* mark, the jobs of the row under the cursor.                             *)
LEMMA LeaveKeeps ==
    ASSUME PickerInv, Waiting, NEW jobs, Leave(jobs),
           jobs # {} =>
              /\ open \ touched' \subseteq jobs /\ jobs \subseteq open \cup touched'
              /\ \A k \in DOMAIN ui.rows :
                    ui.rows[k].members \subseteq ui.selected \ ui.rows[ui.focus].members
                       => ui.rows[k].members \subseteq jobs,
           MarksOK(ui, open, touched) => open \subseteq touched' \cup ui.selected,
           touched \subseteq touched'
    PROVE  PickerInv'
  <1>1. PICK marked : marked = touched'
    OBVIOUS
  <1>2. /\ ui' = ui /\ screen' = screen /\ aimed' = aimed /\ open' = open
        /\ at' = "done" /\ result' = jobs
    BY DEF Leave
  <1>3. /\ UiOK(ui) /\ Current(ui) /\ FrameOK(ui, screen) /\ AimOK(ui, aimed)
        /\ screen = Drawn(ui) /\ MarksOK(ui, open, touched)
    BY KeyFacts DEF PickerInv
  <1>4. screen.rows = ui.rows /\ screen.selected = ui.selected /\ screen.focus = ui.focus
    BY <1>3 DEF Drawn
  <1>5. OpensWhatWasMarked'
    BY <1>2, <1>4 DEF OpensWhatWasMarked
  <1>6. MarksOK(ui, open, marked)
    BY <1>1, <1>3 DEF MarksOK
  <1> QED BY <1>1, <1>2, <1>3, <1>5, <1>6 DEF PickerInv, ResultOK, Waiting

LEMMA EnterKeeps ==
    ASSUME PickerInv, Waiting, Enter
    PROVE  PickerInv'
  <1> DEFINE members == Focused(ui).members
             toggles == ui.manage /\ ~ ui.selectionDirty
  <1>1. PICK u : u = IF toggles THEN [ui EXCEPT !.selected = Toggled(@, members)] ELSE ui
    OBVIOUS
  <1>2. PICK known : known = Remember(u).known
    OBVIOUS
  <1>3. HasRows /\ members \subseteq DOMAIN ui.jobs
    BY KeyFacts DEF Enter
  <1>4. /\ \/ u.selected # {} /\ Leave(u.selected \cap DOMAIN known)
           \/ u.selected = {} /\ Leave(members)
           \/ /\ u.selected = {}
              /\ Press(Stale([u EXCEPT !.expanded = Toggled(@, {Focused(ui).name})]))
        /\ touched' = touched \cup (u.selected \ ui.selected) \cup (ui.selected \ u.selected)
                              \cup (IF u.selected = {} THEN members ELSE {})
    BY <1>1, <1>2 DEF Enter
  <1>5. /\ DOMAIN ui = UiFields /\ DOMAIN ui.jobs \subseteq Jobs /\ DOMAIN ui.known \subseteq Jobs
        /\ ui.selected \subseteq DOMAIN ui.known
    BY KeyFacts DEF UiOK
  <1>6. /\ DOMAIN u = UiFields /\ \A f \in UiFields \ {"selected"} : u[f] = ui[f]
        /\ u.selected \subseteq ui.selected \cup members
        /\ ui.selected \ members \subseteq u.selected
    <2>1. CASE toggles
      <3>1. u = [ui EXCEPT !.selected = Toggled(@, members)]
        BY <1>1, <2>1
      <3>2. /\ DOMAIN u = UiFields /\ \A f \in UiFields \ {"selected"} : u[f] = ui[f]
            /\ u.selected = Toggled(ui.selected, members)
        <4> HIDE DEF members
        <4> QED BY <3>1, <1>5 DEF UiFields
      <3> HIDE DEF members
      <3> QED BY <3>2 DEF Toggled
    <2>2. CASE ~ toggles
      BY <2>2, <1>1, <1>5
    <2> QED BY <2>1, <2>2
  <1>7. /\ u.rows = ui.rows /\ u.jobs = ui.jobs /\ u.known = ui.known /\ u.focus = ui.focus
        /\ u.manage = ui.manage
    BY <1>6 DEF UiFields
  <1>8. DOMAIN known = DOMAIN u.known \cup (u.selected \cap DOMAIN u.jobs)
    BY <1>2, <1>5, <1>6, <1>7, RememberFacts
  <1>9. u.selected \subseteq DOMAIN known
    BY <1>3, <1>5, <1>6, <1>7, <1>8
  <1>10. PICK marked : marked = touched'
    OBVIOUS
  <1>11. MarksOK(ui, open, touched) /\ result = {}
    BY KeyFacts
  <1>12. \A k \in DOMAIN ui.rows :
            ui.rows[k].members \subseteq ui.selected \ ui.rows[ui.focus].members
               => ui.rows[k].members \subseteq u.selected
    BY <1>6 DEF Focused
  <1> HIDE DEF members, toggles
  <1>13. CASE u.selected # {} /\ Leave(u.selected \cap DOMAIN known)
    <2>1. PICK jobs : jobs = u.selected
      OBVIOUS
    <2>2. Leave(jobs)
      <3>1. u.selected \cap DOMAIN known = jobs
        BY <2>1, <1>9
      <3> QED BY <3>1, <1>13
    <2>3. /\ open \ touched' \subseteq jobs /\ jobs \subseteq open \cup touched'
          /\ open \subseteq touched' \cup ui.selected /\ touched \subseteq touched'
      BY <2>1, <1>4, <1>11 DEF MarksOK
    <2> QED BY <2>1, <2>2, <2>3, <1>12, LeaveKeeps
  <1>14. CASE u.selected = {} /\ Leave(members)
    <2>1. PICK jobs : jobs = members
      OBVIOUS
    <2>2. /\ open \ touched' \subseteq jobs /\ jobs \subseteq open \cup touched'
          /\ open \subseteq touched' \cup ui.selected /\ touched \subseteq touched'
      BY <2>1, <1>4, <1>11, <1>14 DEF MarksOK
    <2>3. \A k \in DOMAIN ui.rows :
            ui.rows[k].members \subseteq ui.selected \ ui.rows[ui.focus].members
               => ui.rows[k].members \subseteq jobs
      BY <1>12, <1>14
    <2> QED BY <2>1, <2>2, <2>3, <1>14, LeaveKeeps
  <1>15. CASE /\ u.selected = {}
              /\ Press(Stale([u EXCEPT !.expanded = Toggled(@, {Focused(ui).name})]))
    <2>1. PICK e : e = Toggled(u.expanded, {Focused(ui).name})
      OBVIOUS
    <2>2. PICK v : v = Stale([u EXCEPT !.expanded = e])
      OBVIOUS
    <2>3. Press(v)
      BY <1>15, <2>1, <2>2
    <2>4. /\ DOMAIN v = UiFields /\ v.viewDirty = TRUE
          /\ \A f \in UiFields \ {"expanded", "viewDirty"} : v[f] = u[f]
      BY <1>6, <2>2 DEF Stale, UiFields
    <2>5. /\ v.rows = ui.rows /\ v.jobs = ui.jobs /\ v.known = ui.known /\ v.focus = ui.focus
          /\ v.manage = ui.manage /\ v.selected = {}
      BY <1>7, <1>15, <2>4 DEF UiFields
    <2>6. UiOK(v) /\ Current(v)
      BY <2>4, <2>5, KeyFacts DEF UiOK, Current
    <2>7. MarksOK(v, open, marked)
      BY <2>5, <1>4, <1>10, <1>11, <1>15 DEF MarksOK
    <2>8. MarksOK(v, open, touched')
      BY <2>7, <1>10
    <2> QED BY <2>3, <2>6, <2>8, <1>11, PressedKeeps
  <1> QED BY <1>4, <1>13, <1>14, <1>15

LEMMA KeyKeeps ==
    ASSUME PickerInv, Waiting, Key
    PROVE  PickerInv'
  <1>1. CASE OtherKey
    <2>1. Press(ui) /\ touched' = touched
      BY <1>1 DEF OtherKey, Same
    <2> QED BY <2>1, KeyFacts, PressedKeeps DEF MarksOK
  <1>2. CASE Quit
    <2>1. Leave({}) /\ touched' = touched
      BY <1>2 DEF Quit, Same
    <2> QED BY <2>1, LeaveKeeps DEF MarksOK
  <1> QED BY <1>1, <1>2, MoveKeeps, FoldKeeps, MarkKeysKeep, ClearMarksKeeps, CycleClusterKeeps,
             DismissKeeps, RefreshKeysKeep, EnterKeeps DEF Key

(* Steps that leave the locals of pick() alone. *)
LEMMA IdleKeeps ==
    ASSUME PickerInv, UNCHANGED <<ui, screen, open, touched, aimed, result>>,
           at' = at \/ (at = "bank" /\ at' \in {"loop", "done"})
    PROVE  PickerInv'
  BY DEF PickerInv, ResultOK, OpensWhatWasMarked, Waiting

LEMMA LoopKeeps ==
    ASSUME PickerInv, LoopPass \/ TimedRefresh
    PROVE  PickerInv'
  <1>1. /\ UiOK(ui) /\ Current(ui) /\ MarksOK(ui, open, touched) /\ FrameOK(ui, screen)
        /\ AimOK(ui, aimed)
    BY DEF PickerInv
  <1>2. at # "done" /\ result = {}
    BY DEF PickerInv, ResultOK, LoopPass, TimedRefresh
  <1>3. CASE LoopPass
    BY <1>1, <1>2, <1>3, PassKeeps DEF LoopPass
  <1>4. CASE TimedRefresh
    <2>1. PICK u : u = Refreshed(ui, FALSE)
      OBVIOUS
    <2>2. Pass(u)
      BY <1>4, <2>1 DEF TimedRefresh
    <2>3. DOMAIN ui = UiFields /\ DOMAIN ui.jobs \subseteq Jobs
      BY <1>1 DEF UiOK
    <2>4. /\ DOMAIN u = UiFields /\ DOMAIN u.jobs \subseteq Jobs
          /\ \A f \in UiFields \ {"jobs", "viewDirty", "catalogDirty", "redraw"} : u[f] = ui[f]
          /\ ~ u.viewDirty => ~ ui.viewDirty /\ u.jobs = ui.jobs /\ (u.redraw <=> ui.redraw)
          /\ u.viewDirty => ui.viewDirty \/ u.redraw
          /\ ui.redraw => u.redraw
      <3> DEFINE r == Refreshed(ui, FALSE)
      <3>1. /\ DOMAIN r = UiFields /\ DOMAIN r.jobs \subseteq Jobs
            /\ \A f \in UiFields \ {"jobs", "viewDirty", "catalogDirty", "redraw"} : r[f] = ui[f]
            /\ ~ r.viewDirty => ~ ui.viewDirty /\ r.jobs = ui.jobs /\ (r.redraw <=> ui.redraw)
            /\ r.viewDirty => ui.viewDirty \/ FALSE \/ r.redraw
            /\ ui.redraw => r.redraw
        BY <2>3, RefreshedFacts
      <3> QED BY <2>1, <3>1
    <2>5. /\ u.rows = ui.rows /\ u.known = ui.known /\ u.focus = ui.focus
          /\ u.selected = ui.selected /\ u.manage = ui.manage /\ u.focusedKey = ui.focusedKey
          /\ u.filter = ui.filter /\ u.query = ui.query /\ u.expanded = ui.expanded
      BY <2>4 DEF UiFields
    <2>6. UiOK(u)
      BY <2>4, <2>5, <1>1 DEF UiOK
    <2>7. Current(u)
      BY <2>4, <2>5, <1>1, SameRows DEF Current
    <2>8. MarksOK(u, open, touched) /\ FrameOK(u, screen)
      BY <2>4, <2>5, <1>1 DEF MarksOK, FrameOK, Drawn
    <2>9. AimOK(u, aimed)
      BY <2>5, <1>1 DEF AimOK, KeyAt, Focused
    <2> QED BY <2>2, <2>6, <2>7, <2>8, <2>9, <1>2, PassKeeps
  <1> QED BY <1>3, <1>4

LEMMA PickerStep ==
    ASSUME PickerInv, [Next]_vars
    PROVE  PickerInv'
  <1>1. CASE Pick
    <2>1. CASE LoopPass \/ TimedRefresh
      BY <2>1, LoopKeeps
    <2>2. CASE \E j \in Jobs : QueueChanges(j)
      BY <2>2, IdleKeeps DEF QueueChanges
    <2>3. CASE at = "key" /\ Key
      BY <2>3, KeyKeeps DEF Waiting
    <2> QED BY <1>1, <2>1, <2>2, <2>3 DEF Pick
  <1>2. CASE OpenBrowser
    <2>1. Waiting
      BY <1>2 DEF OpenBrowser, Waiting
    <2>2. /\ ui' = [ui EXCEPT !.redraw = TRUE, !.focusedKey = CursorRow(ui)]
          /\ aimed' = [row |-> KeyAt(ui), rebuilds |-> 0]
          /\ UNCHANGED <<screen, result, open>> /\ at' \in {"loop", "bank"}
          /\ touched' = touched
      BY <1>2 DEF OpenBrowser, Same
    <2>3. MarksOK(ui, open, touched')
      BY <2>1, <2>2, KeyFacts DEF MarksOK
    <2> QED BY <2>1, <2>2, <2>3, KeyFacts, PressKeeps
  <1>3. CASE CloseBrowser
    <2>1. UNCHANGED <<ui, screen, open, touched, aimed, result>>
      BY <1>3 DEF CloseBrowser, Same
    <2>2. at = "bank" /\ at' \in {"loop", "done"}
      BY <1>3 DEF CloseBrowser
    <2> QED BY <2>1, <2>2, IdleKeeps
  <1>4. CASE BankProgram
    <2>1. UNCHANGED <<ui, screen, open, touched, aimed, result>>
      BY <1>4 DEF BankProgram, Same
    <2>2. at' = at \/ (at = "bank" /\ at' = "done")
      BY <1>4 DEF BankProgram
    <2> QED BY <2>1, <2>2, IdleKeeps
  <1>5. CASE UNCHANGED vars
    BY <1>5, IdleKeeps DEF vars, pickVars
  <1> QED BY <1>1, <1>2, <1>3, <1>4, <1>5 DEF Next

LEMMA BankStep ==
    ASSUME BankInv, [Next]_vars
    PROVE  BankInv'
  <1>1. CASE BankProgram
    <2>1. CASE BrowserKey
      BY <2>1, BrowserKeyKeeps
    <2>2. CASE LeaveBrowser \/ Submit
      BY <2>2, ClosedFacts DEF LeaveBrowser, Submit, BankInv
    <2> QED BY <1>1, <2>1, <2>2 DEF BankProgram
  <1>2. CASE UNCHANGED bank
    BY <1>2 DEF BankInv
  <1> QED BY <1>1, <1>2 DEF Next, Pick, OpenBrowser, CloseBrowser, browserVars, vars

LEMMA FirstUiFacts ==
    ASSUME NEW panes \in SUBSET Jobs, NEW program,
           program # "pick-add" => panes = {}
    PROVE  LET u == FirstUi(program, panes)
           IN  /\ UiOK(u) /\ u.viewDirty /\ u.redraw /\ MarksOK(u, panes, {})
               /\ AimOK(u, [row |-> NoRow, rebuilds |-> 0])
  <1>1. PICK jobs : jobs = FirstJobs(panes)
    OBVIOUS
  <1>2. DOMAIN jobs \subseteq Jobs
    BY <1>1 DEF FirstJobs
  <1>3. PICK shown : shown = Restrict(jobs, {j \in DOMAIN jobs : jobs[j] # "blocked"})
    OBVIOUS
  <1>4. PICK known : known = Restrict(jobs, panes)
    OBVIOUS
  <1>5. DOMAIN shown \subseteq Jobs /\ DOMAIN known = panes
    BY <1>2, <1>3, <1>4 DEF Restrict
  <1>6. PICK u : u = FirstUi(program, panes)
    OBVIOUS
  <1>7. /\ DOMAIN u = UiFields /\ u.jobs = shown /\ u.known = known /\ u.selected = panes
        /\ u.rows = <<>> /\ u.focus = 1 /\ u.focusedKey = NoRow /\ u.viewDirty = TRUE
        /\ u.redraw = TRUE /\ (u.manage <=> program = "pick-add")
    BY <1>1, <1>3, <1>4, <1>6 DEF FirstUi, UiFields
  <1>8. UiOK(u)
    BY <1>5, <1>7 DEF UiOK
  <1>9. MarksOK(u, panes, {})
    BY <1>7 DEF MarksOK
  <1>10. AimOK(u, [row |-> NoRow, rebuilds |-> 0])
    BY <1>7 DEF AimOK, KeyAt
  <1> QED BY <1>6, <1>7, <1>8, <1>9, <1>10

LEMMA PickerStart ==
    Init => PickerInv /\ BankInv
  <1> SUFFICES ASSUME Init PROVE PickerInv /\ BankInv
    OBVIOUS
  <1>1. PICK panes \in SUBSET Jobs, program \in {"pick-add", "picker", "bank"} :
           /\ ui = FirstUi(program, panes) /\ open = panes
           /\ program # "pick-add" => panes = {}
           /\ at # "key" /\ at # "done" /\ result = {} /\ touched = {}
           /\ aimed = [row |-> NoRow, rebuilds |-> 0]
           /\ bank = Closed \/ \E scripts : bank = Opened(scripts)
    BY DEF Init
  <1>2. PICK u : u = FirstUi(program, panes)
    OBVIOUS
  <1>3. /\ UiOK(u) /\ u.viewDirty /\ u.redraw /\ MarksOK(u, panes, {})
        /\ AimOK(u, [row |-> NoRow, rebuilds |-> 0])
    BY <1>1, <1>2, FirstUiFacts
  <1>4. PickerInv
    BY <1>1, <1>2, <1>3
    DEF PickerInv, Current, FrameOK, ResultOK, OpensWhatWasMarked, Waiting
  <1>5. BankInv
    BY <1>1, ClosedFacts DEF BankInv
  <1> QED BY <1>4, <1>5

-----------------------------------------------------------------------------
LEMMA Inductive ==
    Spec => [](PickerInv /\ BankInv)
  <1>1. (PickerInv /\ BankInv) /\ [Next]_vars => (PickerInv /\ BankInv)'
    BY PickerStep, BankStep
  <1> QED BY <1>1, PickerStart, PTL DEF Spec

(* While the picker waits for a key, what is on the screen is what the key *)
(* will act on, for every list of jobs and every interleaving of keys and  *)
(* refreshes (pick: view_dirty, needs_redraw).                             *)
THEOREM KeysSeeTheScreen == Spec => []KeysActOnWhatIsDrawn
  <1>1. PickerInv => KeysActOnWhatIsDrawn
    <2> SUFFICES ASSUME PickerInv, Waiting
                 PROVE  /\ screen = Drawn(ui) /\ ui.rows = RowsOf(ui)
                        /\ HasRows => ui.focus \in DOMAIN ui.rows
      BY DEF KeysActOnWhatIsDrawn
    <2> QED BY KeyFacts DEF Current
  <1> QED BY <1>1, Inductive, PTL

(* Every job that passes the filters is in a row on the screen, and the    *)
(* key of a row is that of no other one, for any jobs and names            *)
(* (grouped_rows, row_key).                                                *)
THEOREM EveryJobHasItsRow == Spec => []RowsTellJobsApart
  <1>1. PickerInv => RowsTellJobsApart
    <2> SUFFICES ASSUME PickerInv, Waiting
                 PROVE  /\ \A j \in Indices(ui) :
                              \E k \in DOMAIN ui.rows : j \in ui.rows[k].members
                        /\ \A k, l \in DOMAIN ui.rows :
                              RowKey(ui.rows[k]) = RowKey(ui.rows[l]) => k = l
      BY DEF RowsTellJobsApart
    <2>1. ui.rows = GroupedRows(ui.jobs, Indices(ui), ui.expanded)
      BY KeyFacts DEF Current, RowsOf
    <2>2. Indices(ui) \in SUBSET Jobs
      BY KeyFacts DEF UiOK, Indices
    <2>3. PICK shown \in SUBSET Jobs : shown = Indices(ui)
      BY <2>2
    <2>4. PICK jobs, expanded : jobs = ui.jobs /\ expanded = ui.expanded
      OBVIOUS
    <2> DEFINE rows == GroupRows(shown, expanded)
    <2>5. PICK list \in Seq(RowSet) :
             /\ list = GroupedRows(jobs, shown, expanded)
             /\ \A k \in DOMAIN list : list[k] \in rows
             /\ \A row \in rows : \E k \in DOMAIN list : list[k] = row
             /\ \A k, l \in DOMAIN list : list[k] = list[l] => k = l
      BY GroupedRowsFacts
    <2>6. /\ \A j \in shown : \E row \in rows : j \in row.members
          /\ \A r1, r2 \in rows : RowKey(r1) = RowKey(r2) => r1 = r2
      BY RowsCoverJobs
    <2>7. ui.rows = list
      BY <2>1, <2>3, <2>4, <2>5
    <2> HIDE DEF rows
    <2>8. /\ \A j \in shown : \E k \in DOMAIN list : j \in list[k].members
          /\ \A k, l \in DOMAIN list : RowKey(list[k]) = RowKey(list[l]) => k = l
      BY <2>5, <2>6
    <2> QED BY <2>3, <2>7, <2>8
  <1> QED BY <1>1, Inductive, PTL

(* The jobs handed back are the marks the user sees, and an open pane is   *)
(* only left out when the user took its mark (pick: remember_selected,     *)
(* restore_selected, Tab, Enter).                                          *)
THEOREM PanesKeepTheirMarks == Spec => []OpensWhatWasMarked
  <1>1. PickerInv => OpensWhatWasMarked
    BY DEF PickerInv, ResultOK
  <1> QED BY <1>1, Inductive, PTL

(* A rebuild puts the cursor back on the row the last key left it on, as   *)
(* long as there is one (pick: focused_key).                               *)
THEOREM CursorFollowsItsRow == Spec => []CursorKeepsItsRow
  <1>1. PickerInv => CursorKeepsItsRow
    <2> SUFFICES ASSUME PickerInv, Waiting, aimed.rebuilds <= 1,
                        \E k \in DOMAIN ui.rows : RowKey(ui.rows[k]) = aimed.row
                 PROVE  KeyAt(ui) = aimed.row
      BY DEF CursorKeepsItsRow
    <2>1. AimOK(ui, aimed)
      BY DEF PickerInv
    <2>2. aimed.rebuilds \in {0, 1}
      BY <2>1 DEF AimOK
    <2> QED BY <2>1, <2>2 DEF AimOK
  <1> QED BY <1>1, Inductive, PTL

(* The script that is confirmed may run on the cluster that is shown as    *)
(* the target, whatever the banks hold (bank/ui.rs: dirty, cluster).       *)
THEOREM ConfirmedScriptsBelong == Spec => []SubmitsWhereItBelongs
  <1>1. BankInv => SubmitsWhereItBelongs
    BY DEF BankInv, BankOK, RowsBelong, SubmitsWhereItBelongs, Under
  <1> QED BY <1>1, Inductive, PTL
=============================================================================
