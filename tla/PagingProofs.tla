---------------------------- MODULE PagingProofs ----------------------------
(***************************************************************************)
(* Theorems about the paged readers of Readers, for every set of cases,    *)
(* every order of identifiers and every size of page: a walk through the   *)
(* list of cases and a walk through a timeline are complete.               *)
(***************************************************************************)
EXTENDS ReaderProofs, FiniteSetTheorems, SequenceTheorems

-----------------------------------------------------------------------------
(* Places *)

TotalOn(S, order) ==
  /\ \A x \in S : <<x, x>> \notin order
  /\ \A x, y \in S : x # y => <<x, y>> \in order \/ <<y, x>> \in order
  /\ \A x, y, z \in S : <<x, y>> \in order /\ <<y, z>> \in order => <<x, z>> \in order

\* An element has a later place than x exactly if it comes after x, whether or not x
\* is one of the elements.
LEMMA PlaceAfter ==
  ASSUME NEW S, IsFiniteSet(S), NEW T, S \subseteq T, NEW order, TotalOn(T, order),
         NEW x \in T, NEW y \in S
  PROVE  /\ Place(S, order, x) \in 0..Cardinality(S)
         /\ Place(S, order, y) \in 1..Cardinality(S)
         /\ <<x, y>> \in order => Place(S, order, x) < Place(S, order, y)
         /\ <<x, y>> \notin order => Place(S, order, y) <= Place(S, order, x)
<1> DEFINE UpTo(z) == {w \in S : <<z, w>> \notin order}
<1>1. \A z : /\ UpTo(z) \in SUBSET S /\ IsFiniteSet(UpTo(z))
             /\ Place(S, order, z) = Cardinality(UpTo(z))
             /\ Place(S, order, z) \in 0..Cardinality(S)
  <2> TAKE z
  <2>1. UpTo(z) \in SUBSET S
    OBVIOUS
  <2>2. IsFiniteSet(UpTo(z)) /\ Cardinality(UpTo(z)) <= Cardinality(S)
    BY <2>1, FS_Subset
  <2>3. Cardinality(UpTo(z)) \in Nat /\ Cardinality(S) \in Nat
    BY <2>2, FS_CardinalityType
  <2>4. Place(S, order, z) = Cardinality(UpTo(z))
    BY DEF Place
  <2> HIDE DEF UpTo
  <2>5. QED
    BY <2>1, <2>2, <2>3, <2>4
<1>2. y \in UpTo(y) /\ UpTo(y) # {}
  BY DEF TotalOn
<1>3. Cardinality(UpTo(y)) # 0
  BY <1>1, <1>2, FS_EmptySet
<1>4. ASSUME <<x, y>> \in order PROVE Place(S, order, x) < Place(S, order, y)
  <2>1. UpTo(x) \in SUBSET UpTo(y)
    BY <1>4 DEF TotalOn
  <2>2. y \notin UpTo(x)
    BY <1>4
  <2> HIDE DEF UpTo
  <2>3. Cardinality(UpTo(x)) <= Cardinality(UpTo(y)) /\ Cardinality(UpTo(x)) # Cardinality(UpTo(y))
    BY <1>1, <1>2, <2>1, <2>2, FS_Subset
  <2>4. QED
    BY <1>1, <2>3
<1>5. ASSUME <<x, y>> \notin order PROVE Place(S, order, y) <= Place(S, order, x)
  <2>1. UpTo(y) \in SUBSET UpTo(x)
    BY <1>5 DEF TotalOn
  <2> HIDE DEF UpTo
  <2>2. Cardinality(UpTo(y)) <= Cardinality(UpTo(x))
    BY <1>1, <2>1, FS_Subset
  <2>3. QED
    BY <1>1, <2>2
<1> HIDE DEF UpTo
<1>6. QED
  BY <1>1, <1>3, <1>4, <1>5

\* No place is empty, so that the sequence has each element once, at its place.
LEMMA InOrderSorts ==
  ASSUME NEW S, IsFiniteSet(S), NEW order, TotalOn(S, order)
  PROVE  /\ InOrder(S, order) \in Seq(S)
         /\ Len(InOrder(S, order)) = Cardinality(S)
         /\ \A i \in 1..Cardinality(S) : Place(S, order, InOrder(S, order)[i]) = i
         /\ \A x \in S : InOrder(S, order)[Place(S, order, x)] = x
<1> DEFINE n == Cardinality(S)
           place == [x \in S |-> Place(S, order, x)]
           L == InOrder(S, order)
<1>1. n \in Nat
  BY FS_CardinalityType
<1>2. \A x \in S : Place(S, order, x) \in 1..n
  BY PlaceAfter
<1>3. \A x, y \in S : Place(S, order, x) = Place(S, order, y) => x = y
  <2> SUFFICES ASSUME NEW x \in S, NEW y \in S, x # y
               PROVE  Place(S, order, x) # Place(S, order, y)
    OBVIOUS
  <2>1. <<x, y>> \in order \/ <<y, x>> \in order
    BY DEF TotalOn
  <2>2. Place(S, order, x) < Place(S, order, y) \/ Place(S, order, y) < Place(S, order, x)
    BY <2>1, PlaceAfter
  <2>3. QED
    BY <1>2, <2>2
<1>4. place \in Injection(S, 1..n)
  BY <1>2, <1>3, Zenon DEF Injection, IsInjective
<1>5. IsFiniteSet(1..n) /\ Cardinality(1..n) = n
  BY <1>1, FS_Interval
<1>6. place \in Surjection(S, 1..n)
  BY <1>4, <1>5, FS_Injection
<1>7. \A i \in 1..n : \E x \in S : Place(S, order, x) = i
  BY <1>6 DEF Surjection
<1>8. \A i \in 1..n : L[i] \in S /\ Place(S, order, L[i]) = i
  BY <1>7 DEF InOrder
<1>9. L = [i \in 1..n |-> L[i]]
  BY DEF InOrder
<1> HIDE DEF L, n, place
<1>10. L \in [1..n -> S]
  BY <1>8, <1>9
<1>11. L \in Seq(S) /\ Len(L) = n
  BY <1>1, <1>10
<1>12. \A x \in S : L[Place(S, order, x)] = x
  BY <1>2, <1>3, <1>8
<1>13. QED
  BY <1>8, <1>11, <1>12 DEF L, n

\* The elements of two sequences, one after the other.
LEMMA Joined ==
  ASSUME NEW S, NEW s \in Seq(S), NEW t \in Seq(S)
  PROVE  /\ s \o t \in Seq(S)
         /\ Len(s \o t) = Len(s) + Len(t)
         /\ \A i \in 1..Len(s) : (s \o t)[i] = s[i]
         /\ \A j \in 1..Len(t) : (s \o t)[Len(s) + j] = t[j]
<1>1. Len(s) \in Nat /\ Len(t) \in Nat
  OBVIOUS
<1>2. /\ s \o t \in Seq(S)
      /\ Len(s \o t) = Len(s) + Len(t)
      /\ \A i \in 1..Len(s) + Len(t) :
           (s \o t)[i] = IF i <= Len(s) THEN s[i] ELSE t[i - Len(s)]
  BY ConcatProperties
<1>3. ASSUME NEW j \in 1..Len(t) PROVE (s \o t)[Len(s) + j] = t[j]
  <2>1. /\ Len(s) + j \in 1..Len(s) + Len(t)
        /\ ~ (Len(s) + j <= Len(s)) /\ (Len(s) + j) - Len(s) = j
    BY <1>1
  <2>2. QED
    BY <1>2, <2>1
<1>4. ASSUME NEW i \in 1..Len(s) PROVE (s \o t)[i] = s[i]
  <2>1. i \in 1..Len(s) + Len(t) /\ i <= Len(s)
    BY <1>1
  <2>2. QED
    BY <1>2, <2>1
<1>5. QED
  BY <1>2, <1>3, <1>4

-----------------------------------------------------------------------------
(* Cases over time *)

\* What the state of a case may still become.
Onward(state) ==
  CASE state = "open"      -> State
    [] state = "activated" -> {"activated", "archived"}
    [] OTHER               -> {"archived"}

\* A case that is there stays there, with its time of creation, and its state moves
\* onward only.
LEMMA CaseMovesOn ==
  ASSUME RecordTypeOK, Write \/ UNCHANGED recordVars, NEW c \in Case, Exists(c)
  PROVE  /\ Exists(c)'
         /\ body'[c].createdAt = body[c].createdAt
         /\ body'[c].state \in Onward(body[c].state)
<1>1. body[c] \in Body /\ body[c].state \in State
  BY BodyOf DEF Body
<1>2. NoRow \notin Body
  BY RecordAssumption
<1>3. CASE body'[c] = body[c]
  BY <1>1, <1>3 DEF Exists, Onward, State
<1>4. ASSUME NEW d \in Case, NEW b \in Body, SaveCase(d, b), c # d
      PROVE  body'[c] = body[c]
  BY <1>4 DEF SaveCase, RecordTypeOK
<1>5. ASSUME NEW b \in Body, SaveCase(c, b) PROVE body'[c] = b
  BY <1>5 DEF SaveCase, RecordTypeOK
<1>6. ASSUME NEW d \in Case, Create(d) PROVE body'[c] = body[c]
  <2>1. c # d
    BY <1>6 DEF Create
  <2>2. QED
    BY <1>4, <1>6, <2>1, CreateSaves
<1>7. ASSUME NEW d \in Case, NEW i \in Item, RegisterItem(d, i)
      PROVE  body'[c] # NoRow /\ body'[c].createdAt = body[c].createdAt
             /\ body'[c].state \in Onward(body[c].state)
  <2>1. CASE c # d
    BY <1>1, <1>3, <1>4, <1>7, <2>1, RegisterSaves DEF Exists
  <2>2. CASE c = d
    <3>1. body'[c] = [body[c] EXCEPT !.items = @ \cup {i}]
      BY <1>7, <2>2 DEF RegisterItem, SaveCase, RecordTypeOK
    <3>2. [body[c] EXCEPT !.items = @ \cup {i}] \in Body
      BY <1>1 DEF Body
    <3>3. body'[c] # NoRow
      BY <1>2, <3>1, <3>2
    <3>4. QED
      BY <1>1, <3>1, <3>3 DEF Body, Onward, State
  <2>3. QED
    BY <2>1, <2>2
<1>8. ASSUME NEW d \in Case, NEW t \in Instant, Activate(d, t)
      PROVE  body'[c] # NoRow /\ body'[c].createdAt = body[c].createdAt
             /\ body'[c].state \in Onward(body[c].state)
  <2>1. PICK b \in Body : SaveCase(d, b) /\ b.state = "activated"
    BY <1>8, ActivateSaves
  <2>2. CASE c # d
    BY <1>1, <1>3, <1>4, <2>1, <2>2 DEF Exists
  <2>3. CASE c = d
    <3>1. body'[c] # NoRow /\ body'[c].state = "activated"
      BY <1>2, <1>5, <2>1, <2>3
    <3>2. body[c].state = "open"
      BY <1>8, <2>3 DEF Activate, InState
    <3>3. \E x : body'[c] = [body[c] EXCEPT !.state = "activated", !.decision = x]
      BY <1>8, <2>3 DEF Activate, SaveCase, RecordTypeOK
    <3>4. body'[c].createdAt = body[c].createdAt
      BY <1>1, <3>3 DEF Body
    <3>5. QED
      BY <3>1, <3>2, <3>4 DEF Onward, State
  <2>4. QED
    BY <2>2, <2>3
<1>9. ASSUME NEW d \in Case, Archive(d)
      PROVE  body'[c] # NoRow /\ body'[c].createdAt = body[c].createdAt
             /\ body'[c].state \in Onward(body[c].state)
  <2>1. CASE c # d
    BY <1>1, <1>3, <1>4, <1>9, <2>1, ArchiveSaves DEF Exists
  <2>2. CASE c = d
    <3>1. body'[c] = [body[c] EXCEPT !.state = "archived"] /\ body[c].state = "activated"
      BY <1>9, <2>2 DEF Archive, InState, SaveCase, RecordTypeOK
    <3>2. [body[c] EXCEPT !.state = "archived"] \in Body
      BY <1>1 DEF Body, State
    <3>3. body'[c] # NoRow
      BY <1>2, <3>1, <3>2
    <3>4. QED
      BY <1>1, <3>1, <3>3 DEF Body, Onward
  <2>3. QED
    BY <2>1, <2>2
<1>10. QED
  BY <1>3, <1>6, <1>7, <1>8, <1>9
  DEF Write, Tick, StampCreate, DropCreate, recordVars, Exists

\* At any time there are finitely many cases.
LEMMA CreatedIsFinite == Spec => []IsFiniteSet(Created)
<1>1. Init => IsFiniteSet(Created)
  <2>1. Init => Created = {}
    BY DEF Init, RecordInit, Created, Exists
  <2>2. QED
    BY <2>1, FS_EmptySet
<1>2. RecordTypeOK /\ IsFiniteSet(Created) /\ [Next]_vars => IsFiniteSet(Created)'
  <2> SUFFICES ASSUME RecordTypeOK, IsFiniteSet(Created), Write \/ UNCHANGED recordVars
               PROVE  IsFiniteSet(Created)'
    BY OnlyCommandsWrite
  <2>1. CASE UNCHANGED body
    <3>1. Created' = Created
      BY <2>1 DEF Created, Exists
    <3>2. QED
      BY <3>1
  <2>2. CASE \E c \in Case, b \in Body : SaveCase(c, b)
    <3>1. PICK c \in Case, b \in Body : SaveCase(c, b)
      BY <2>2
    <3>2. Created' \subseteq Created \cup {c}
      BY <3>1 DEF Created, Exists, SaveCase, RecordTypeOK
    <3>3. IsFiniteSet(Created \cup {c})
      BY FS_AddElement
    <3>4. QED
      BY <3>2, <3>3, FS_Subset
  <2>3. QED
    BY <2>1, <2>2, CreateSaves, RegisterSaves, ActivateSaves, ArchiveSaves
    DEF Write, Tick, StampCreate, DropCreate, recordVars
<1>3. QED
  BY <1>1, <1>2, RecordTypeCorrect, PTL DEF Spec

-----------------------------------------------------------------------------
(* The list of cases *)

\* The times of creation and the identifiers order the cases.
LEMMA SortingIsTotal ==
  ASSUME RecordTypeOK
  PROVE  /\ TotalOn(Created, Sorting)
         /\ \A c, d \in Created : <<c, d>> \in Sorting <=> Before(c, d)
<1>1. \A c \in Created : /\ c \in Case /\ body[c].createdAt \in Nat /\ Rank[c] \in Nat
  BY BodyOf, ListAssumption DEF Created, Body, Instant
<1>2. \A c, d \in Created : Rank[c] = Rank[d] => c = d
  BY ListAssumption DEF Created
<1>3. \A c, d \in Created : <<c, d>> \in Sorting <=> Before(c, d)
  BY DEF Sorting
<1>4. \A c \in Created : ~ Before(c, c)
  BY <1>1 DEF Before
<1>5. \A c, d \in Created : c # d => Before(c, d) \/ Before(d, c)
  BY <1>1, <1>2 DEF Before
<1>6. \A c, d, e \in Created : Before(c, d) /\ Before(d, e) => Before(c, e)
  BY <1>1 DEF Before
<1>7. QED
  BY <1>3, <1>4, <1>5, <1>6 DEF TotalOn

\* A page is a run of places: from the one after Start to its end.
EndOf(w, M) == LET n == Cardinality(M)
               IN  IF Start(w, M) + PageSize > n THEN n ELSE Start(w, M) + PageSize
PageOf(w, M) == SubSeq(Listing(M), Start(w, M) + 1, EndOf(w, M))
PlaceOf(M, c) == Place(M, Sorting, c)

LEMMA PageHolds ==
  ASSUME RecordTypeOK, IsFiniteSet(Created), NEW M \in SUBSET Created,
         NEW w, w.cursor \in Created \cup {NoCase}
  PROVE  LET all == Listing(M)
             n == Cardinality(M)
         IN
         /\ n \in Nat /\ Start(w, M) \in 0..n /\ EndOf(w, M) \in Start(w, M)..n
         /\ Start(w, M) < n => Start(w, M) < EndOf(w, M)
         /\ Len(all) = n /\ all \in Seq(M)
         /\ \A i \in 1..n : all[i] \in M /\ PlaceOf(M, all[i]) = i
         /\ PageOf(w, M) \in Seq(Case) /\ Len(PageOf(w, M)) = EndOf(w, M) - Start(w, M)
         /\ \A i \in 1..Len(PageOf(w, M)) :
              PageOf(w, M)[i] \in M /\ PlaceOf(M, PageOf(w, M)[i]) = Start(w, M) + i
         /\ \A c \in M :
              /\ PlaceOf(M, c) \in 1..n
              /\ all[PlaceOf(M, c)] = c
              /\ w.cursor # NoCase =>
                   (PlaceOf(M, c) > Start(w, M) <=> Before(w.cursor, c))
              /\ \A d \in Created : Before(d, c) <=> PlaceOf(M, d) < PlaceOf(M, c)
<1> DEFINE all == Listing(M)
           n == Cardinality(M)
           k == Start(w, M)
           end == EndOf(w, M)
           page == PageOf(w, M)
<1>1. M \subseteq Created /\ Created \subseteq Case /\ NoCase \notin Case
  BY RecordAssumption DEF Created
<1>2. IsFiniteSet(M) /\ n \in Nat
  BY <1>1, FS_Subset, FS_CardinalityType
<1>3. /\ TotalOn(Created, Sorting) /\ TotalOn(M, Sorting)
      /\ \A c, d \in Created : <<c, d>> \in Sorting <=> Before(c, d)
  BY <1>1, SortingIsTotal DEF TotalOn
<1>4. /\ all \in Seq(M) /\ Len(all) = n
      /\ \A i \in 1..n : all[i] \in M /\ PlaceOf(M, all[i]) = i
      /\ \A c \in M : all[PlaceOf(M, c)] = c
  <2>1. all = InOrder(M, Sorting)
    BY DEF Listing
  <2>2. \A c : PlaceOf(M, c) = Place(M, Sorting, c)
    BY DEF PlaceOf
  <2>3. /\ all \in Seq(M) /\ Len(all) = n
        /\ \A i \in 1..n : Place(M, Sorting, all[i]) = i
        /\ \A c \in M : all[Place(M, Sorting, c)] = c
    BY <1>2, <1>3, <2>1, InOrderSorts
  <2> HIDE DEF all
  <2>4. QED
    BY <1>2, <2>2, <2>3
<1>5. \A d \in Created, c \in M :
        /\ PlaceOf(M, c) \in 1..n
        /\ PlaceOf(M, d) \in 0..n
        /\ Before(d, c) <=> PlaceOf(M, d) < PlaceOf(M, c)
  <2> SUFFICES ASSUME NEW d \in Created, NEW c \in M
               PROVE  /\ PlaceOf(M, c) \in 1..n
                      /\ PlaceOf(M, d) \in 0..n
                      /\ Before(d, c) <=> PlaceOf(M, d) < PlaceOf(M, c)
    OBVIOUS
  <2>1. /\ PlaceOf(M, c) = Place(M, Sorting, c)
        /\ PlaceOf(M, d) = Place(M, Sorting, d)
    BY DEF PlaceOf
  <2>2. <<d, c>> \in Sorting <=> Before(d, c)
    BY <1>1, <1>3
  <2>3. /\ Place(M, Sorting, d) \in 0..n
        /\ Place(M, Sorting, c) \in 1..n
        /\ <<d, c>> \in Sorting => Place(M, Sorting, d) < Place(M, Sorting, c)
        /\ <<d, c>> \notin Sorting => Place(M, Sorting, c) <= Place(M, Sorting, d)
    BY <1>1, <1>2, <1>3, PlaceAfter
  <2> HIDE DEF n
  <2>4. QED
    BY <1>2, <2>1, <2>2, <2>3
<1>6. IF w.cursor = NoCase THEN k = 0 ELSE w.cursor \in Created /\ k = PlaceOf(M, w.cursor)
  BY <1>1 DEF Start, PlaceOf
<1>7. k \in 0..n
  <2>1. CASE w.cursor = NoCase
    BY <1>2, <1>6, <2>1
  <2>2. CASE w.cursor # NoCase
    <3>1. k = Place(M, Sorting, w.cursor)
      BY <1>6, <2>2 DEF PlaceOf
    <3>2. {c \in M : <<w.cursor, c>> \notin Sorting} \in SUBSET M
      OBVIOUS
    <3>3. k <= n /\ k \in Nat
      BY <1>2, <3>1, <3>2, FS_Subset, FS_CardinalityType DEF Place
    <3>4. QED
      BY <1>2, <3>3
  <2>3. QED
    BY <2>1, <2>2
<1>8. end \in k..n /\ (k < n => k < end)
  <2>1. end = IF k + PageSize > n THEN n ELSE k + PageSize
    BY DEF EndOf
  <2>2. PageSize \in Nat /\ PageSize > 0
    BY ListAssumption
  <2> HIDE DEF k, n, end
  <2>3. QED
    BY <1>2, <1>7, <2>1, <2>2
<1>9. page = SubSeq(all, k + 1, end)
  BY DEF PageOf
<1> HIDE DEF k, n, end, all, page
<1>10. \A i \in k+1..end : all[i] \in M
  BY <1>2, <1>4, <1>7, <1>8
<1>11. /\ page \in Seq(M) /\ Len(page) = end - k
       /\ \A i \in 1..end - k : page[i] = all[k + i]
  <2>1. k + 1 \in Int /\ end \in Int
    BY <1>2, <1>7, <1>8
  <2>2. /\ page \in Seq(M)
        /\ Len(page) = IF k + 1 <= end THEN end - (k + 1) + 1 ELSE 0
        /\ \A i \in 1..end - (k + 1) + 1 : page[i] = all[(k + 1) + i - 1]
    BY <1>9, <1>10, <2>1, SubSeqProperties
  <2>3. QED
    BY <1>2, <1>7, <1>8, <2>2
<1>12. page \in Seq(Case)
  BY <1>1, <1>11, SeqMonotonic
<1>13. ASSUME NEW i \in 1..Len(page) PROVE page[i] \in M /\ PlaceOf(M, page[i]) = k + i
  <2>1. i \in 1..end - k
    BY <1>11
  <2>2. k + i \in 1..n
    BY <1>2, <1>7, <1>8, <2>1
  <2>3. page[i] = all[k + i]
    BY <1>11, <2>1
  <2>4. QED
    BY <1>4, <2>2, <2>3
<1>14. ASSUME NEW c \in M, w.cursor # NoCase
       PROVE  PlaceOf(M, c) > k <=> Before(w.cursor, c)
  BY <1>2, <1>5, <1>6, <1>7, <1>14
<1>15. \A c \in M : PlaceOf(M, c) \in 1..n
  BY <1>1, <1>5
<1>16. QED
  BY <1>2, <1>4, <1>5, <1>7, <1>8, <1>11, <1>12, <1>13, <1>14, <1>15
  DEF k, n, end, all, page

\* A case the walk has listed.
Met(w, c) == \E i \in 1..Len(w.listed) : w.listed[i] = c

WalkType ==
  [at : {"idle", "paging", "done", "refused"}, filter : Filter \cup {{}},
   cursor : Case \cup {NoCase}, listed : Seq(Case), steady : SUBSET Case]

\* What was listed comes no later than the cursor, each case once; and the cursor
\* was listed.
Behind(w) ==
  /\ \A i \in 1..Len(w.listed) :
       /\ w.listed[i] \in Created
       /\ w.cursor # NoCase
       /\ ~ Before(w.cursor, w.listed[i])
  /\ \A i, j \in 1..Len(w.listed) : w.listed[i] = w.listed[j] => i = j
  /\ w.cursor # NoCase => w.cursor \in Created /\ Met(w, w.cursor)
  /\ w.steady \subseteq Created

\* What matched at every page is listed, or still to come.
Ahead(w) ==
  \A c \in w.steady :
    Met(w, c) \/ (w.at # "done" /\ (w.cursor = NoCase \/ Before(w.cursor, c)))

Walked ==
  /\ walk \in WalkType
  /\ Behind(walk)
  /\ walk.at = "idle" => walk = NoWalk
  /\ walk.at # "refused" => Ahead(walk)
  /\ walk.at = "refused" => walk.cursor \notin walk.steady

\* The fields of the next page.
LEMMA PageFields ==
  ASSUME RecordTypeOK, IsFiniteSet(Created), NEW M \in SUBSET Created,
         NEW w \in WalkType, w.cursor \in Created \cup {NoCase}
  PROVE  LET n == Cardinality(M)
             moves == Start(w, M) < EndOf(w, M)
         IN
         /\ Page(w, M) \in WalkType
         /\ Page(w, M).at = IF moves /\ EndOf(w, M) < n THEN "paging" ELSE "done"
         /\ Page(w, M).listed = w.listed \o PageOf(w, M)
         /\ Page(w, M).cursor = IF moves THEN Listing(M)[EndOf(w, M)] ELSE w.cursor
         /\ Page(w, M).filter = w.filter /\ Page(w, M).steady = w.steady
<1> DEFINE all == Listing(M)
           n == Cardinality(M)
           end == EndOf(w, M)
           at == IF Start(w, M) < end /\ end < n THEN "paging" ELSE "done"
           listed == w.listed \o PageOf(w, M)
           cursor == IF Start(w, M) < end THEN all[end] ELSE w.cursor
<1>1. /\ n \in Nat /\ Start(w, M) \in 0..n /\ end \in Start(w, M)..n
      /\ Len(all) = n /\ PageOf(w, M) \in Seq(Case)
      /\ \A i \in 1..n : all[i] \in M
  BY PageHolds
<1>2. end = IF Start(w, M) + PageSize > Len(all) THEN Len(all) ELSE Start(w, M) + PageSize
  BY <1>1 DEF EndOf
<1>3. Page(w, M) = [w EXCEPT !.at = at, !.listed = listed, !.cursor = cursor]
  BY <1>1, <1>2 DEF Page, PageOf
<1>4. at \in {"paging", "done"} /\ listed \in Seq(Case)
  BY <1>1, ConcatProperties DEF WalkType
<1>5. cursor \in Case \cup {NoCase}
  <2>1. CASE Start(w, M) < end
    <3>1. end \in 1..n
      <4> HIDE DEF n, end
      <4>1. QED
        BY <1>1, <2>1
    <3>2. all[end] \in M
      BY <1>1, <3>1
    <3>3. QED
      BY <2>1, <3>2 DEF Created
  <2>2. CASE ~ (Start(w, M) < end)
    BY <2>2 DEF WalkType
  <2>3. QED
    BY <2>1, <2>2
<1> HIDE DEF at, listed, cursor
<1>6. /\ Page(w, M) \in WalkType
      /\ Page(w, M).at = at /\ Page(w, M).listed = listed /\ Page(w, M).cursor = cursor
      /\ Page(w, M).filter = w.filter /\ Page(w, M).steady = w.steady
  BY <1>3, <1>4, <1>5 DEF WalkType
<1>7. QED
  BY <1>6 DEF at, listed, cursor

\* A page lists cases behind its new cursor and none again, and leaves only what is
\* ahead.
LEMMA PageKeeps ==
  ASSUME RecordTypeOK, IsFiniteSet(Created), NEW M \in SUBSET Created,
         NEW w \in WalkType, Behind(w), Ahead(w), w.at # "done", w.steady \subseteq M
  PROVE  Page(w, M) \in WalkType /\ Behind(Page(w, M)) /\ Ahead(Page(w, M))
<1> DEFINE all == Listing(M)
           n == Cardinality(M)
           k == Start(w, M)
           end == EndOf(w, M)
           page == PageOf(w, M)
           p == Page(w, M)
           old == Len(w.listed)
<1>1. w.cursor \in Created \cup {NoCase}
  BY DEF Behind, WalkType
<1>2. /\ n \in Nat /\ k \in 0..n /\ end \in k..n
      /\ k < n => k < end
      /\ \A i \in 1..n : all[i] \in M /\ PlaceOf(M, all[i]) = i
      /\ page \in Seq(Case) /\ Len(page) = end - k
      /\ \A i \in 1..Len(page) : page[i] \in M /\ PlaceOf(M, page[i]) = k + i
  BY <1>1, PageHolds
<1>3. \A c \in M :
        /\ PlaceOf(M, c) \in 1..n
        /\ PlaceOf(M, c) > k /\ PlaceOf(M, c) <= end =>
             \E i \in 1..Len(page) : page[i] = c
        /\ w.cursor # NoCase => (PlaceOf(M, c) > k <=> Before(w.cursor, c))
        /\ \A d \in Created : Before(d, c) <=> PlaceOf(M, d) < PlaceOf(M, c)
  <2> HIDE DEF k, end, page
  <2>1. /\ k = Start(w, M) /\ end = EndOf(w, M) /\ page = PageOf(w, M)
    BY DEF k, end, page
  <2> SUFFICES ASSUME NEW c \in M
               PROVE  /\ PlaceOf(M, c) \in 1..n
                      /\ PlaceOf(M, c) > k /\ PlaceOf(M, c) <= end =>
                           \E i \in 1..Len(page) : page[i] = c
                      /\ w.cursor # NoCase => (PlaceOf(M, c) > k <=> Before(w.cursor, c))
                      /\ \A d \in Created : Before(d, c) <=> PlaceOf(M, d) < PlaceOf(M, c)
    OBVIOUS
  <2>2. PlaceOf(M, c) \in 1..n
    BY <1>1, PageHolds
  <2>3. PlaceOf(M, c) > k /\ PlaceOf(M, c) <= end =>
          \E i \in 1..Len(page) : page[i] = c
    <3> SUFFICES ASSUME PlaceOf(M, c) > k, PlaceOf(M, c) <= end
                 PROVE  \E i \in 1..Len(page) : page[i] = c
      OBVIOUS
    <3>1. \A d \in M : Listing(M)[PlaceOf(M, d)] = d
      BY <1>1, PageHolds
    <3> DEFINE i == PlaceOf(M, c) - k
    <3>2. i \in 1..Len(page) /\ k + i = PlaceOf(M, c)
      BY <1>2, <2>2
    <3>3. page[i] \in M /\ PlaceOf(M, page[i]) = PlaceOf(M, c)
      BY <1>2, <3>2
    <3>4. page[i] = c
      BY <3>1, <3>3
    <3>5. QED
      BY <3>2, <3>4
  <2>4. w.cursor # NoCase => (PlaceOf(M, c) > k <=> Before(w.cursor, c))
    BY <1>1, <2>1, PageHolds
  <2>5. \A d \in Created : Before(d, c) <=> PlaceOf(M, d) < PlaceOf(M, c)
    BY <1>1, PageHolds
  <2>6. QED
    BY <2>2, <2>3, <2>4, <2>5
<1>4. w.cursor = NoCase => k = 0
  BY DEF Start
<1>5. /\ p \in WalkType
      /\ p.at = IF k < end /\ end < n THEN "paging" ELSE "done"
      /\ p.listed = w.listed \o page
      /\ p.cursor = IF k < end THEN all[end] ELSE w.cursor
      /\ p.filter = w.filter /\ p.steady = w.steady
  BY <1>1, PageFields
<1>6. /\ w.listed \in Seq(Case) /\ old \in Nat
      /\ \A i \in 1..old : w.listed[i] \in Case
  BY DEF WalkType
<1>7. \A i \in 1..Len(page) :
        PlaceOf(M, page[i]) \in 1..n /\ page[i] \in Created
  BY <1>2, <1>3
<1>8. /\ TotalOn(Created, Sorting)
      /\ \A c, d \in Created : <<c, d>> \in Sorting <=> Before(c, d)
  BY SortingIsTotal
<1>9. \A c, d, e \in Created : Before(c, d) /\ Before(d, e) => Before(c, e)
  BY <1>8 DEF TotalOn
<1>10. NoCase \notin Created
  BY RecordAssumption DEF Created
<1> HIDE DEF all, n, k, end, page, p
<1>11. /\ Len(p.listed) = old + Len(page)
       /\ \A i \in 1..old : p.listed[i] = w.listed[i]
       /\ \A j \in 1..Len(page) : p.listed[old + j] = page[j]
  <2>1. w.listed \in Seq(Case) /\ page \in Seq(Case)
    BY <1>2, <1>6
  <2>2. /\ Len(w.listed \o page) = Len(w.listed) + Len(page)
        /\ \A i \in 1..Len(w.listed) : (w.listed \o page)[i] = w.listed[i]
        /\ \A j \in 1..Len(page) : (w.listed \o page)[Len(w.listed) + j] = page[j]
    <3>1. \A s, t \in Seq(Case) :
            /\ Len(s \o t) = Len(s) + Len(t)
            /\ \A i \in 1..Len(s) : (s \o t)[i] = s[i]
            /\ \A j \in 1..Len(t) : (s \o t)[Len(s) + j] = t[j]
      BY Joined
    <3>2. QED
      BY <2>1, <3>1, Zenon
  <2>3. p.listed = w.listed \o page
    BY <1>5
  <2>4. QED
    BY <2>2, <2>3, Zenon
<1> HIDE DEF old
<1>12. /\ \A i \in 1..Len(p.listed) :
            i \in 1..old \/ \E j \in 1..Len(page) : i = old + j
       /\ \A i \in 1..old : i \in 1..Len(p.listed)
       /\ \A j \in 1..Len(page) : old + j \in 1..Len(p.listed)
  <2>1. Len(page) \in Nat
    BY <1>2
  <2>2. ASSUME NEW i \in 1..Len(p.listed), ~ (i \in 1..old)
        PROVE  \E j \in 1..Len(page) : i = old + j
    <3>1. i - old \in 1..Len(page) /\ i = old + (i - old)
      BY <1>6, <1>11, <2>1, <2>2
    <3>2. QED
      BY <3>1
  <2>3. QED
    BY <1>6, <1>11, <2>1, <2>2
<1>13. ASSUME k < end
       PROVE  /\ p.cursor = all[end] /\ p.cursor \in M /\ PlaceOf(M, p.cursor) = end
              /\ w.cursor # NoCase => Before(w.cursor, p.cursor)
  <2>1. end \in 1..n
    BY <1>2, <1>13
  <2>2. p.cursor = all[end] /\ p.cursor \in M /\ PlaceOf(M, p.cursor) = end
    BY <1>2, <1>5, <1>13, <2>1
  <2>3. QED
    BY <1>3, <1>13, <2>2
<1>14. p.cursor # NoCase => p.cursor \in Created /\ Met(p, p.cursor)
  <2>1. CASE k < end
    <3>1. PICK j \in 1..Len(page) : page[j] = p.cursor
      BY <1>2, <1>3, <1>13, <2>1
    <3>2. old + j \in 1..Len(p.listed) /\ p.listed[old + j] = p.cursor
      BY <1>11, <1>12, <3>1
    <3>3. QED
      BY <1>13, <2>1, <3>2 DEF Met
  <2>2. CASE ~ (k < end) /\ w.cursor # NoCase
    <3>1. p.cursor = w.cursor /\ w.cursor \in Created /\ Met(w, w.cursor)
      BY <1>5, <2>2 DEF Behind
    <3>2. PICK i \in 1..old : w.listed[i] = w.cursor
      BY <3>1 DEF Met, old
    <3>3. i \in 1..Len(p.listed) /\ p.listed[i] = p.cursor
      BY <1>11, <1>12, <3>1, <3>2
    <3>4. QED
      BY <3>1, <3>3 DEF Met
  <2>3. QED
    BY <1>5, <2>1, <2>2
<1>15. ASSUME NEW i \in 1..old
       PROVE  /\ w.listed[i] \in Created /\ p.cursor # NoCase
              /\ ~ Before(p.cursor, w.listed[i])
  <2>1. /\ w.listed[i] \in Created /\ w.cursor # NoCase
        /\ ~ Before(w.cursor, w.listed[i])
    BY DEF Behind, old
  <2>2. CASE k < end
    BY <1>1, <1>7, <1>9, <1>10, <1>13, <2>1, <2>2
  <2>3. CASE ~ (k < end)
    BY <1>5, <2>1, <2>3
  <2>4. QED
    BY <2>1, <2>2, <2>3
<1>16. ASSUME NEW j \in 1..Len(page)
       PROVE  /\ page[j] \in M /\ PlaceOf(M, page[j]) = k + j
              /\ page[j] \in Created /\ p.cursor # NoCase /\ ~ Before(p.cursor, page[j])
              /\ w.cursor # NoCase => Before(w.cursor, page[j])
  <2>1. page[j] \in M /\ PlaceOf(M, page[j]) = k + j
    BY <1>2
  <2>2. k < end /\ k + j <= end /\ k + j > k
    BY <1>2
  <2>3. p.cursor \in M /\ PlaceOf(M, p.cursor) = end
    BY <1>13, <2>2
  <2>4. Before(p.cursor, page[j]) <=> end < k + j
    BY <1>3, <1>7, <2>1, <2>3
  <2>5. ~ Before(p.cursor, page[j])
    BY <1>2, <2>2, <2>4
  <2>6. w.cursor # NoCase => Before(w.cursor, page[j])
    BY <1>3, <2>1, <2>2
  <2>7. QED
    BY <1>7, <1>10, <2>1, <2>3, <2>5, <2>6
<1>17. ASSUME NEW i \in 1..Len(p.listed)
       PROVE  p.listed[i] \in Created /\ p.cursor # NoCase /\ ~ Before(p.cursor, p.listed[i])
  <2>1. CASE i \in 1..old
    BY <1>11, <1>15, <2>1
  <2>2. CASE \E j \in 1..Len(page) : i = old + j
    BY <1>11, <1>16, <2>2
  <2>3. QED
    BY <1>12, <2>1, <2>2
<1>18. ASSUME NEW i \in 1..Len(p.listed), NEW j \in 1..Len(p.listed),
              p.listed[i] = p.listed[j]
       PROVE  i = j
  <2>1. ASSUME NEW a \in 1..old, NEW b \in 1..Len(page) PROVE w.listed[a] # page[b]
    <3>1. w.cursor # NoCase /\ ~ Before(w.cursor, w.listed[a])
      BY DEF Behind, old
    <3>2. QED
      BY <1>16, <3>1
  <2>2. \A a, b \in 1..Len(page) : page[a] = page[b] => a = b
    BY <1>2
  <2>3. \A a, b \in 1..old : w.listed[a] = w.listed[b] => a = b
    BY DEF Behind, old
  <2>4. CASE i \in 1..old /\ j \in 1..old
    BY <1>11, <1>18, <2>3, <2>4
  <2>5. CASE i \in 1..old /\ \E b \in 1..Len(page) : j = old + b
    BY <1>11, <1>18, <2>1, <2>5
  <2>6. CASE j \in 1..old /\ \E a \in 1..Len(page) : i = old + a
    BY <1>11, <1>18, <2>1, <2>6
  <2>7. CASE /\ \E a \in 1..Len(page) : i = old + a
             /\ \E b \in 1..Len(page) : j = old + b
    BY <1>11, <1>18, <2>2, <2>7
  <2>8. QED
    BY <1>12, <2>4, <2>5, <2>6, <2>7
<1>19. Behind(p)
  BY <1>5, <1>14, <1>17, <1>18 DEF Behind
<1>20. ASSUME NEW c \in p.steady
       PROVE  Met(p, c) \/ (p.at # "done" /\ Before(p.cursor, c))
  <2>0. c \in M /\ c \in w.steady
    BY <1>5
  <2>1. CASE Met(w, c)
    <3>1. PICK i \in 1..old : w.listed[i] = c
      BY <2>1 DEF Met, old
    <3>2. i \in 1..Len(p.listed) /\ p.listed[i] = c
      BY <1>11, <1>12, <3>1
    <3>3. QED
      BY <3>2 DEF Met
  <2>2. CASE PlaceOf(M, c) > k /\ PlaceOf(M, c) <= end
    <3>1. PICK j \in 1..Len(page) : page[j] = c
      BY <1>3, <2>0, <2>2
    <3>2. old + j \in 1..Len(p.listed) /\ p.listed[old + j] = c
      BY <1>11, <1>12, <3>1
    <3>3. QED
      BY <3>2 DEF Met
  <2>3. CASE PlaceOf(M, c) > end
    <3>1. PlaceOf(M, c) \in 1..n
      BY <1>3, <2>0
    <3>2. end < n /\ k < end
      BY <1>2, <2>3, <3>1
    <3>3. p.at = "paging"
      BY <1>5, <3>2
    <3>4. Before(p.cursor, c)
      BY <1>3, <1>13, <2>0, <2>3, <3>2
    <3>5. QED
      BY <3>3, <3>4
  <2>4. Met(w, c) \/ PlaceOf(M, c) > k
    <3>1. Met(w, c) \/ w.cursor = NoCase \/ Before(w.cursor, c)
      BY <2>0 DEF Ahead
    <3>2. PlaceOf(M, c) \in 1..n
      BY <1>3, <2>0
    <3>3. w.cursor = NoCase => PlaceOf(M, c) > k
      BY <1>2, <1>4, <3>2
    <3>4. QED
      BY <1>3, <2>0, <3>1, <3>3
  <2>5. PlaceOf(M, c) \in Int /\ end \in Int
    BY <1>2, <1>3, <2>0
  <2>6. QED
    BY <2>1, <2>2, <2>3, <2>4, <2>5
<1>21. Ahead(p)
  BY <1>5, <1>20 DEF Ahead
<1>22. QED
  BY <1>5, <1>19, <1>21 DEF p

\* A command disturbs no walk: cases stay where they are in the order.
LEMMA WriteKeepsWalk ==
  ASSUME RecordTypeOK, Walked, Write \/ UNCHANGED recordVars, UNCHANGED walk
  PROVE  Walked'
<1>1. walk \in WalkType /\ Behind(walk) /\ walk' = walk
  BY DEF Walked
<1>2. ASSUME NEW c \in Created
      PROVE  c \in Created' /\ body'[c].createdAt = body[c].createdAt
  BY CaseMovesOn DEF Created
<1>3. ASSUME NEW c \in Created, NEW d \in Created
      PROVE  Before(c, d)' <=> Before(c, d)
  BY <1>2 DEF Before
<1>4. /\ \A i \in 1..Len(walk.listed) :
           /\ walk.listed[i] \in Created /\ walk.cursor # NoCase
           /\ ~ Before(walk.cursor, walk.listed[i])
      /\ \A i, j \in 1..Len(walk.listed) : walk.listed[i] = walk.listed[j] => i = j
      /\ walk.cursor # NoCase => walk.cursor \in Created /\ Met(walk, walk.cursor)
      /\ walk.steady \subseteq Created
  BY <1>1 DEF Behind
<1>5. \A i \in 1..Len(walk.listed) :
        walk.listed[i] \in Created' /\ ~ Before(walk.cursor, walk.listed[i])'
  BY <1>1, <1>2, <1>3, <1>4 DEF Before
<1>6. Behind(walk)'
  BY <1>1, <1>2, <1>4, <1>5 DEF Behind, Met
<1>7. walk.at # "refused" => Ahead(walk)'
  <2> SUFFICES ASSUME walk.at # "refused", NEW c \in walk.steady
               PROVE  Met(walk, c) \/ (walk.at # "done" /\ (walk.cursor = NoCase \/ Before(walk.cursor, c)'))
    BY <1>1 DEF Ahead, Met, Before
  <2>1. Met(walk, c) \/ (walk.at # "done" /\ (walk.cursor = NoCase \/ Before(walk.cursor, c)))
    BY DEF Walked, Ahead
  <2>2. QED
    BY <1>1, <1>3, <1>4, <2>1 DEF Before
<1>8. QED
  BY <1>1, <1>6, <1>7 DEF Walked

LEMMA MatchingCases ==
  ASSUME NEW filter, NEW M \in Matching(filter)
  PROVE  M \in SUBSET Created /\ M \in SUBSET Case
BY DEF Matching, Created

\* A page read from a walk that is under way.
LEMMA PageWalked ==
  ASSUME RecordTypeOK, IsFiniteSet(Created), NEW M \in SUBSET Created, NEW w \in WalkType,
         Behind(w), Ahead(w), w.at # "done", w.steady \subseteq M,
         walk' = Page(w, M), UNCHANGED body
  PROVE  Walked'
<1>1. /\ Page(w, M) \in WalkType /\ Behind(Page(w, M)) /\ Ahead(Page(w, M))
  BY PageKeeps
<1>2. Page(w, M).at \in {"paging", "done"}
  <2>1. w.cursor \in Created \cup {NoCase}
    BY DEF Behind, WalkType
  <2>2. QED
    BY <2>1, PageFields
<1>3. walk' \in WalkType /\ walk'.at \in {"paging", "done"}
  BY <1>1, <1>2
<1>4. Behind(walk)'
  BY <1>1 DEF Behind, Met, Before, Created, Exists
<1>5. Ahead(walk)'
  BY <1>1 DEF Ahead, Met, Before
<1>6. QED
  BY <1>3, <1>4, <1>5 DEF Walked

LEMMA FirstPageWalked ==
  ASSUME RecordTypeOK, IsFiniteSet(Created), NEW filter \in Filter, FirstPage(filter),
         UNCHANGED recordVars
  PROVE  Walked'
<1>1. PICK M \in Matching(filter) :
        walk' = Page([NoWalk EXCEPT !.filter = filter, !.steady = M], M)
  BY DEF FirstPage
<1> DEFINE w == [NoWalk EXCEPT !.filter = filter, !.steady = M]
<1>2. M \in SUBSET Created /\ M \in SUBSET Case
  BY MatchingCases
<1>3. /\ w.at = "idle" /\ w.cursor = NoCase /\ w.listed = <<>> /\ w.steady = M
      /\ w \in WalkType
  <2>1. NoWalk \in WalkType /\ NoWalk.at = "idle" /\ NoWalk.cursor = NoCase
        /\ NoWalk.listed = <<>>
    BY DEF NoWalk, WalkType
  <2> HIDE DEF NoWalk
  <2>2. QED
    BY <1>2, <2>1 DEF WalkType
<1>4. walk' = Page(w, M) /\ UNCHANGED body
  BY <1>1 DEF recordVars
<1> HIDE DEF w
<1>5. Behind(w)
  BY <1>2, <1>3 DEF Behind
<1>6. Ahead(w)
  BY <1>3 DEF Ahead
<1>7. QED
  BY <1>2, <1>3, <1>4, <1>5, <1>6, PageWalked

\* A page is refused only if the case of its cursor does not match.
LEMMA LostDoesNotMatch ==
  ASSUME RecordTypeOK, IsFiniteSet(Created), NEW M \in SUBSET Created,
         NEW w \in WalkType, Behind(w), CursorLost(w, M)
  PROVE  w.cursor \notin M
<1>1. w.cursor \in Created \cup {NoCase} /\ w.cursor # NoCase
  BY DEF Behind, WalkType, CursorLost
<1> SUFFICES ASSUME w.cursor \in M PROVE FALSE
  OBVIOUS
<1>2. PlaceOf(M, w.cursor) \in 1..Cardinality(M)
  BY <1>1, PageHolds
<1>3. Listing(M)[PlaceOf(M, w.cursor)] = w.cursor
  BY <1>1, PageHolds
<1>4. Start(w, M) = PlaceOf(M, w.cursor)
  BY <1>1 DEF Start, PlaceOf
<1>5. QED
  BY <1>2, <1>3, <1>4 DEF CursorLost

LEMMA NextPageWalked ==
  ASSUME RecordTypeOK, IsFiniteSet(Created), Walked, NextPage, UNCHANGED recordVars
  PROVE  Walked'
<1>1. /\ walk \in WalkType /\ Behind(walk) /\ Ahead(walk) /\ walk.at = "paging"
      /\ UNCHANGED body
  BY DEF Walked, NextPage, recordVars
<1> DEFINE Kept(M) == [walk EXCEPT !.steady = (@ \cup {walk.cursor}) \cap M]
<1>2. PICK M \in Matching(walk.filter) :
        walk' = IF CursorLost(Kept(M), M) THEN [Kept(M) EXCEPT !.at = "refused"]
                ELSE Page(Kept(M), M)
  BY DEF NextPage
<1> DEFINE w == Kept(M)
<1>3. M \in SUBSET Created /\ M \in SUBSET Case
  BY MatchingCases
<1>4. /\ w \in WalkType /\ w.at = "paging" /\ w.cursor = walk.cursor
      /\ w.listed = walk.listed /\ w.steady = (walk.steady \cup {walk.cursor}) \cap M
  BY <1>1, <1>3 DEF WalkType
<1>5. walk' = IF CursorLost(w, M) THEN [w EXCEPT !.at = "refused"] ELSE Page(w, M)
  BY <1>2
<1> HIDE DEF w
<1>6. Behind(w)
  BY <1>1, <1>3, <1>4 DEF Behind, Met
<1>7. Ahead(w)
  <2> SUFFICES ASSUME NEW c \in w.steady
               PROVE  Met(walk, c) \/ walk.cursor = NoCase \/ Before(walk.cursor, c)
    BY <1>4 DEF Ahead, Met
  <2>1. CASE c = walk.cursor
    BY <1>1, <2>1 DEF Behind
  <2>2. CASE c \in walk.steady
    BY <1>1, <2>2 DEF Ahead
  <2>3. QED
    BY <1>4, <2>1, <2>2
<1>8. CASE ~ CursorLost(w, M)
  BY <1>1, <1>3, <1>4, <1>5, <1>6, <1>7, <1>8, PageWalked
<1>9. CASE CursorLost(w, M)
  <2>1. walk' = [w EXCEPT !.at = "refused"]
    BY <1>5, <1>9
  <2>2. /\ walk' \in WalkType /\ walk'.at = "refused" /\ walk'.cursor = w.cursor
        /\ walk'.listed = w.listed /\ walk'.steady = w.steady
    BY <1>4, <2>1 DEF WalkType
  <2>3. w.cursor \notin M
    BY <1>3, <1>4, <1>6, <1>9, LostDoesNotMatch
  <2>4. walk'.cursor \notin walk'.steady
    BY <1>4, <2>2, <2>3
  <2>5. Behind(walk)'
    BY <1>1, <1>6, <2>2 DEF Behind, Met, Before, Created, Exists
  <2>6. QED
    BY <2>2, <2>4, <2>5 DEF Walked
<1>10. QED
  BY <1>8, <1>9

LEMMA WalkedAlways == Spec => []Walked
<1>1. Init => Walked
  <2> SUFFICES ASSUME Init PROVE Walked
    OBVIOUS
  <2>1. walk = NoWalk
    BY DEF Init, WalkInit
  <2>2. QED
    BY <2>1 DEF NoWalk, Walked, WalkType, Behind, Ahead
<1>2. RecordTypeOK /\ IsFiniteSet(Created) /\ Walked /\ [Next]_vars => Walked'
  <2> SUFFICES ASSUME RecordTypeOK, IsFiniteSet(Created), Walked, [Next]_vars
               PROVE  Walked'
    OBVIOUS
  <2>1. CASE UNCHANGED walk
    BY <2>1, OnlyCommandsWrite, WriteKeepsWalk
  <2>2. CASE WalkCases
    BY <2>2, FirstPageWalked, NextPageWalked DEF WalkCases
  <2>3. QED
    BY <2>1, <2>2 DEF Next, vars, Command, DrawReport, ScrollTimeline
<1>3. QED
  BY <1>1, <1>2, RecordTypeCorrect, CreatedIsFinite, PTL DEF Spec

\* Reading the list page by page, whatever commands run in between, lists no case
\* twice and misses none that matched at every page, and breaks off only when the case
\* of the cursor does not match (refill.go:126).
THEOREM WalkCorrect == Spec => []WalkIsComplete
<1>1. Walked => WalkIsComplete
  <2> SUFFICES ASSUME Walked PROVE WalkIsComplete
    OBVIOUS
  <2>1. DOMAIN walk.listed = 1..Len(walk.listed)
    BY DEF Walked, WalkType
  <2>2. QED
    BY <2>1 DEF Walked, Behind, Ahead, Met, WalkIsComplete
<1>2. QED
  BY <1>1, WalkedAlways, PTL

-----------------------------------------------------------------------------
(* The timeline of a case *)

ScrollType ==
  [at : {"idle", "case", "events", "archive", "done"}, case : Case \cup {NoCase},
   types : SUBSET EventType, cursor : Nat, seen : Seq(Nat), sealed : BOOLEAN,
   more : BOOLEAN, head : Nat, terminal : BOOLEAN]

Rising(seen) == \A i, j \in 1..Len(seen) : i < j => seen[i] < seen[j]
Numbers(seen) == {seen[i] : i \in 1..Len(seen)}

\* The number up to which the pages so far go.
ReadTo(r) == IF r.at = "done" \/ (r.at = "archive" /\ ~ r.more) THEN r.head ELSE r.cursor

Scrolled ==
  /\ scroll \in ScrollType
  /\ Rising(scroll.seen)
  /\ scroll.terminal
  /\ scroll.at = "idle" => scroll = NoScroll
  /\ scroll.at # "idle" =>
       /\ scroll.case \in Created
       /\ ReadTo(scroll) <= Len(events[scroll.case])
       /\ Numbers(scroll.seen)
            = {n \in 1..ReadTo(scroll) : events[scroll.case][n] \in scroll.types}
  /\ scroll.at = "archive" \/ (scroll.at = "events" /\ scroll.sealed) =>
       InState(scroll.case, "archived")
  /\ scroll.at = "archive" => scroll.head = Len(events[scroll.case])

\* A command only appends to a chain of events, and to none that is sealed.
LEMMA ChainGrows ==
  ASSUME RecordTypeOK, Write \/ UNCHANGED recordVars, NEW c \in Case
  PROVE  /\ Len(events[c]) <= Len(events'[c])
         /\ \A n \in 1..Len(events[c]) : events'[c][n] = events[c][n]
         /\ InState(c, "archived") =>
              InState(c, "archived")' /\ events'[c] = events[c]
<1>1. events[c] \in Seq(EventType) /\ Len(events[c]) \in Nat
  BY DEF RecordTypeOK
<1>2. ASSUME NEW d \in Case, NEW type \in EventType, AppendEvent(d, type)
      PROVE  /\ Len(events[c]) <= Len(events'[c])
             /\ \A n \in 1..Len(events[c]) : events'[c][n] = events[c][n]
             /\ c # d => events'[c] = events[c]
  <2>1. CASE c = d
    <3>1. events'[c] = Append(events[c], type)
      BY <1>2, <2>1 DEF AppendEvent, RecordTypeOK
    <3>2. QED
      BY <1>1, <2>1, <3>1
  <2>2. CASE c # d
    <3>1. events'[c] = events[c]
      BY <1>2, <2>2 DEF AppendEvent, RecordTypeOK
    <3>2. QED
      BY <1>1, <3>1
  <2>3. QED
    BY <2>1, <2>2
<1>3. InState(c, "archived") => InState(c, "archived")'
  BY CaseMovesOn DEF InState, Onward, State
<1>4. CASE UNCHANGED events
  BY <1>1, <1>3, <1>4
<1>5. ASSUME NEW d \in Case, NEW type \in EventType, AppendEvent(d, type),
             ~ InState(d, "archived")
      PROVE  /\ Len(events[c]) <= Len(events'[c])
             /\ \A n \in 1..Len(events[c]) : events'[c][n] = events[c][n]
             /\ InState(c, "archived") => InState(c, "archived")' /\ events'[c] = events[c]
  BY <1>2, <1>3, <1>5
<1>6. Write => \/ UNCHANGED events
               \/ \E d \in Case, type \in EventType :
                    AppendEvent(d, type) /\ ~ InState(d, "archived")
  BY DEF Write, Tick, StampCreate, DropCreate, Create, RegisterItem, Activate, Archive,
     InState, EventType
<1>7. QED
  BY <1>4, <1>5, <1>6 DEF recordVars

\* The matching events after the cursor, as the list of their numbers.
LEMMA MatchedHolds ==
  ASSUME NEW log \in Seq(EventType), scroll \in ScrollType
  PROVE  LET all == Matched(log)
             S == {n \in 1..Len(log) : n > scroll.cursor /\ log[n] \in scroll.types}
         IN
         /\ all \in Seq(Nat)
         /\ Rising(all)
         /\ Numbers(all) = S
<1> DEFINE all == Matched(log)
           S == {n \in 1..Len(log) : n > scroll.cursor /\ log[n] \in scroll.types}
           order == {pair \in (1..Len(log)) \X (1..Len(log)) : pair[1] < pair[2]}
           size == Cardinality(S)
<1>1. DOMAIN log = 1..Len(log) /\ Len(log) \in Nat
  OBVIOUS
<1>2. all = InOrder(S, order)
  BY <1>1 DEF Matched, AfterCursor
<1>3. S \in SUBSET (1..Len(log)) /\ IsFiniteSet(1..Len(log))
  BY <1>1, FS_Interval
<1>4. IsFiniteSet(S) /\ size \in Nat
  BY <1>3, FS_Subset, FS_CardinalityType
<1>5. \A m, n \in S : m \in Nat /\ (<<m, n>> \in order <=> m < n)
  BY <1>1
<1> HIDE DEF S, order, all, size
<1>6. TotalOn(S, order)
  <2>1. \A m \in S : <<m, m>> \notin order
    BY <1>5
  <2>2. \A m, n \in S : m # n => <<m, n>> \in order \/ <<n, m>> \in order
    BY <1>5
  <2>3. ASSUME NEW l \in S, NEW m \in S, NEW n \in S, <<l, m>> \in order, <<m, n>> \in order
        PROVE  <<l, n>> \in order
    <3>1. l < m /\ m < n /\ l \in Nat /\ m \in Nat /\ n \in Nat
      BY <1>5, <2>3
    <3>2. l < n
      BY <3>1
    <3>3. QED
      BY <1>5, <3>2
  <2>4. QED
    BY <2>1, <2>2, <2>3 DEF TotalOn
<1>7. /\ all \in Seq(S) /\ Len(all) = size
      /\ \A i \in 1..size : Place(S, order, all[i]) = i
      /\ \A n \in S : all[Place(S, order, n)] = n
  BY <1>2, <1>4, <1>6, InOrderSorts DEF size
<1>8. \A n \in S : Place(S, order, n) \in 1..size
  BY <1>4, <1>6, PlaceAfter DEF size
<1>9. \A i \in 1..size : all[i] \in S
  BY <1>4, <1>7
<1>10. Numbers(all) = S
  BY <1>7, <1>8, <1>9 DEF Numbers
<1>11. ASSUME NEW i \in 1..size, NEW j \in 1..size, i < j
       PROVE  all[i] < all[j]
  <2>1. <<all[i], all[j]>> \in order
    <3>1. /\ all[i] \in S /\ all[j] \in S
          /\ Place(S, order, all[i]) = i /\ Place(S, order, all[j]) = j
      BY <1>7, <1>9
    <3>2. <<all[i], all[j]>> \notin order => j <= i
      BY <1>4, <1>6, <3>1, PlaceAfter
    <3>3. QED
      BY <1>4, <1>11, <3>2
  <2>2. QED
    BY <1>5, <1>9, <2>1
<1>12. Rising(all)
  BY <1>7, <1>11 DEF Rising
<1>13. all \in Seq(Nat)
  BY <1>3, <1>5, <1>7, SeqMonotonic
<1>14. QED
  BY <1>10, <1>12, <1>13 DEF S, all

\* A page has what matches after the cursor, up to its last event if there is more and
\* to the head of the chain if not.
More(log) == Len(Matched(log)) > Limit
PageEvents(log) == IF More(log) THEN SubSeq(Matched(log), 1, Limit) ELSE Matched(log)
PageEnd(log) == IF More(log) THEN PageEvents(log)[Limit] ELSE Len(log)

LEMMA PageReads ==
  ASSUME NEW log \in Seq(EventType), scroll \in ScrollType
  PROVE  /\ PageEvents(log) \in Seq(Nat) /\ Rising(PageEvents(log))
         /\ More(log) => PageEnd(log) \in 1..Len(log) /\ PageEnd(log) > scroll.cursor
         /\ Numbers(PageEvents(log)) =
              {n \in 1..PageEnd(log) : n > scroll.cursor /\ log[n] \in scroll.types}
<1> DEFINE all == Matched(log)
           page == PageEvents(log)
           bound == PageEnd(log)
           S == {n \in 1..Len(log) : n > scroll.cursor /\ log[n] \in scroll.types}
<1>1. all \in Seq(Nat) /\ Rising(all) /\ Numbers(all) = S
  BY MatchedHolds
<1>2. Limit \in Nat /\ Limit > 0 /\ Len(log) \in Nat /\ scroll.cursor \in Nat
  BY LimitAssumption DEF ScrollType
<1>3. CASE ~ More(log)
  <2>1. page = all /\ bound = Len(log)
    BY <1>3 DEF PageEvents, PageEnd
  <2> HIDE DEF all, page, bound
  <2>2. QED
    BY <1>1, <1>3, <2>1 DEF page, bound
<1>4. CASE More(log)
  <2>1. /\ Len(all) \in Nat /\ Len(all) > Limit
        /\ page = SubSeq(all, 1, Limit) /\ bound = page[Limit]
    <3>1. page = SubSeq(all, 1, Limit) /\ bound = page[Limit]
      BY <1>4 DEF PageEvents, PageEnd
    <3>2. Len(all) > Limit
      BY <1>4 DEF More
    <3> HIDE DEF all, page, bound
    <3>3. QED
      BY <1>1, <3>1, <3>2
  <2> HIDE DEF all, page, bound
  <2>2. \A i \in 1..Limit : i \in 1..Len(all) /\ all[i] \in Nat
    BY <1>1, <1>2, <2>1
  <2>3. /\ SubSeq(all, 1, Limit) \in Seq(Nat) /\ Len(SubSeq(all, 1, Limit)) = Limit
        /\ \A i \in 1..Limit : SubSeq(all, 1, Limit)[i] = all[i]
    <3>1. /\ SubSeq(all, 1, Limit) \in Seq(Nat)
          /\ Len(SubSeq(all, 1, Limit)) = IF 1 <= Limit THEN Limit - 1 + 1 ELSE 0
          /\ \A i \in 1..Limit - 1 + 1 : SubSeq(all, 1, Limit)[i] = all[1 + i - 1]
      BY <1>2, <2>2, SubSeqProperties
    <3>2. QED
      BY <1>2, <2>2, <3>1
  <2>4. /\ page \in Seq(Nat) /\ Len(page) = Limit
        /\ \A i \in 1..Limit : page[i] = all[i]
    BY <2>1, <2>3
  <2>5. Limit \in 1..Limit /\ Limit \in 1..Len(all)
    BY <1>2, <2>1
  <2>6. bound = all[Limit] /\ bound = page[Limit]
    BY <2>1, <2>4, <2>5
  <2>7. Rising(page)
    BY <1>1, <2>2, <2>4 DEF Rising
  <2>8. \A i \in 1..Len(all) : all[i] \in S
    BY <1>1 DEF Numbers
  <2>9. bound \in 1..Len(log) /\ bound > scroll.cursor
    BY <2>5, <2>6, <2>8
  <2>10. ASSUME NEW i \in 1..Len(all) PROVE all[i] <= bound <=> i \in 1..Limit
    <3>1. i < Limit => all[i] < bound
      BY <1>1, <2>5, <2>6 DEF Rising
    <3>2. i > Limit => bound < all[i]
      BY <1>1, <2>5, <2>6 DEF Rising
    <3>3. all[i] \in Nat /\ bound \in Nat
      BY <2>8, <2>9
    <3>4. i = Limit => all[i] = bound
      BY <2>6
    <3>5. QED
      BY <1>2, <3>1, <3>2, <3>3, <3>4
  <2>11. \A n \in Numbers(page) : n \in S /\ n <= bound
    BY <2>2, <2>4, <2>8, <2>10 DEF Numbers
  <2>12. ASSUME NEW n \in S, n <= bound PROVE n \in Numbers(page)
    <3>1. PICK i \in 1..Len(all) : all[i] = n
      BY <1>1 DEF Numbers
    <3>2. i \in 1..Limit
      BY <2>10, <2>12, <3>1
    <3>3. QED
      BY <2>4, <3>1, <3>2 DEF Numbers
  <2>13. Numbers(page) = {n \in 1..bound : n > scroll.cursor /\ log[n] \in scroll.types}
    BY <1>2, <2>9, <2>11, <2>12
  <2>14. QED
    BY <2>4, <2>7, <2>9, <2>13 DEF page, bound
<1>5. QED
  BY <1>3, <1>4

\* Two lists of numbers, all of the second after all of the first.
LEMMA RisingOn ==
  ASSUME NEW s \in Seq(Nat), NEW t \in Seq(Nat), Rising(s), Rising(t),
         \A m \in Numbers(s), n \in Numbers(t) : m < n
  PROVE  Rising(s \o t) /\ Numbers(s \o t) = Numbers(s) \cup Numbers(t)
<1> DEFINE st == s \o t
           ls == Len(s)
           lt == Len(t)
<1>1. ls \in Nat /\ lt \in Nat
  OBVIOUS
<1>2. /\ Len(st) = ls + lt
      /\ \A i \in 1..ls : st[i] = s[i]
      /\ \A j \in 1..lt : st[ls + j] = t[j]
  BY Joined
<1>3. \A i, j \in 1..ls : i < j => s[i] < s[j]
  BY DEF Rising
<1>4. \A i, j \in 1..lt : i < j => t[i] < t[j]
  BY DEF Rising
<1>5. \A i \in 1..ls, j \in 1..lt : s[i] < t[j]
  BY DEF Numbers
<1>6. Numbers(s) = {s[i] : i \in 1..ls} /\ Numbers(t) = {t[j] : j \in 1..lt}
  BY DEF Numbers
<1>7. Numbers(st) = {st[i] : i \in 1..Len(st)} /\ (Rising(st) <=>
        \A i, j \in 1..Len(st) : i < j => st[i] < st[j])
  BY DEF Numbers, Rising
<1> HIDE DEF st, ls, lt
<1>8. \A i \in 1..Len(st) : i \in 1..ls \/ \E j \in 1..lt : i = ls + j
  <2> SUFFICES ASSUME NEW i \in 1..Len(st), ~ (i \in 1..ls)
               PROVE  \E j \in 1..lt : i = ls + j
    OBVIOUS
  <2>1. i - ls \in 1..lt /\ i = ls + (i - ls)
    BY <1>1, <1>2
  <2>2. QED
    BY <2>1
<1>9. /\ \A i \in 1..ls : i \in 1..Len(st)
      /\ \A j \in 1..lt : ls + j \in 1..Len(st)
  BY <1>1, <1>2
<1>10. Numbers(st) = Numbers(s) \cup Numbers(t)
  <2>1. ASSUME NEW i \in 1..Len(st) PROVE st[i] \in Numbers(s) \cup Numbers(t)
    <3>1. CASE i \in 1..ls
      BY <1>2, <1>6, <3>1
    <3>2. CASE \E j \in 1..lt : i = ls + j
      BY <1>2, <1>6, <3>2
    <3>3. QED
      BY <1>8, <3>1, <3>2
  <2>2. ASSUME NEW i \in 1..ls PROVE s[i] \in Numbers(st)
    BY <1>2, <1>7, <1>9
  <2>3. ASSUME NEW j \in 1..lt PROVE t[j] \in Numbers(st)
    BY <1>2, <1>7, <1>9
  <2>4. QED
    BY <1>6, <1>7, <2>1, <2>2, <2>3
<1>11. ASSUME NEW i \in 1..Len(st), NEW j \in 1..Len(st), i < j
       PROVE  st[i] < st[j]
  <2>1. CASE i \in 1..ls /\ j \in 1..ls
    BY <1>2, <1>3, <1>11, <2>1
  <2>2. CASE i \in 1..ls /\ \E b \in 1..lt : j = ls + b
    BY <1>2, <1>5, <2>2
  <2>3. CASE \E a \in 1..lt : i = ls + a
    <3>1. PICK a \in 1..lt : i = ls + a
      BY <2>3
    <3>2. PICK b \in 1..lt : j = ls + b
      BY <1>1, <1>8, <1>11, <3>1
    <3>3. a < b
      BY <1>1, <1>11, <3>1, <3>2
    <3>4. st[i] = t[a] /\ st[j] = t[b]
      BY <1>2, <3>1, <3>2
    <3>5. QED
      BY <1>4, <3>3, <3>4
  <2>4. QED
    BY <1>8, <2>1, <2>2, <2>3
<1>12. QED
  BY <1>7, <1>10, <1>11 DEF st

LEMMA WriteKeepsScroll ==
  ASSUME RecordTypeOK, Scrolled, Write \/ UNCHANGED recordVars, UNCHANGED scroll
  PROVE  Scrolled'
<1> DEFINE c == scroll.case
           log == events[c]
<1>1. scroll' = scroll /\ scroll \in ScrollType
  BY DEF Scrolled
<1>2. CASE scroll.at = "idle"
  BY <1>1, <1>2 DEF Scrolled, Rising
<1>3. CASE scroll.at # "idle"
  <2>1. /\ c \in Created /\ c \in Case /\ Exists(c)
        /\ ReadTo(scroll) <= Len(log)
        /\ Numbers(scroll.seen) = {n \in 1..ReadTo(scroll) : log[n] \in scroll.types}
    BY <1>3 DEF Scrolled, Created
  <2>2. /\ Len(log) <= Len(events'[c])
        /\ \A n \in 1..Len(log) : events'[c][n] = log[n]
        /\ InState(c, "archived") => InState(c, "archived")' /\ events'[c] = log
    BY <2>1, ChainGrows
  <2>3. c \in Created'
    BY <2>1, CaseMovesOn DEF Created
  <2>4. /\ ReadTo(scroll) \in Nat /\ Len(log) \in Nat
        /\ RecordTypeOK' /\ Len(events'[c]) \in Nat
    BY <1>1, <2>1, WriteType DEF RecordTypeOK, ScrollType, ReadTo
  <2>5. ReadTo(scroll) <= Len(events'[c])
    BY <2>1, <2>2, <2>4
  <2>6. \A n \in 1..ReadTo(scroll) : events'[c][n] = log[n]
    BY <2>1, <2>2, <2>4
  <2>7. Numbers(scroll.seen) = {n \in 1..ReadTo(scroll) : events'[c][n] \in scroll.types}
    BY <2>1, <2>6
  <2>8. scroll.at = "archive" \/ (scroll.at = "events" /\ scroll.sealed) =>
          InState(c, "archived")
    BY DEF Scrolled
  <2>9. scroll.at = "archive" => scroll.head = Len(events'[c])
    BY <2>2, <2>8 DEF Scrolled
  <2>10. /\ c' = c /\ ReadTo(scroll)' = ReadTo(scroll)
         /\ Numbers(scroll.seen)' = Numbers(scroll.seen)
    BY <1>1 DEF ReadTo, Numbers
  <2>11. Rising(scroll.seen)' /\ scroll'.terminal
    BY <1>1 DEF Scrolled, Rising
  <2> HIDE DEF c, log
  <2>12. /\ scroll'.at = "archive" \/ (scroll'.at = "events" /\ scroll'.sealed) =>
              InState(c, "archived")'
    BY <1>1, <2>2, <2>8
  <2>13. QED
    BY <1>1, <1>3, <2>3, <2>5, <2>7, <2>9, <2>10, <2>11, <2>12 DEF Scrolled, c
<1>4. QED
  BY <1>2, <1>3

LEMMA OpenScrolled ==
  ASSUME RecordTypeOK, NEW c \in Case, NEW types \in SUBSET EventType,
         OpenTimeline(c, types), UNCHANGED recordVars
  PROVE  Scrolled'
<1>1. NoScroll \in ScrollType /\ NoScroll.seen = <<>> /\ NoScroll.cursor = 0 /\ NoScroll.terminal
      /\ ~ NoScroll.sealed
  BY DEF NoScroll, ScrollType
<1>2. scroll' = [NoScroll EXCEPT !.at = "case", !.case = c, !.types = types]
  BY DEF OpenTimeline
<1> HIDE DEF NoScroll
<1>3. /\ scroll' \in ScrollType /\ scroll'.at = "case" /\ scroll'.case = c
      /\ scroll'.seen = <<>> /\ scroll'.cursor = 0 /\ scroll'.terminal
  BY <1>1, <1>2 DEF ScrollType
<1>4. c \in Created' /\ events' = events /\ Len(events[c]) \in Nat
  BY DEF OpenTimeline, Created, Exists, recordVars, RecordTypeOK
<1>5. ReadTo(scroll)' = 0
  BY <1>3 DEF ReadTo
<1>6. Rising(scroll.seen)' /\ Numbers(scroll.seen)' = {}
  BY <1>3 DEF Rising, Numbers
<1>7. QED
  BY <1>3, <1>4, <1>5, <1>6 DEF Scrolled

LEMMA LoadCaseScrolled ==
  ASSUME RecordTypeOK, Scrolled, LoadCase, UNCHANGED recordVars
  PROVE  Scrolled'
<1>1. scroll.at = "case" /\ scroll \in ScrollType /\ body' = body /\ events' = events
  BY DEF LoadCase, Scrolled, recordVars
<1>2. scroll' = [scroll EXCEPT !.at = "events", !.sealed = InState(scroll.case, "archived")]
  BY DEF LoadCase
<1>3. InState(scroll.case, "archived") \in BOOLEAN
  BY DEF InState
<1>4. /\ scroll' \in ScrollType /\ scroll'.at = "events"
      /\ scroll'.sealed = InState(scroll.case, "archived")
      /\ scroll'.case = scroll.case /\ scroll'.types = scroll.types
      /\ scroll'.cursor = scroll.cursor /\ scroll'.seen = scroll.seen
      /\ scroll'.terminal = scroll.terminal
  BY <1>1, <1>2, <1>3 DEF ScrollType
<1>5. ReadTo(scroll)' = ReadTo(scroll)
  BY <1>1, <1>4 DEF ReadTo
<1>6. Rising(scroll.seen)' /\ Numbers(scroll.seen)' = Numbers(scroll.seen)
  BY <1>4 DEF Scrolled, Rising, Numbers
<1>7. InState(scroll.case, "archived")' <=> InState(scroll.case, "archived")
  BY <1>1, <1>4 DEF InState, Exists
<1>8. QED
  BY <1>1, <1>4, <1>5, <1>6, <1>7 DEF Scrolled, Created, Exists

LEMMA ReadEventsScrolled ==
  ASSUME RecordTypeOK, Scrolled, ReadEvents, UNCHANGED recordVars
  PROVE  Scrolled'
<1> DEFINE c == scroll.case
           log == events[c]
           more == More(log)
           page == PageEvents(log)
           bound == PageEnd(log)
           cursor == IF more THEN bound ELSE scroll.cursor
           seen == scroll.seen \o page
<1>1. /\ scroll.at = "events" /\ scroll \in ScrollType /\ scroll.terminal
      /\ body' = body /\ events' = events
  BY DEF ReadEvents, Scrolled, recordVars
<1>2. /\ c \in Created /\ c \in Case /\ scroll.cursor <= Len(log)
      /\ Numbers(scroll.seen) = {n \in 1..scroll.cursor : log[n] \in scroll.types}
      /\ Rising(scroll.seen)
      /\ scroll.sealed => InState(c, "archived")
  BY <1>1 DEF Scrolled, ReadTo, Created
<1>3. log \in Seq(EventType) /\ Len(log) \in Nat /\ scroll.cursor \in Nat
      /\ scroll.seen \in Seq(Nat)
  BY <1>1, <1>2 DEF RecordTypeOK, ScrollType
<1>4. scroll' = [scroll EXCEPT !.at = IF scroll.sealed THEN "archive" ELSE EndOfPage(more),
                   !.seen = seen, !.more = more, !.head = Len(log), !.cursor = cursor]
  BY <1>1 DEF ReadEvents, More, PageEvents, PageEnd
<1>5. /\ page \in Seq(Nat) /\ Rising(page)
      /\ more => bound \in 1..Len(log) /\ bound > scroll.cursor
      /\ ~ more => bound = Len(log)
      /\ Numbers(page) = {n \in 1..bound : n > scroll.cursor /\ log[n] \in scroll.types}
  BY <1>1, <1>3, PageReads DEF PageEnd
<1>6. more \in BOOLEAN
  BY DEF More
<1> HIDE DEF c, log, more, page, bound
<1>7. bound \in Nat /\ scroll.cursor <= bound /\ bound <= Len(log)
  BY <1>2, <1>3, <1>5
<1>8. \A m \in Numbers(scroll.seen), n \in Numbers(page) : m < n
  BY <1>2, <1>3, <1>5, <1>7
<1>9. Rising(seen) /\ Numbers(seen) = Numbers(scroll.seen) \cup Numbers(page)
  BY <1>2, <1>3, <1>5, <1>8, RisingOn
<1>10. Numbers(seen) = {n \in 1..bound : log[n] \in scroll.types}
  BY <1>2, <1>3, <1>5, <1>7, <1>9
<1>11. seen \in Seq(Nat) /\ cursor \in Nat
  BY <1>3, <1>5, <1>7, ConcatProperties
<1> HIDE DEF seen, cursor
<1>12. /\ scroll' \in ScrollType
       /\ scroll'.at = IF scroll.sealed THEN "archive" ELSE EndOfPage(more)
       /\ scroll'.seen = seen /\ scroll'.more = more /\ scroll'.head = Len(log)
       /\ scroll'.cursor = cursor /\ scroll'.case = c /\ scroll'.types = scroll.types
       /\ scroll'.terminal = scroll.terminal
  BY <1>1, <1>3, <1>4, <1>6, <1>11 DEF ScrollType, EndOfPage, c
<1>13. ReadTo(scroll)' = bound
  BY <1>5, <1>6, <1>12 DEF ReadTo, EndOfPage, cursor
<1>14. /\ scroll'.case = scroll.case /\ scroll'.case \in Created'
       /\ events'[scroll'.case] = log
  BY <1>1, <1>2, <1>12 DEF Created, Exists, c, log
<1>15. Rising(scroll.seen)' /\ Numbers(scroll.seen)' = Numbers(seen)
  BY <1>9, <1>12 DEF Rising, Numbers
<1>16. scroll'.at = "archive" \/ (scroll'.at = "events" /\ scroll'.sealed) =>
         InState(scroll.case, "archived")
  BY <1>2, <1>12 DEF EndOfPage, c
<1>17. scroll'.at # "idle"
  BY <1>12 DEF EndOfPage
<1>18. InState(scroll.case, "archived")' <=> InState(scroll.case, "archived")
  BY <1>1, <1>14 DEF InState, Exists
<1>19. QED
  BY <1>1, <1>7, <1>10, <1>12, <1>13, <1>14, <1>15, <1>16, <1>17, <1>18 DEF Scrolled

LEMMA ReadArchiveScrolled ==
  ASSUME RecordTypeOK, AllSealed, Scrolled, ReadArchiveEnd, UNCHANGED recordVars
  PROVE  Scrolled'
<1> DEFINE c == scroll.case
<1>1. /\ scroll.at = "archive" /\ scroll \in ScrollType
      /\ body' = body /\ events' = events
  BY DEF ReadArchiveEnd, Scrolled, recordVars
<1>2. c \in Created /\ c \in Case /\ InState(c, "archived") /\ scroll.head = Len(events[c])
  BY <1>1 DEF Scrolled, Created
<1> HIDE DEF c
<1>3. archives[c].events = events[c]
  <2>1. Sealed(c)
    BY <1>2 DEF AllSealed
  <2>2. archives[c] # NoRow
    BY <1>2, <2>1 DEF Sealed
  <2>3. archives[c] = [body |-> body[c], events |-> events[c]]
    BY <2>1, <2>2 DEF Sealed
  <2>4. QED
    BY <2>3
<1> USE DEF c
<1>4. scroll' = [scroll EXCEPT !.at = EndOfPage(scroll.more), !.terminal = TRUE]
  BY <1>2, <1>3 DEF ReadArchiveEnd
<1>5. /\ scroll' \in ScrollType /\ scroll'.at = EndOfPage(scroll.more)
      /\ scroll'.seen = scroll.seen /\ scroll'.more = scroll.more
      /\ scroll'.head = scroll.head /\ scroll'.cursor = scroll.cursor
      /\ scroll'.case = scroll.case /\ scroll'.types = scroll.types /\ scroll'.terminal
      /\ scroll'.at \in {"case", "done"}
  BY <1>1, <1>4 DEF ScrollType, EndOfPage
<1>6. ReadTo(scroll)' = ReadTo(scroll)
  BY <1>1, <1>5 DEF ReadTo, EndOfPage, ScrollType
<1>7. Rising(scroll.seen)' /\ Numbers(scroll.seen)' = Numbers(scroll.seen)
  BY <1>5 DEF Scrolled, Rising, Numbers
<1>8. QED
  BY <1>1, <1>5, <1>6, <1>7 DEF Scrolled, Created, Exists

LEMMA ScrolledAlways == Spec => []Scrolled
<1>1. Init => Scrolled
  <2> SUFFICES ASSUME Init PROVE Scrolled
    OBVIOUS
  <2>1. scroll = NoScroll
    BY DEF Init, ScrollInit
  <2>2. QED
    BY <2>1 DEF NoScroll, Scrolled, ScrollType, Rising
<1>2. RecordTypeOK /\ AllSealed /\ Scrolled /\ [Next]_vars => Scrolled'
  <2> SUFFICES ASSUME RecordTypeOK, AllSealed, Scrolled, [Next]_vars
               PROVE  Scrolled'
    OBVIOUS
  <2>1. CASE UNCHANGED scroll
    BY <2>1, OnlyCommandsWrite, WriteKeepsScroll
  <2>2. ASSUME NEW c \in Case, NEW types \in {EventType} \cup {{type} : type \in EventType},
               OpenTimeline(c, types), UNCHANGED recordVars
        PROVE  Scrolled'
    <3>1. types \in SUBSET EventType
      OBVIOUS
    <3>2. QED
      BY <2>2, <3>1, OpenScrolled
  <2>3. CASE ScrollTimeline
    BY <2>2, <2>3, LoadCaseScrolled, ReadEventsScrolled, ReadArchiveScrolled
    DEF ScrollTimeline, ScrollStep
  <2>4. QED
    BY <2>1, <2>3 DEF Next, vars, Command, DrawReport, WalkCases
<1>3. QED
  BY <1>1, <1>2, RecordTypeCorrect, SealedAlways, PTL DEF Spec

\* Reading a timeline page by page, whatever commands run between two pages or two
\* queries, gives the matching events up to the head, each once and in order, and
\* an archive that ends with that head (v40.go:438).
THEOREM TimelineCorrect == Spec => []TimelineIsComplete
<1>1. AllSealed /\ Scrolled => TimelineIsComplete
  <2> SUFFICES ASSUME AllSealed, Scrolled PROVE TimelineIsComplete
    OBVIOUS
  <2>1. DOMAIN scroll.seen = 1..Len(scroll.seen)
    BY DEF Scrolled, ScrollType
  <2>2. \A i, j \in DOMAIN scroll.seen : i < j => scroll.seen[i] < scroll.seen[j]
    BY <2>1 DEF Scrolled, Rising
  <2>3. scroll.at = "done" =>
          {scroll.seen[i] : i \in DOMAIN scroll.seen}
            = {n \in 1..scroll.head : events[scroll.case][n] \in scroll.types}
    BY <2>1 DEF Scrolled, Numbers, ReadTo
  <2>4. scroll.at = "archive" => archives[scroll.case] # NoRow
    BY DEF Scrolled, Created, AllSealed, Sealed
  <2>5. scroll.terminal
    BY DEF Scrolled
  <2>6. QED
    BY <2>2, <2>3, <2>4, <2>5 DEF TimelineIsComplete
<1>2. QED
  BY <1>1, SealedAlways, ScrolledAlways, PTL
=============================================================================
