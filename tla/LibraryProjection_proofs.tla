----------------------- MODULE LibraryProjection_proofs -----------------------
(***************************************************************************)
(* LibraryProjection for every library, catalog and page size.  A page     *)
(* holds what stands behind the pages before it, and a scene that is not   *)
(* updated never moves up, unless some scene is removed: so what has not   *)
(* been read when a pass ends has moved, and what a pass has read is what  *)
(* the rows that it leaves and the links that it collects are about.       *)
(***************************************************************************)
EXTENDS LibraryProjection, FiniteSetTheorems, SequenceTheorems, TLAPS

PassType ==
  [pc : {"idle", "page", "upsert", "delete", "wait"}, page : {1} \union 1..Cardinality(Scenes),
   provider : Providers \union {None}, items : SeqOf(Scenes, PageSize),
   more : BOOLEAN, links : SUBSET Catalog]

RowType == [link : Catalog \union {None}, fresh : BOOLEAN]

Typed ==
  /\ library \in Seq(Scenes) /\ IsInjective(library)
  /\ stash \in BOOLEAN
  /\ provider \in Providers \union {None}
  /\ projection \in [Scenes -> RowType \union {None}]
  /\ available \in [Catalog -> BOOLEAN]
  /\ pass \in PassType
  /\ snapshot \in [pc : {"idle", "find", "apply", "done"}, links : SUBSET Catalog,
                   lost : SUBSET Catalog]
  /\ refresh \in [id : Catalog \union {None}, answer : BOOLEAN]
  /\ since \in [moved : SUBSET Scenes, removed : BOOLEAN, disturbed : BOOLEAN]
  /\ events \in 0..MaxEvents

\* How many scenes stand before a page.
Before(page) == (page - 1) * PageSize

FreshScenes == {s \in Scenes : Fresh(s)}

Stayed(s) == s \notin since.moved

\* While pages are read: what stands before the next one and was not updated has its row.
ReadSeen == pass.pc = "page" /\ ~since.removed =>
  \A n \in DOMAIN library : n <= Before(pass.page) /\ Stayed(library[n]) => Fresh(library[n])

\* With a page read: what stands before the next one has its row or is on the page, and
\* so is everything when there is no next one.
PageSeen ==
  pass.pc = "upsert" =>
    /\ pass.items = <<>> => ~pass.more
    /\ pass.more => pass.page * PageSize < Cardinality(Scenes)
    /\ ~since.removed =>
         /\ ToSet(pass.items) \subseteq InLibrary
         /\ \A n \in DOMAIN library :
              (n <= Before(pass.page + 1) \/ ~pass.more) /\ Stayed(library[n]) =>
                Fresh(library[n]) \/ library[n] \in ToSet(pass.items)

\* With all pages read: everything that was not updated has its row...
AllSeen ==
  pass.pc \in {"delete", "wait"} /\ ~since.removed => \A s \in InLibrary : Stayed(s) => Fresh(s)

\* ...and in the end there are no other rows.
UnseenGone == pass.pc = "wait" => \A s \in Scenes : projection[s] = None \/ Fresh(s)

\* The links that a pass has collected are those of its rows.
PassLinks ==
  pass.pc # "idle" =>
    /\ pass.links = LinksFor(FreshScenes, pass.provider)
    /\ \A s \in FreshScenes : projection[s].link = LinkFor(s, pass.provider)
    /\ ~since.removed => FreshScenes \subseteq InLibrary
    /\ ~since.disturbed => pass.provider = provider

\* The snapshot that a pass waits for is its own, and nothing disturbs it.
SnapshotLinks ==
  pass.pc \in {"delete", "wait"} =>
    /\ snapshot.pc # "idle" /\ snapshot.links = pass.links
    /\ ~since.disturbed =>
         /\ snapshot.pc = "apply" => snapshot.lost = {c \in Catalog : available[c]} \ snapshot.links
         /\ snapshot.pc = "done" => \A c \in Catalog : available[c] <=> c \in snapshot.links

IInv == Typed /\ ReadSeen /\ PageSeen /\ AllSeen /\ UnseenGone /\ PassLinks /\ SnapshotLinks

-----------------------------------------------------------------------------
(* Sequences and numbers. *)

LEMMA Constants ==
  /\ Refs \in [Scenes -> [Providers -> Seq(Catalog)]]
  /\ PageSize \in Nat \ {0} /\ MaxEvents \in Nat /\ IsFiniteSet(Scenes)
  /\ None \notin Scenes /\ None \notin Catalog /\ None \notin Providers /\ None \notin RowType
  /\ Cardinality(Scenes) \in Nat
BY LibraryAssumption, FS_CardinalityType DEF RowType

LEMMA BeforeProperties ==
  ASSUME NEW page \in Nat \ {0}
  PROVE  /\ Before(page) \in Nat /\ Before(page + 1) = Before(page) + PageSize
         /\ page * PageSize = Before(page) + PageSize /\ Before(1) = 0
<1>1. PageSize \in Nat /\ page \in Nat /\ page - 1 \in Nat
  BY Constants
<1>2. ASSUME NEW q \in Nat, NEW p \in Nat
      PROVE  p * q \in Nat /\ (p + 1) * q = p * q + q /\ 0 * q = 0
  OBVIOUS
<1>3. Before(page) \in Nat /\ (page - 1 + 1) * PageSize = Before(page) + PageSize
      /\ 0 * PageSize = 0
  BY <1>1, <1>2 DEF Before
<1>4. page - 1 + 1 = page /\ page + 1 - 1 = page /\ 1 - 1 = 0
  BY <1>1
<1> QED
  BY <1>3, <1>4 DEF Before

\* A scene's link is an id of the catalog.
LEMMA LinkType ==
  ASSUME NEW s \in Scenes, NEW p \in Providers \union {None}
  PROVE  LinkFor(s, p) \in Catalog \union {None}
<1>1. CASE p # None /\ Refs[s][p] # <<>>
  <2>1. Refs[s][p] \in Seq(Catalog)
    BY <1>1, Constants
  <2>2. Head(Refs[s][p]) \in Catalog
    BY <1>1, <2>1
  <2> QED
    BY <1>1, <2>2 DEF LinkFor
<1>2. CASE p = None \/ Refs[s][p] = <<>>
  BY <1>2 DEF LinkFor
<1> QED
  BY <1>1, <1>2

\* A sequence with an element taken out has the earlier elements where they were, the
\* later ones one place ahead.
LEMMA RemoveAtProperties ==
  ASSUME NEW S, NEW s \in Seq(S), NEW n \in 1..Len(s)
  PROVE  /\ RemoveAt(s, n) \in Seq(S) /\ Len(RemoveAt(s, n)) = Len(s) - 1
         /\ \A m \in 1..(Len(s) - 1) : RemoveAt(s, n)[m] = IF m < n THEN s[m] ELSE s[m + 1]
<1> DEFINE left == SubSeq(s, 1, n - 1)
           right == SubSeq(s, n + 1, Len(s))
           t == RemoveAt(s, n)
<1>1. Len(s) \in Nat /\ DOMAIN s = 1..Len(s) /\ \A m \in 1..Len(s) : s[m] \in S
  OBVIOUS
<1>2. left \in Seq(S) /\ Len(left) = n - 1 /\ \A m \in 1..(n - 1) : left[m] = s[m]
  <2>1. n - 1 \in Int /\ \A i \in 1..(n - 1) : s[i] \in S
    BY <1>1
  <2>2. /\ left \in Seq(S) /\ Len(left) = IF 1 <= n - 1 THEN (n - 1) - 1 + 1 ELSE 0
        /\ \A m \in 1..((n - 1) - 1 + 1) : left[m] = s[1 + m - 1]
    BY <2>1, SubSeqProperties
  <2> HIDE DEF left
  <2>3. Len(left) = n - 1 /\ (n - 1) - 1 + 1 = n - 1
    BY <1>1, <2>2
  <2>4. \A m \in 1..(n - 1) : 1 + m - 1 = m
    BY <1>1
  <2> QED
    BY <2>2, <2>3, <2>4
<1>3. /\ right \in Seq(S) /\ Len(right) = Len(s) - n
      /\ \A m \in 1..(Len(s) - n) : right[m] = s[n + m]
  <2>1. n + 1 \in Int /\ Len(s) \in Int /\ \A i \in (n + 1)..Len(s) : s[i] \in S
    BY <1>1
  <2>2. /\ right \in Seq(S) /\ Len(right) = IF n + 1 <= Len(s) THEN Len(s) - (n + 1) + 1 ELSE 0
        /\ \A m \in 1..(Len(s) - (n + 1) + 1) : right[m] = s[(n + 1) + m - 1]
    BY <2>1, SubSeqProperties
  <2> HIDE DEF right
  <2>3. Len(right) = Len(s) - n /\ Len(s) - (n + 1) + 1 = Len(s) - n
    <3>1. Len(s) \in Nat /\ n \in Nat /\ n <= Len(s)
      BY <1>1
    <3>2. Len(right) = IF n + 1 <= Len(s) THEN Len(s) - (n + 1) + 1 ELSE 0
      BY <2>2
    <3> QED
      BY <3>1, <3>2
  <2>4. \A m \in 1..(Len(s) - n) : (n + 1) + m - 1 = n + m
    BY <1>1
  <2> QED
    BY <2>2, <2>3, <2>4
<1> HIDE DEF left, right
<1>4. t = left \o right
  BY DEF RemoveAt, left, right
<1> HIDE DEF t
<1>5. /\ t \in Seq(S) /\ Len(t) = Len(left) + Len(right)
      /\ \A m \in 1..(Len(left) + Len(right)) :
           t[m] = IF m <= Len(left) THEN left[m] ELSE right[m - Len(left)]
  BY <1>2, <1>3, <1>4, ConcatProperties
<1>6. Len(left) + Len(right) = Len(s) - 1
  BY <1>1, <1>2, <1>3
<1>7. ASSUME NEW m \in 1..(Len(s) - 1) PROVE t[m] = IF m < n THEN s[m] ELSE s[m + 1]
  <2>1. t[m] = IF m <= n - 1 THEN left[m] ELSE right[m - (n - 1)]
    BY <1>2, <1>5, <1>6
  <2>2. CASE m < n
    BY <1>1, <1>2, <2>1, <2>2
  <2>3. CASE m >= n
    <3>1. m - (n - 1) \in 1..(Len(s) - n) /\ n + (m - (n - 1)) = m + 1 /\ ~ (m <= n - 1)
      BY <1>1, <2>3
    <3>2. right[m - (n - 1)] = s[m + 1]
      BY <1>3, <3>1
    <3> QED
      BY <1>1, <2>1, <2>3, <3>1, <3>2
  <2> QED
    BY <1>1, <2>2, <2>3
<1> QED
  BY <1>5, <1>6, <1>7 DEF t

LEMMA LibraryTypes ==
  ASSUME Typed
  PROVE  /\ library \in Seq(Scenes) /\ Len(library) \in Nat /\ DOMAIN library = 1..Len(library)
         /\ \A n \in DOMAIN library : library[n] \in Scenes
         /\ \A m, n \in DOMAIN library : library[m] = library[n] => m = n
         /\ InLibrary \subseteq Scenes
         /\ Len(library) <= Cardinality(Scenes)
<1>1. library \in Seq(Scenes)
  BY DEF Typed
<1>2. /\ Len(library) \in Nat /\ DOMAIN library = 1..Len(library)
      /\ \A n \in DOMAIN library : library[n] \in Scenes
      /\ library \in [1..Len(library) -> Scenes]
  BY <1>1
<1>3. \A m, n \in DOMAIN library : library[m] = library[n] => m = n
  BY DEF Typed, IsInjective
<1>4. library \in Injection(1..Len(library), Scenes)
  BY <1>2, <1>3 DEF Injection, IsInjective
<1>5. Cardinality(1..Len(library)) = Len(library)
  BY <1>2, FS_Interval
<1>6. Cardinality(1..Len(library)) <= Cardinality(Scenes)
  BY <1>4, FS_Injection, Constants
<1> QED
  BY <1>1, <1>2, <1>3, <1>5, <1>6 DEF InLibrary, ToSet

\* A page is a stretch of the library of no more than its size.
LEMMA PageProperties ==
  ASSUME Typed, NEW page \in Nat \ {0}
  PROVE  /\ PageOf(page) \in SeqOf(Scenes, PageSize)
         /\ ToSet(PageOf(page)) \subseteq InLibrary
         /\ \A n \in DOMAIN library : Before(page) < n /\ n <= Before(page + 1) =>
              library[n] \in ToSet(PageOf(page))
         /\ PageOf(page) = <<>> => ~ (page * PageSize < Len(library))
<1> DEFINE before == Before(page)
           length == Len(library)
           size == PageSize
           end == IF page * PageSize < Len(library) THEN page * PageSize ELSE Len(library)
           items == PageOf(page)
           count == Len(items)
<1>1. /\ before \in Nat /\ page * PageSize = before + size /\ Before(page + 1) = before + size
      /\ size \in Nat /\ size > 0
  <2>1. /\ Before(page) \in Nat /\ Before(page + 1) = Before(page) + PageSize
        /\ page * PageSize = Before(page) + PageSize
    BY BeforeProperties
  <2>2. PageSize \in Nat /\ PageSize > 0
    BY Constants
  <2> QED
    BY <2>1, <2>2
<1>2. /\ library \in Seq(Scenes) /\ length \in Nat /\ DOMAIN library = 1..length
      /\ \A n \in DOMAIN library : library[n] \in Scenes
  BY LibraryTypes
<1>3. items = SubSeq(library, before + 1, end)
  BY DEF PageOf, Before
<1> HIDE DEF before, length, size, items
<1>4. end = IF before + size < length THEN before + size ELSE length
  BY <1>1 DEF length
<1> HIDE DEF end
<1>5. /\ end \in Nat /\ end <= length /\ end <= before + size
      /\ end = before + size \/ end = length
  BY <1>1, <1>2, <1>4
<1>6. \A n \in (before + 1)..end : n \in DOMAIN library /\ library[n] \in Scenes
  <2> SUFFICES ASSUME NEW n \in (before + 1)..end PROVE n \in DOMAIN library /\ library[n] \in Scenes
    OBVIOUS
  <2>1. n \in 1..length
    BY <1>1, <1>2, <1>5
  <2> QED
    BY <1>2, <2>1
<1>7. /\ items \in Seq(Scenes) /\ count = IF before + 1 <= end THEN end - before ELSE 0
      /\ \A n \in 1..(end - before) : items[n] = library[before + n]
  <2>1. before + 1 \in Int /\ end \in Int
    BY <1>1, <1>5
  <2>2. /\ items \in Seq(Scenes)
        /\ Len(items) = IF before + 1 <= end THEN end - (before + 1) + 1 ELSE 0
        /\ \A n \in 1..(end - (before + 1) + 1) : items[n] = library[(before + 1) + n - 1]
    BY <1>3, <1>6, <2>1, SubSeqProperties
  <2>3. end - (before + 1) + 1 = end - before
        /\ \A n \in 1..(end - before) : (before + 1) + n - 1 = before + n
    BY <1>1, <1>5
  <2> QED
    BY <2>2, <2>3
<1>8. DOMAIN items = 1..count /\ count \in Nat /\ items \in [1..count -> Scenes]
  BY <1>7
<1> HIDE DEF count
<1>9. items \in SeqOf(Scenes, PageSize)
  <2>1. count \in 0..size
    BY <1>1, <1>5, <1>7
  <2> QED
    BY <1>8, <2>1 DEF SeqOf, size
<1>10. ToSet(items) \subseteq InLibrary
  <2> SUFFICES ASSUME NEW n \in DOMAIN items PROVE items[n] \in InLibrary
    BY DEF ToSet
  <2>1. n \in 1..(end - before) /\ before + n \in (before + 1)..end
    BY <1>1, <1>5, <1>7, <1>8
  <2> QED
    BY <1>6, <1>7, <2>1 DEF InLibrary, ToSet
<1>11. ASSUME NEW n \in DOMAIN library, before < n, n <= before + size
       PROVE  library[n] \in ToSet(items)
  <2>1. n \in 1..length
    BY <1>2
  <2>2. n - before \in 1..(end - before) /\ before + (n - before) = n /\ before + 1 <= end
    BY <1>1, <1>2, <1>5, <1>11, <2>1
  <2>3. n - before \in DOMAIN items /\ items[n - before] = library[n]
    BY <1>7, <1>8, <2>2
  <2> QED
    BY <2>3 DEF ToSet
<1>12. ASSUME items = <<>> PROVE ~ (before + size < length)
  <2>1. count = 0
    BY <1>12 DEF count
  <2> QED
    BY <1>1, <1>2, <1>5, <1>7, <2>1
<1> QED
  BY <1>1, <1>9, <1>10, <1>11, <1>12 DEF before, items, length, size

\* Without a scene, those before it stay, those behind it move up.
LEMMA WithoutProperties ==
  ASSUME Typed, NEW s \in Scenes
  PROVE  /\ Without(s) \in Seq(Scenes) /\ IsInjective(Without(s))
         /\ \A n \in DOMAIN Without(s) :
              /\ Without(s)[n] # s
              /\ \E m \in DOMAIN library : m <= n + 1 /\ Without(s)[n] = library[m]
         /\ \A m \in DOMAIN library : library[m] # s =>
              \E n \in DOMAIN Without(s) : Without(s)[n] = library[m]
<1> DEFINE length == Len(library)
           rest == Without(s)
<1>1. /\ library \in Seq(Scenes) /\ length \in Nat /\ DOMAIN library = 1..length
      /\ \A n \in DOMAIN library : library[n] \in Scenes
      /\ \A m, n \in DOMAIN library : library[m] = library[n] => m = n
  BY LibraryTypes
<1> HIDE DEF length, rest
<1>2. CASE s \in InLibrary
  <2> DEFINE i == CHOOSE n \in DOMAIN library : library[n] = s
  <2>1. i \in DOMAIN library /\ library[i] = s
    BY <1>2 DEF InLibrary, ToSet
  <2>2. rest = RemoveAt(library, i)
    BY <1>2 DEF Without, rest
  <2> HIDE DEF i
  <2>3. i \in 1..length
    BY <1>1, <2>1
  <2>4. /\ rest \in Seq(Scenes) /\ Len(rest) = length - 1
        /\ \A m \in 1..(length - 1) : rest[m] = IF m < i THEN library[m] ELSE library[m + 1]
    <3>1. library \in Seq(Scenes) /\ i \in 1..Len(library)
      BY <1>1, <2>3 DEF length
    <3>2. /\ RemoveAt(library, i) \in Seq(Scenes) /\ Len(RemoveAt(library, i)) = Len(library) - 1
          /\ \A m \in 1..(Len(library) - 1) :
               RemoveAt(library, i)[m] = IF m < i THEN library[m] ELSE library[m + 1]
      BY <3>1, RemoveAtProperties
    <3> QED
      BY <2>2, <3>2 DEF length
  <2>5. DOMAIN rest = 1..(length - 1)
    BY <2>4
  <2> DEFINE old(m) == IF m < i THEN m ELSE m + 1
  <2>6. \A m \in DOMAIN rest : /\ old(m) \in DOMAIN library /\ rest[m] = library[old(m)]
                               /\ old(m) # i /\ old(m) <= m + 1
    BY <1>1, <2>3, <2>4, <2>5
  <2>7. \A m, n \in DOMAIN rest : old(m) = old(n) => m = n
    BY <1>1, <2>3, <2>5
  <2>8. \A m \in DOMAIN library : m # i => \E n \in DOMAIN rest : old(n) = m
    <3> SUFFICES ASSUME NEW m \in DOMAIN library, m # i PROVE \E n \in DOMAIN rest : old(n) = m
      OBVIOUS
    <3>1. m \in 1..length
      BY <1>1
    <3>2. CASE m < i
      <4>1. m \in 1..(length - 1)
        BY <1>1, <2>3, <3>1, <3>2
      <4> QED
        BY <2>5, <3>2, <4>1
    <3>3. CASE m > i
      <4>1. m - 1 \in 1..(length - 1) /\ ~ (m - 1 < i) /\ m - 1 + 1 = m
        BY <1>1, <2>3, <3>1, <3>3
      <4> QED
        BY <2>5, <4>1
    <3> QED
      BY <2>3, <3>1, <3>2, <3>3
  <2> HIDE DEF old
  <2>9. IsInjective(rest)
    BY <1>1, <2>6, <2>7 DEF IsInjective
  <2>10. \A n \in DOMAIN rest : rest[n] # s
    BY <1>1, <2>1, <2>6
  <2>11. \A m \in DOMAIN library : library[m] # s => \E n \in DOMAIN rest : rest[n] = library[m]
    BY <2>1, <2>6, <2>8
  <2> QED
    BY <2>4, <2>6, <2>9, <2>10, <2>11 DEF rest
<1>3. CASE s \notin InLibrary
  <2>1. rest = library
    BY <1>3 DEF Without, rest
  <2>2. \A n \in DOMAIN library : library[n] # s /\ n <= n + 1
    BY <1>1, <1>3 DEF InLibrary, ToSet
  <2> QED
    BY <1>1, <2>1, <2>2 DEF rest, IsInjective
<1> QED
  BY <1>2, <1>3

\* With a scene put first, all others stay where they were or move back.
LEMMA TouchProperties ==
  ASSUME Typed, NEW s \in Scenes
  PROVE  LET touched == <<s>> \o Without(s)
         IN /\ touched \in Seq(Scenes) /\ IsInjective(touched)
            /\ \A n \in DOMAIN touched :
                 touched[n] # s => \E m \in DOMAIN library : m <= n /\ touched[n] = library[m]
            /\ \A m \in DOMAIN library : \E n \in DOMAIN touched : touched[n] = library[m]
<1> DEFINE rest == Without(s)
           length == Len(rest)
           touched == <<s>> \o rest
<1>1. /\ rest \in Seq(Scenes) /\ \A m, n \in DOMAIN rest : rest[m] = rest[n] => m = n
      /\ \A n \in DOMAIN rest :
           rest[n] # s /\ \E m \in DOMAIN library : m <= n + 1 /\ rest[n] = library[m]
      /\ \A m \in DOMAIN library : library[m] # s => \E n \in DOMAIN rest : rest[n] = library[m]
  BY WithoutProperties DEF IsInjective
<1> HIDE DEF rest
<1>2. length \in Nat /\ DOMAIN rest = 1..length
  BY <1>1
<1>3. <<s>> \in Seq(Scenes) /\ Len(<<s>>) = 1 /\ <<s>>[1] = s
  OBVIOUS
<1>4. /\ touched \in Seq(Scenes) /\ Len(touched) = 1 + length
      /\ \A n \in 1..(1 + length) : touched[n] = IF n <= 1 THEN <<s>>[n] ELSE rest[n - 1]
  BY <1>1, <1>3, ConcatProperties
<1>5. DOMAIN touched = 1..(1 + length)
  BY <1>4
<1> HIDE DEF touched, length
<1>6. ASSUME NEW n \in DOMAIN touched
      PROVE  \/ n = 1 /\ touched[n] = s
             \/ n > 1 /\ n - 1 \in DOMAIN rest /\ touched[n] = rest[n - 1]
  <2>1. n \in 1..(1 + length)
    BY <1>5
  <2>2. CASE n = 1
    <3>1. touched[1] = <<s>>[1]
      BY <1>4, <2>1, <2>2
    <3> QED
      BY <1>3, <2>2, <3>1
  <2>3. CASE n > 1
    <3>1. n - 1 \in 1..length /\ ~ (n <= 1)
      BY <1>2, <2>1, <2>3
    <3> QED
      BY <1>2, <1>4, <2>1, <2>3, <3>1
  <2> QED
    BY <1>2, <2>1, <2>2, <2>3
<1>7. ASSUME NEW n \in DOMAIN rest
      PROVE  n + 1 \in DOMAIN touched /\ touched[n + 1] = rest[n]
  <2>1. n \in 1..length
    BY <1>2
  <2>2. n + 1 \in 1..(1 + length) /\ ~ (n + 1 <= 1) /\ n + 1 - 1 = n
    BY <1>2, <2>1
  <2>3. PICK k \in DOMAIN touched : k = n + 1 /\ k # 1 /\ k - 1 = n
    BY <1>2, <1>5, <2>1, <2>2
  <2>4. touched[k] = rest[n]
    BY <1>6, <2>3
  <2> QED
    BY <2>3, <2>4
<1>8. 1 \in DOMAIN touched /\ touched[1] = s
  <2>1. 1 \in 1..(1 + length)
    BY <1>2
  <2> QED
    BY <1>3, <1>4, <1>5, <2>1
<1>9. IsInjective(touched)
  <2> SUFFICES ASSUME NEW m \in DOMAIN touched, NEW n \in DOMAIN touched, touched[m] = touched[n]
               PROVE  m = n
    BY DEF IsInjective
  <2>1. m \in Nat /\ n \in Nat
    BY <1>5
  <2>2. CASE m > 1 /\ m - 1 \in DOMAIN rest /\ touched[m] = rest[m - 1]
              /\ n > 1 /\ n - 1 \in DOMAIN rest /\ touched[n] = rest[n - 1]
    <3>1. m - 1 = n - 1
      BY <1>1, <2>2
    <3> QED
      BY <2>1, <3>1
  <2> QED
    BY <1>1, <1>6, <2>2
<1>10. ASSUME NEW n \in DOMAIN touched, touched[n] # s
       PROVE  \E m \in DOMAIN library : m <= n /\ touched[n] = library[m]
  <2>1. n \in Nat /\ n - 1 \in DOMAIN rest /\ touched[n] = rest[n - 1]
    BY <1>5, <1>6, <1>10
  <2>2. PICK m \in DOMAIN library : m <= n - 1 + 1 /\ rest[n - 1] = library[m]
    BY <1>1, <2>1
  <2>3. n - 1 + 1 = n
    BY <2>1
  <2> QED
    BY <2>1, <2>2, <2>3
<1>11. ASSUME NEW m \in DOMAIN library
       PROVE  \E n \in DOMAIN touched : touched[n] = library[m]
  BY <1>1, <1>7, <1>8
<1> QED
  BY <1>4, <1>9, <1>10, <1>11 DEF touched, rest

-----------------------------------------------------------------------------
(* What the invariant says of a state. *)

\* A fresh row is a row.
LEMMA RowOf ==
  ASSUME Typed, NEW s \in Scenes
  PROVE  projection[s] \in RowType \/ (projection[s] = None /\ ~Fresh(s))
BY Constants DEF Typed, Fresh

LEMMA LinksOfMore ==
  ASSUME NEW A, NEW B, NEW p
  PROVE  LinksFor(A \union B, p) = LinksFor(A, p) \union LinksFor(B, p)
BY DEF LinksFor

LEMMA LinksInCatalog ==
  ASSUME NEW A \in SUBSET Scenes, NEW p \in Providers \union {None}
  PROVE  LinksFor(A, p) \subseteq Catalog
BY LinkType, Constants DEF LinksFor

LEMMA TypedImplies == Typed /\ SnapshotLinks => TypeOK
<1> SUFFICES ASSUME Typed, SnapshotLinks PROVE TypeOK
  OBVIOUS
<1>1. library \in SeqOf(Scenes, Cardinality(Scenes))
  <2>1. library \in [1..Len(library) -> Scenes] /\ Len(library) \in 0..Cardinality(Scenes)
    BY LibraryTypes, Constants
  <2> QED
    BY <2>1 DEF SeqOf
<1> QED
  BY <1>1 DEF Typed, SnapshotLinks, TypeOK, PassType, RowType

LEMMA QuietImplies == IInv => QuietPassExact
<1> SUFFICES ASSUME IInv, pass.pc = "wait", snapshot.pc = "done", since = Nothing
             PROVE  ProjectionExact
  BY DEF QuietPassExact
<1>1. ~since.removed /\ ~since.disturbed /\ since.moved = {}
  BY DEF Nothing
<1>2. pass.provider = provider /\ FreshScenes \subseteq InLibrary
      /\ pass.links = LinksFor(FreshScenes, provider)
      /\ \A s \in FreshScenes : projection[s].link = LinkFor(s, provider)
  BY <1>1 DEF IInv, PassLinks
<1>3. InLibrary = FreshScenes
  <2>1. InLibrary \subseteq Scenes
    BY LibraryTypes DEF IInv
  <2> QED
    BY <1>1, <1>2, <2>1 DEF IInv, AllSeen, Stayed, FreshScenes
<1>4. ASSUME NEW s \in Scenes
      PROVE  IF s \in InLibrary
             THEN projection[s] # None /\ projection[s].link = LinkFor(s, provider)
             ELSE projection[s] = None
  <2>1. CASE s \in InLibrary
    BY <1>2, <1>3, <2>1 DEF FreshScenes, Fresh
  <2>2. CASE s \notin InLibrary
    BY <1>3, <2>2 DEF FreshScenes, IInv, UnseenGone
  <2> QED
    BY <2>1, <2>2
<1>5. \A c \in Catalog : available[c] <=> c \in LinksFor(InLibrary, provider)
  BY <1>1, <1>2, <1>3 DEF IInv, SnapshotLinks
<1> QED
  BY <1>4, <1>5 DEF ProjectionExact

-----------------------------------------------------------------------------
LEMMA InitIInv == Init => IInv
<1> SUFFICES ASSUME Init PROVE IInv
  OBVIOUS
<1>1. /\ pass = [pc |-> "idle", page |-> 1, provider |-> None, items |-> <<>>,
                 more |-> FALSE, links |-> {}]
      /\ snapshot = [pc |-> "idle", links |-> {}, lost |-> {}]
      /\ since = [moved |-> {}, removed |-> FALSE, disturbed |-> FALSE]
      /\ refresh = [id |-> None, answer |-> FALSE]
  BY DEF Init, NoPass, NoSnapshot, Nothing, NoRefresh
<1>2. library \in Seq(Scenes) /\ IsInjective(library)
  <2>1. /\ library \in [1..Cardinality(Scenes) -> Scenes]
        /\ \A i, j \in 1..Cardinality(Scenes) : i # j => library[i] # library[j]
    BY DEF Init, SetToSeqs
  <2> QED
    BY <2>1, Constants DEF IsInjective
<1>3. pass \in PassType
  <2>1. <<>> \in SeqOf(Scenes, PageSize)
    <3>1. <<>> \in [1..0 -> Scenes] /\ 0 \in 0..PageSize
      BY Constants
    <3> QED
      BY <3>1 DEF SeqOf
  <2> QED
    BY <1>1, <2>1 DEF PassType
<1>4. Typed
  BY <1>1, <1>2, <1>3, Constants DEF Init, Typed
<1> QED
  BY <1>1, <1>4 DEF IInv, ReadSeen, PageSeen, AllSeen, UnseenGone, PassLinks, SnapshotLinks

\* No pass: nothing is claimed of one.
LEMMA NoPassOK ==
  ASSUME pass'.pc = "idle"
  PROVE  ReadSeen' /\ PageSeen' /\ AllSeen' /\ UnseenGone' /\ PassLinks' /\ SnapshotLinks'
BY DEF ReadSeen, PageSeen, AllSeen, UnseenGone, PassLinks, SnapshotLinks

LEMMA NoPassTyped == NoPass \in PassType /\ NoPass.pc = "idle"
<1>1. <<>> \in [1..0 -> Scenes] /\ 0 \in 0..PageSize
  BY Constants
<1>2. <<>> \in SeqOf(Scenes, PageSize)
  BY <1>1 DEF SeqOf
<1> QED
  BY <1>2 DEF NoPass, PassType

\* A step that leaves the library, its copy, the pass and the history alone keeps what is
\* said of them.
LEMMA PassKept ==
  ASSUME IInv, UNCHANGED <<library, provider, projection, pass, since>>
  PROVE  ReadSeen' /\ PageSeen' /\ AllSeen' /\ UnseenGone' /\ PassLinks'
<1> USE DEF IInv
<1>1. ReadSeen' /\ AllSeen' /\ UnseenGone'
  BY DEF ReadSeen, AllSeen, UnseenGone, Before, Stayed, Fresh, InLibrary, ToSet
<1>2. PageSeen'
  BY DEF PageSeen, Before, Stayed, Fresh, InLibrary, ToSet
<1>3. PassLinks'
  BY DEF PassLinks, FreshScenes, Fresh, LinksFor, LinkFor, InLibrary, ToSet
<1> QED
  BY <1>1, <1>2, <1>3

LEMMA StutterOK == IInv /\ UNCHANGED vars => IInv'
<1> SUFFICES ASSUME IInv, UNCHANGED vars PROVE IInv'
  OBVIOUS
<1> USE DEF vars
<1>1. Typed'
  BY DEF IInv, Typed
<1>2. SnapshotLinks'
  BY DEF IInv, SnapshotLinks
<1> QED
  BY <1>1, <1>2, PassKept DEF IInv

\* A pass begins: no row counts as fresh.
LEMMA StartPassOK == ASSUME IInv, StartPass PROVE IInv'
<1> DEFINE old == [s \in Scenes |-> IF projection[s] = None THEN None
                                    ELSE [projection[s] EXCEPT !.fresh = FALSE]]
<1>1. /\ pass' = [NoPass EXCEPT !.pc = "page", !.provider = provider]
      /\ projection' = old /\ since' = Nothing
      /\ UNCHANGED <<library, stash, provider, available, snapshot, refresh, events>>
  BY DEF StartPass
<1>2. ASSUME NEW s \in Scenes
      PROVE  old[s] = None \/ (old[s] \in RowType /\ old[s].fresh = FALSE)
  <2>1. CASE projection[s] \in RowType
    BY <2>1, Constants DEF RowType
  <2>2. CASE projection[s] = None
    BY <2>2
  <2> QED
    BY <2>1, <2>2, RowOf DEF IInv
<1>3. old \in [Scenes -> RowType \union {None}]
  BY <1>2
<1> HIDE DEF old
<1>4. FreshScenes' = {}
  BY <1>1, <1>2 DEF FreshScenes, Fresh
<1>5. /\ pass' \in PassType /\ pass'.pc = "page" /\ pass'.page = 1
      /\ pass'.provider = provider /\ pass'.links = {}
  <2>1. provider \in Providers \union {None}
    BY DEF IInv, Typed
  <2> QED
    BY <1>1, <2>1, NoPassTyped DEF PassType, NoPass
<1>6. since' \in [moved : SUBSET Scenes, removed : BOOLEAN, disturbed : BOOLEAN]
  BY <1>1 DEF Nothing
<1>7. Typed'
  BY <1>1, <1>3, <1>5, <1>6 DEF IInv, Typed
<1>8. ReadSeen'
  <2>1. \A n \in DOMAIN library : ~ (n <= Before(1))
    <3>1. Before(1) = 0
      BY BeforeProperties
    <3> QED
      BY <3>1, LibraryTypes DEF IInv
  <2> QED
    BY <1>1, <1>5, <2>1 DEF ReadSeen, Before
<1>9. PageSeen' /\ AllSeen' /\ UnseenGone' /\ SnapshotLinks'
  BY <1>5 DEF PageSeen, AllSeen, UnseenGone, SnapshotLinks
<1>10. PassLinks'
  <2>1. LinksFor({}, provider) = {}
    BY DEF LinksFor
  <2>2. LinksFor(FreshScenes, pass.provider)' = LinksFor({}, provider)
    BY <1>4, <1>5 DEF LinksFor, LinkFor
  <2> QED
    BY <1>1, <1>4, <1>5, <2>1, <2>2 DEF PassLinks
<1> QED
  BY <1>7, <1>8, <1>9, <1>10 DEF IInv

\* A page is read: it goes on where the last one ended.
LEMMA ReadPageOK == ASSUME IInv, ReadPage PROVE IInv'
<1> DEFINE page == pass.page
           items == PageOf(page)
           more == page * PageSize < Len(library)
<1>1. /\ pass.pc = "page" /\ pass' = [pass EXCEPT !.pc = "upsert", !.items = items, !.more = more]
      /\ UNCHANGED <<library, stash, provider, projection, available, snapshot, refresh,
                     since, events>>
  BY DEF ReadPage
<1>2. pass \in PassType /\ page \in Nat \ {0}
  BY Constants DEF IInv, Typed, PassType
<1>3. /\ items \in SeqOf(Scenes, PageSize) /\ ToSet(items) \subseteq InLibrary
      /\ \A n \in DOMAIN library : Before(page) < n /\ n <= Before(page + 1) =>
           library[n] \in ToSet(items)
      /\ items = <<>> => ~more
  BY <1>2, PageProperties DEF IInv
<1>4. /\ Before(page) \in Nat /\ Before(page + 1) = page * PageSize
  BY <1>2, BeforeProperties
<1>5. more \in BOOLEAN
  OBVIOUS
<1> HIDE DEF items, more, page
<1>6. /\ pass' \in PassType /\ pass'.pc = "upsert" /\ pass'.page = page /\ pass'.items = items
      /\ pass'.more = more /\ pass'.provider = pass.provider /\ pass'.links = pass.links
  BY <1>1, <1>2, <1>3, <1>5 DEF PassType, page
<1>7. Typed'
  BY <1>1, <1>6 DEF IInv, Typed
<1>8. ReadSeen' /\ AllSeen' /\ UnseenGone' /\ SnapshotLinks'
  BY <1>6 DEF ReadSeen, AllSeen, UnseenGone, SnapshotLinks
<1>9. PageSeen'
  <2>1. ASSUME more PROVE page * PageSize < Cardinality(Scenes)
    <3>1. Len(library) \in Nat /\ Len(library) <= Cardinality(Scenes) /\ page * PageSize \in Nat
      BY <1>2, <1>4, LibraryTypes, BeforeProperties DEF IInv
    <3> QED
      BY <2>1, <3>1, Constants DEF more
  <2>2. ASSUME ~since.removed, NEW n \in DOMAIN library,
               n <= Before(page + 1) \/ ~more, Stayed(library[n])
        PROVE  Fresh(library[n]) \/ library[n] \in ToSet(items)
    <3>1. n \in Nat /\ n <= Len(library) /\ Len(library) \in Nat
      BY LibraryTypes DEF IInv
    <3>2. n <= Before(page + 1)
      <4>1. CASE ~more
        <5>1. Before(page + 1) \in Nat /\ ~ (Before(page + 1) < Len(library))
          BY <1>2, <1>4, <4>1, BeforeProperties DEF more
        <5> QED
          BY <3>1, <5>1
      <4> QED
        BY <2>2, <4>1
    <3>3. CASE n <= Before(page)
      BY <1>1, <2>2, <3>3 DEF IInv, ReadSeen, page
    <3>4. CASE Before(page) < n
      BY <1>3, <3>2, <3>4
    <3> QED
      BY <1>4, <3>1, <3>3, <3>4
  <2> QED
    BY <1>1, <1>3, <1>6, <2>1, <2>2 DEF PageSeen, Before, Stayed, Fresh, InLibrary, ToSet
<1>10. PassLinks'
  BY <1>1, <1>6 DEF IInv, PassLinks, FreshScenes, Fresh, LinksFor, LinkFor, InLibrary, ToSet
<1> QED
  BY <1>7, <1>8, <1>9, <1>10 DEF IInv

\* The rows of a page are written, then comes the next page or the end.
LEMMA UpsertPageOK == ASSUME IInv, UpsertPage PROVE IInv'
<1> DEFINE items == ToSet(pass.items)
           links == pass.links \union LinksFor(items, pass.provider)
           last == ~pass.more \/ pass.items = <<>>
           row(s) == [link |-> LinkFor(s, pass.provider), fresh |-> TRUE]
           written == [s \in Scenes |-> IF s \in items THEN row(s) ELSE projection[s]]
           next == IF last THEN pass.page ELSE pass.page + 1
<1>1. /\ pass.pc = "upsert" /\ projection' = written
      /\ pass' = [pass EXCEPT !.pc = IF last THEN "delete" ELSE "page", !.page = next,
                              !.items = <<>>, !.more = FALSE, !.links = links]
      /\ snapshot' = IF last THEN [NoSnapshot EXCEPT !.pc = "find", !.links = links]
                     ELSE snapshot
      /\ UNCHANGED <<library, stash, provider, available, refresh, since, events>>
  BY DEF UpsertPage
<1>2. /\ pass \in PassType /\ pass.page \in Nat \ {0} /\ pass.page \in {1} \union 1..Cardinality(Scenes)
      /\ pass.provider \in Providers \union {None} /\ pass.links \in SUBSET Catalog
      /\ pass.items \in SeqOf(Scenes, PageSize)
  BY Constants DEF IInv, Typed, PassType
<1>3. items \in SUBSET Scenes
  <2>1. PICK m \in 0..PageSize : pass.items \in [1..m -> Scenes]
    BY <1>2 DEF SeqOf
  <2> QED
    BY <2>1 DEF ToSet
<1>4. links \in SUBSET Catalog
  BY <1>2, <1>3, LinksInCatalog
<1>5. last <=> ~pass.more
  BY <1>1 DEF IInv, PageSeen
<1>6. next \in {1} \union 1..Cardinality(Scenes)
  <2>1. CASE last
    BY <1>2, <2>1
  <2>2. CASE ~last
    <3> DEFINE size == PageSize
               page == pass.page
               count == Cardinality(Scenes)
    <3>1. page * size < count /\ page \in Nat \ {0} /\ size \in Nat \ {0} /\ count \in Nat
      BY <1>1, <1>2, <1>5, <2>2, Constants DEF IInv, PageSeen
    <3>2. page * size = Before(page) + size /\ Before(page) = (page - 1) * size
      BY <3>1, BeforeProperties DEF Before
    <3> HIDE DEF size, page, count
    <3>3. page - 1 <= (page - 1) * size
      <4>1. \A p \in Nat, q \in Nat \ {0} : p <= p * q
        BY SMTT(20)
      <4>2. page - 1 \in Nat
        BY <3>1
      <4> QED
        BY <3>1, <4>1, <4>2
    <3>4. page <= (page - 1) * size + size
      <4>1. (page - 1) * size \in Nat
        <5>1. page - 1 \in Nat
          BY <3>1
        <5> QED
          BY <3>1, <5>1
      <4> QED
        BY <3>1, <3>3, <4>1
    <3>5. page * size = (page - 1) * size + size /\ page * size \in Nat
      BY <3>1, <3>2, BeforeProperties DEF page
    <3>6. page + 1 <= count
      BY <3>1, <3>4, <3>5
    <3>7. page + 1 \in 1..count
      BY <3>1, <3>6
    <3> QED
      BY <2>2, <3>7 DEF page, count
  <2> QED
    BY <2>1, <2>2
<1>7. /\ pass' \in PassType /\ pass'.pc = (IF last THEN "delete" ELSE "page")
      /\ pass'.page = next /\ pass'.links = links /\ pass'.provider = pass.provider
  <2>1. <<>> \in SeqOf(Scenes, PageSize)
    BY NoPassTyped DEF NoPass, PassType
  <2> HIDE DEF next, links, last
  <2> QED
    BY <1>1, <1>2, <1>4, <1>6, <2>1 DEF PassType
<1>8. ASSUME NEW s \in Scenes
      PROVE  /\ s \in items => /\ projection'[s] \in RowType /\ Fresh(s)'
                               /\ projection'[s].link = LinkFor(s, pass.provider)
             /\ s \notin items => projection'[s] = projection[s] /\ Fresh(s)' = Fresh(s)
  <2>1. CASE s \in items
    <3>1. projection'[s] = row(s)
      BY <1>1, <2>1
    <3>2. row(s) \in RowType
      BY <1>2, LinkType DEF RowType
    <3>3. row(s) # None /\ row(s).fresh /\ row(s).link = LinkFor(s, pass.provider)
      BY <3>2, Constants
    <3> HIDE DEF row, items
    <3> QED
      BY <2>1, <3>1, <3>2, <3>3 DEF Fresh
  <2>2. CASE s \notin items
    BY <1>1, <2>2 DEF Fresh
  <2> QED
    BY <2>1, <2>2
<1>9. FreshScenes' = FreshScenes \union items
  <2> HIDE DEF items
  <2> QED
    BY <1>3, <1>8 DEF FreshScenes
<1>10. Typed'
  <2>1. \A s \in Scenes : projection'[s] \in RowType \union {None}
    BY <1>8 DEF IInv, Typed
  <2>2. projection' \in [Scenes -> RowType \union {None}]
    BY <1>1, <2>1
  <2>3. snapshot' \in [pc : {"idle", "find", "apply", "done"}, links : SUBSET Catalog,
                       lost : SUBSET Catalog]
    <3>1. CASE last
      <4>1. snapshot' = [NoSnapshot EXCEPT !.pc = "find", !.links = links]
        BY <1>1, <3>1
      <4> HIDE DEF links
      <4> QED
        BY <1>4, <4>1 DEF NoSnapshot
    <3>2. CASE ~last
      BY <1>1, <3>2 DEF IInv, Typed
    <3> QED
      BY <3>1, <3>2
  <2> QED
    BY <1>1, <1>7, <2>2, <2>3 DEF IInv, Typed
<1> HIDE DEF items, links, last, next, written
<1>11. /\ ~since.removed => items \subseteq InLibrary
       /\ ~since.removed => \A n \in DOMAIN library :
            (n <= Before(pass.page + 1) \/ ~pass.more) /\ Stayed(library[n]) =>
              Fresh(library[n]) \/ library[n] \in items
  BY <1>1 DEF IInv, PageSeen, items
<1>12. ASSUME ~since.removed, NEW n \in DOMAIN library, Stayed(library[n]),
              n <= Before(pass.page + 1) \/ ~pass.more
       PROVE  Fresh(library[n])'
  <2>1. Fresh(library[n]) \/ library[n] \in items
    BY <1>11, <1>12
  <2>2. library[n] \in Scenes
    BY LibraryTypes DEF IInv
  <2>3. Fresh(library[n])' <=> projection'[library[n]] # None /\ projection'[library[n]].fresh
    BY <1>1 DEF Fresh
  <2> QED
    BY <1>8, <2>1, <2>2, <2>3 DEF Fresh
<1>13. ReadSeen'
  <2>1. ASSUME ~last PROVE next = pass.page + 1
    BY <2>1 DEF next
  <2> QED
    BY <1>1, <1>7, <1>12, <2>1 DEF ReadSeen, Before, Stayed, Fresh
<1>14. PageSeen' /\ UnseenGone'
  BY <1>7 DEF PageSeen, UnseenGone
<1>15. AllSeen'
  <2>1. ASSUME last, ~since.removed, NEW s \in InLibrary, Stayed(s)
        PROVE  projection'[s] # None /\ projection'[s].fresh
    <3>1. PICK n \in DOMAIN library : library[n] = s
      BY DEF InLibrary, ToSet
    <3> QED
      BY <1>1, <1>5, <1>12, <2>1, <3>1 DEF Fresh
  <2> QED
    BY <1>1, <1>7, <2>1 DEF AllSeen, Stayed, Fresh, InLibrary, ToSet
<1>16. PassLinks'
  <2>1. /\ pass.links = LinksFor(FreshScenes, pass.provider)
        /\ \A s \in FreshScenes : projection[s].link = LinkFor(s, pass.provider)
        /\ ~since.removed => FreshScenes \subseteq InLibrary
        /\ ~since.disturbed => pass.provider = provider
    BY <1>1 DEF IInv, PassLinks
  <2>2. links = LinksFor(FreshScenes \union items, pass.provider)
    BY <2>1, LinksOfMore DEF links
  <2>3. \A s \in FreshScenes \union items : projection'[s].link = LinkFor(s, pass.provider)
    BY <1>3, <1>8, <2>1 DEF FreshScenes
  <2>4. ~since.removed => FreshScenes \union items \subseteq InLibrary
    BY <1>11, <2>1
  <2>5. LinksFor(FreshScenes, pass.provider)' = LinksFor(FreshScenes \union items, pass.provider)
    BY <1>7, <1>9 DEF LinksFor, LinkFor
  <2>6. pass'.links = LinksFor(FreshScenes, pass.provider)'
    BY <1>7, <2>2, <2>5
  <2>7. \A s \in FreshScenes' : projection'[s].link = LinkFor(s, pass'.provider)
    BY <1>7, <1>9, <2>3
  <2>8. InLibrary' = InLibrary
    BY <1>1 DEF InLibrary, ToSet
  <2> QED
    BY <1>1, <1>7, <1>9, <2>1, <2>4, <2>6, <2>7, <2>8 DEF PassLinks, LinkFor
<1>17. SnapshotLinks'
  <2>1. ASSUME last PROVE snapshot'.pc = "find" /\ snapshot'.links = links
    BY <1>1, <2>1 DEF NoSnapshot
  <2> QED
    BY <1>7, <2>1 DEF SnapshotLinks
<1> QED
  BY <1>10, <1>13, <1>14, <1>15, <1>16, <1>17 DEF IInv

\* The rows that the pass has not seen are deleted.
LEMMA DeleteUnseenOK == ASSUME IInv, DeleteUnseen PROVE IInv'
<1> DEFINE kept == [s \in Scenes |-> IF Fresh(s) THEN projection[s] ELSE None]
<1>1. /\ pass.pc = "delete" /\ projection' = kept /\ pass' = [pass EXCEPT !.pc = "wait"]
      /\ UNCHANGED <<library, stash, provider, available, snapshot, refresh, since, events>>
  BY DEF DeleteUnseen, Unseen
<1>2. /\ pass' \in PassType /\ pass'.pc = "wait" /\ pass'.links = pass.links
      /\ pass'.provider = pass.provider
  BY <1>1 DEF IInv, Typed, PassType
<1>3. ASSUME NEW s \in Scenes
      PROVE  /\ kept[s] \in RowType \union {None}
             /\ (kept[s] = None \/ kept[s].fresh)
             /\ Fresh(s)' <=> Fresh(s)
             /\ Fresh(s) => kept[s] = projection[s]
  BY <1>1 DEF IInv, Typed, Fresh
<1>4. kept \in [Scenes -> RowType \union {None}]
  BY <1>3
<1> HIDE DEF kept
<1>5. Typed'
  BY <1>1, <1>2, <1>4 DEF IInv, Typed
<1>6. ReadSeen' /\ PageSeen'
  BY <1>2 DEF ReadSeen, PageSeen
<1>7. InLibrary' = InLibrary /\ InLibrary \subseteq Scenes
  BY <1>1, LibraryTypes DEF IInv, InLibrary, ToSet
<1>8. AllSeen'
  <2>1. ~since.removed => \A s \in InLibrary : Stayed(s) => Fresh(s)
    BY <1>1 DEF IInv, AllSeen
  <2> QED
    BY <1>1, <1>3, <1>7, <2>1 DEF AllSeen, Stayed, Fresh
<1>9. UnseenGone'
  BY <1>1, <1>3 DEF UnseenGone, Fresh
<1>10. FreshScenes' = FreshScenes
  BY <1>3 DEF FreshScenes
<1>11. PassLinks'
  <2>1. LinksFor(FreshScenes, pass.provider)' = LinksFor(FreshScenes, pass.provider)
    BY <1>2, <1>10 DEF LinksFor, LinkFor
  <2>2. \A s \in FreshScenes : projection'[s].link = LinkFor(s, pass.provider)
    BY <1>1, <1>3 DEF IInv, PassLinks, FreshScenes
  <2>3. \A s \in Scenes : LinkFor(s, pass.provider)' = LinkFor(s, pass.provider)
    BY <1>2 DEF LinkFor
  <2> QED
    BY <1>1, <1>2, <1>7, <1>10, <2>1, <2>2, <2>3 DEF IInv, PassLinks, LinkFor
<1>12. SnapshotLinks'
  BY <1>1, <1>2 DEF IInv, SnapshotLinks
<1> QED
  BY <1>5, <1>6, <1>8, <1>9, <1>11, <1>12 DEF IInv

\* Which rows are to be reset is found out: the links of the pass are left.
LEMMA FindAvailableOK == ASSUME IInv, FindAvailable PROVE IInv'
<1> DEFINE lost == {c \in Catalog : available[c]} \ snapshot.links
<1>1. /\ snapshot.pc = "find" /\ snapshot' = [snapshot EXCEPT !.pc = "apply", !.lost = lost]
      /\ UNCHANGED <<library, stash, provider, projection, available, pass, refresh, since, events>>
  BY DEF FindAvailable
<1>2. lost \in SUBSET Catalog
  OBVIOUS
<1>3. snapshot \in [pc : {"idle", "find", "apply", "done"}, links : SUBSET Catalog,
                    lost : SUBSET Catalog]
  BY DEF IInv, Typed
<1> HIDE DEF lost
<1>4. /\ snapshot' \in [pc : {"idle", "find", "apply", "done"}, links : SUBSET Catalog,
                        lost : SUBSET Catalog]
      /\ snapshot'.pc = "apply" /\ snapshot'.links = snapshot.links /\ snapshot'.lost = lost
  BY <1>1, <1>2, <1>3
<1>5. Typed'
  BY <1>1, <1>4 DEF IInv, Typed
<1>6. lost' = {c \in Catalog : available'[c]} \ snapshot'.links /\ lost' = lost
  BY <1>1, <1>4 DEF lost
<1>7. SnapshotLinks'
  <2>1. snapshot'.lost = {c \in Catalog : available'[c]} \ snapshot'.links
    BY <1>4, <1>6
  <2>2. pass.pc \in {"delete", "wait"} => snapshot.links = pass.links
    BY DEF IInv, SnapshotLinks
  <2> QED
    BY <1>1, <1>4, <2>1, <2>2 DEF SnapshotLinks
<1> QED
  BY <1>1, <1>5, <1>7, PassKept DEF IInv

\* The patches are written: what is available then are the links, and what became
\* available in between, unless nothing did.
LEMMA ApplyAvailabilityOK == ASSUME IInv, ApplyAvailability PROVE IInv'
<1> DEFINE patched == [c \in Catalog |-> \/ c \in snapshot.links
                                         \/ available[c] /\ c \notin snapshot.lost]
<1>1. /\ snapshot.pc = "apply" /\ snapshot' = [snapshot EXCEPT !.pc = "done"]
      /\ available' = patched
      /\ UNCHANGED <<library, stash, provider, projection, pass, refresh, since, events>>
  BY DEF ApplyAvailability
<1>2. snapshot \in [pc : {"idle", "find", "apply", "done"}, links : SUBSET Catalog,
                    lost : SUBSET Catalog]
  BY DEF IInv, Typed
<1>3. /\ snapshot' \in [pc : {"idle", "find", "apply", "done"}, links : SUBSET Catalog,
                        lost : SUBSET Catalog]
      /\ snapshot'.pc = "done" /\ snapshot'.links = snapshot.links
  BY <1>1, <1>2
<1>4. patched \in [Catalog -> BOOLEAN]
  BY DEF IInv, Typed
<1>5. \A c \in Catalog :
        patched[c] <=> c \in snapshot.links \/ (available[c] /\ c \notin snapshot.lost)
  OBVIOUS
<1> HIDE DEF patched
<1>6. Typed'
  BY <1>1, <1>3, <1>4 DEF IInv, Typed
<1>7. SnapshotLinks'
  <2>1. ASSUME pass.pc \in {"delete", "wait"}, ~since.disturbed, NEW c \in Catalog
        PROVE  patched[c] <=> c \in snapshot.links
    BY <1>1, <1>5, <2>1 DEF IInv, SnapshotLinks
  <2> QED
    BY <1>1, <1>3, <2>1 DEF IInv, SnapshotLinks
<1> QED
  BY <1>1, <1>6, <1>7, PassKept DEF IInv

\* A deletion that is left takes away rows that the pass has not seen, or nothing.
LEMMA DeletionLeftOK ==
  ASSUME Typed, DeletionLeft
  PROVE  /\ projection' \in [Scenes -> RowType \union {None}]
         /\ pass.pc # "delete" => projection' = projection
         /\ \A s \in Scenes : Fresh(s) => projection'[s] = projection[s]
<1>1. CASE projection' = projection
  BY <1>1 DEF Typed
<1>2. CASE pass.pc = "delete" /\ projection' = Unseen
  <2>1. \A s \in Scenes : Unseen[s] \in RowType \union {None} /\ (Fresh(s) => Unseen[s] = projection[s])
    BY DEF Typed, Unseen
  <2>2. Unseen \in [Scenes -> RowType \union {None}]
    BY <2>1 DEF Unseen
  <2> QED
    BY <1>2, <2>1, <2>2
<1> QED
  BY <1>1, <1>2 DEF DeletionLeft

\* The pass ends, whether it is done or something fails.
LEMMA EndPassOK ==
  ASSUME IInv, FinishPass \/ PassFails
  PROVE  IInv'
<1>1. /\ pass' = NoPass /\ snapshot' \in {snapshot, NoSnapshot}
      /\ events' \in {events, events + 1} /\ events' \in {events} \union 1..MaxEvents
      /\ projection' \in [Scenes -> RowType \union {None}]
      /\ UNCHANGED <<library, stash, provider, available, refresh, since>>
  <2>1. events \in 0..MaxEvents /\ MaxEvents \in Nat
    BY Constants DEF IInv, Typed
  <2>2. projection' = projection \/ DeletionLeft
    BY DEF FinishPass, PassFails
  <2>3. projection' \in [Scenes -> RowType \union {None}]
    BY <2>2, DeletionLeftOK DEF IInv, Typed
  <2> QED
    BY <2>1, <2>3 DEF FinishPass, PassFails, Happens
<1>2. NoSnapshot \in [pc : {"idle", "find", "apply", "done"}, links : SUBSET Catalog,
                      lost : SUBSET Catalog]
  BY DEF NoSnapshot
<1>3. events' \in 0..MaxEvents
  BY <1>1, Constants DEF IInv, Typed
<1>4. Typed'
  BY <1>1, <1>2, <1>3, NoPassTyped DEF IInv, Typed
<1> QED
  BY <1>1, <1>4, NoPassOK, NoPassTyped DEF IInv

\* The snapshot of a pass ends, and the pass with it, or that of an earlier pass does.
LEMMA SnapshotEndsOK ==
  ASSUME IInv, SnapshotFails \/ StragglerEnds
  PROVE  IInv'
<1>1. /\ snapshot' = NoSnapshot /\ events' \in {events} \union 1..MaxEvents
      /\ pass' = (IF pass.pc \in {"delete", "wait"} THEN NoPass ELSE pass)
      /\ projection' \in [Scenes -> RowType \union {None}]
      /\ pass.pc # "delete" => projection' = projection
      /\ UNCHANGED <<library, stash, provider, available, refresh, since>>
  <2>1. events \in 0..MaxEvents /\ MaxEvents \in Nat
    BY Constants DEF IInv, Typed
  <2>2. projection' = projection \/ DeletionLeft
    BY DEF SnapshotFails, StragglerEnds
  <2>3. /\ projection' \in [Scenes -> RowType \union {None}]
        /\ pass.pc # "delete" => projection' = projection
    BY <2>2, DeletionLeftOK DEF IInv, Typed
  <2> QED
    BY <2>1, <2>3 DEF SnapshotFails, StragglerEnds, Happens
<1>2. NoSnapshot \in [pc : {"idle", "find", "apply", "done"}, links : SUBSET Catalog,
                      lost : SUBSET Catalog]
  BY DEF NoSnapshot
<1>3. events' \in 0..MaxEvents
  BY <1>1, Constants DEF IInv, Typed
<1>4. Typed'
  BY <1>1, <1>2, <1>3, NoPassTyped DEF IInv, Typed
<1>5. CASE pass.pc \in {"delete", "wait"}
  BY <1>1, <1>4, <1>5, NoPassOK, NoPassTyped DEF IInv
<1>6. CASE pass.pc \notin {"delete", "wait"}
  <2>1. SnapshotLinks'
    BY <1>1, <1>6 DEF SnapshotLinks
  <2> QED
    BY <1>1, <1>4, <1>6, <2>1, PassKept DEF IInv
<1> QED
  BY <1>5, <1>6

\* One scene is looked up: nothing else changes yet.
LEMMA LookupOK == ASSUME IInv, NEW c \in Catalog, Lookup(c) PROVE IInv'
<1>1. /\ refresh' = [id |-> c, answer |-> Found(c)]
      /\ events < MaxEvents /\ events' = events + 1
      /\ UNCHANGED <<library, stash, provider, projection, available, pass, snapshot, since>>
  BY DEF Lookup, Happens
<1>2. Found(c) \in BOOLEAN
  BY DEF Found
<1>3. events' \in 0..MaxEvents
  BY <1>1, Constants DEF IInv, Typed
<1>4. refresh' \in [id : Catalog \union {None}, answer : BOOLEAN]
  BY <1>1, <1>2
<1>5. Typed'
  BY <1>1, <1>3, <1>4 DEF IInv, Typed
<1>6. SnapshotLinks'
  BY <1>1 DEF IInv, SnapshotLinks
<1> QED
  BY <1>1, <1>5, <1>6, PassKept DEF IInv

\* The single scene is patched, or the integrations change: either disturbs the pass,
\* and leaves the library and its copy alone.
LEMMA DisturbedKeeps ==
  ASSUME IInv, since' = [since EXCEPT !.disturbed = TRUE],
         UNCHANGED <<library, projection, pass, snapshot>>
  PROVE  /\ ReadSeen' /\ PageSeen' /\ AllSeen' /\ UnseenGone' /\ PassLinks' /\ SnapshotLinks'
         /\ since' \in [moved : SUBSET Scenes, removed : BOOLEAN, disturbed : BOOLEAN]
<1>1. /\ since' \in [moved : SUBSET Scenes, removed : BOOLEAN, disturbed : BOOLEAN]
      /\ since'.moved = since.moved /\ since'.removed = since.removed /\ since'.disturbed
  BY DEF IInv, Typed
<1>2. ReadSeen' /\ AllSeen' /\ UnseenGone'
  BY <1>1 DEF IInv, ReadSeen, AllSeen, UnseenGone, Before, Stayed, Fresh, InLibrary, ToSet
<1>3. PageSeen'
  BY <1>1 DEF IInv, PageSeen, Before, Stayed, Fresh, InLibrary, ToSet
<1>4. PassLinks'
  BY <1>1 DEF IInv, PassLinks, FreshScenes, Fresh, LinksFor, LinkFor, InLibrary, ToSet
<1>5. SnapshotLinks'
  BY <1>1 DEF IInv, SnapshotLinks
<1> QED
  BY <1>1, <1>2, <1>3, <1>4, <1>5

LEMMA ApplyRefreshOK == ASSUME IInv, ApplyRefresh PROVE IInv'
<1>1. /\ available' = [available EXCEPT ![refresh.id] = refresh.answer]
      /\ refresh' = NoRefresh /\ since' = [since EXCEPT !.disturbed = TRUE]
      /\ UNCHANGED <<library, stash, provider, projection, pass, snapshot, events>>
  BY DEF ApplyRefresh
<1>2. available' \in [Catalog -> BOOLEAN]
  BY <1>1 DEF IInv, Typed
<1>3. refresh' \in [id : Catalog \union {None}, answer : BOOLEAN]
  BY <1>1 DEF NoRefresh
<1>4. Typed'
  BY <1>1, <1>2, <1>3, DisturbedKeeps DEF IInv, Typed
<1> QED
  BY <1>1, <1>4, DisturbedKeeps DEF IInv

LEMMA ConfigureOK == ASSUME IInv, Configure PROVE IInv'
<1>1. /\ stash' \in BOOLEAN /\ provider' \in Providers \union {None}
      /\ events < MaxEvents /\ events' = events + 1
      /\ since' = [since EXCEPT !.disturbed = TRUE]
      /\ UNCHANGED <<library, projection, available, pass, snapshot, refresh>>
  BY DEF IInv, Typed, Configure, Happens
<1>2. events' \in 0..MaxEvents
  BY <1>1, Constants DEF IInv, Typed
<1>3. Typed'
  BY <1>1, <1>2, DisturbedKeeps DEF IInv, Typed
<1> QED
  BY <1>1, <1>3, DisturbedKeeps DEF IInv

LEMMA RestartOK == ASSUME IInv, Restart PROVE IInv'
<1>1. /\ pass' = NoPass /\ snapshot' = NoSnapshot /\ refresh' = NoRefresh
      /\ events < MaxEvents /\ events' = events + 1
      /\ projection' \in [Scenes -> RowType \union {None}]
      /\ UNCHANGED <<library, stash, provider, available, since>>
  BY DeletionLeftOK DEF IInv, Restart, Happens
<1>2. events' \in 0..MaxEvents
  BY <1>1, Constants DEF IInv, Typed
<1>3. Typed'
  BY <1>1, <1>2, NoPassTyped DEF IInv, Typed, NoSnapshot, NoRefresh
<1> QED
  BY <1>1, <1>3, NoPassOK, NoPassTyped DEF IInv

\* A scene is updated: it comes first, and is not counted on any more.  No other scene
\* moves up, so none comes to stand before a page that has been read.
LEMMA TouchOK == ASSUME IInv, NEW s \in Scenes, Touch(s) PROVE IInv'
<1> DEFINE touched == <<s>> \o Without(s)
<1>1. /\ library' = touched
      /\ since' = [since EXCEPT !.moved = since.moved \union {s}]
      /\ events < MaxEvents /\ events' = events + 1
      /\ UNCHANGED <<stash, provider, projection, available, pass, snapshot, refresh>>
  BY DEF Touch, Happens
<1>2. /\ touched \in Seq(Scenes) /\ IsInjective(touched)
      /\ \A n \in DOMAIN touched :
           touched[n] # s => \E m \in DOMAIN library : m <= n /\ touched[n] = library[m]
      /\ \A m \in DOMAIN library : \E n \in DOMAIN touched : touched[n] = library[m]
  BY TouchProperties DEF IInv
<1> HIDE DEF touched
<1>3. /\ since' \in [moved : SUBSET Scenes, removed : BOOLEAN, disturbed : BOOLEAN]
      /\ since'.moved = since.moved \union {s} /\ since'.removed = since.removed
      /\ since'.disturbed = since.disturbed
  BY <1>1 DEF IInv, Typed
<1>4. events' \in 0..MaxEvents
  BY <1>1, Constants DEF IInv, Typed
<1>5. Typed'
  BY <1>1, <1>2, <1>3, <1>4 DEF IInv, Typed
<1>6. ASSUME NEW n \in DOMAIN library', library'[n] \notin since'.moved
      PROVE  \E m \in DOMAIN library :
               m \in Nat /\ n \in Nat /\ m <= n /\ library'[n] = library[m] /\ Stayed(library[m])
  <2>1. PICK m \in DOMAIN library : m <= n /\ library'[n] = library[m]
    BY <1>1, <1>2, <1>3, <1>6
  <2>2. m \in Nat /\ n \in Nat
    BY <1>1, <1>2, LibraryTypes DEF IInv
  <2> QED
    BY <1>3, <1>6, <2>1, <2>2 DEF Stayed
<1>7. InLibrary \subseteq InLibrary'
  BY <1>1, <1>2 DEF InLibrary, ToSet
<1>8. pass \in PassType /\ pass.page \in Nat \ {0} /\ Before(pass.page) \in Nat
      /\ Before(pass.page + 1) \in Nat
  <2>1. pass \in PassType /\ pass.page \in Nat \ {0}
    BY Constants DEF IInv, Typed, PassType
  <2>2. /\ Before(pass.page) \in Nat /\ Before(pass.page + 1) = Before(pass.page) + PageSize
        /\ PageSize \in Nat
    BY <2>1, BeforeProperties, Constants
  <2>3. \A m, n \in Nat : m + n \in Nat
    OBVIOUS
  <2> QED
    BY <2>1, <2>2, <2>3
<1>9. ReadSeen'
  <2>1. ASSUME pass.pc = "page", ~since.removed, NEW n \in DOMAIN library',
               n <= Before(pass.page), library'[n] \notin since'.moved
        PROVE  projection[library'[n]] # None /\ projection[library'[n]].fresh
    <3>1. PICK m \in DOMAIN library : /\ m \in Nat /\ n \in Nat /\ m <= n
                                      /\ library'[n] = library[m] /\ Stayed(library[m])
      BY <1>6, <2>1
    <3>2. m <= Before(pass.page)
      BY <1>8, <2>1, <3>1
    <3> QED
      BY <2>1, <3>1, <3>2 DEF IInv, ReadSeen, Fresh
  <2> QED
    BY <1>1, <1>3, <2>1 DEF ReadSeen, Before, Stayed, Fresh
<1>10. PageSeen'
  <2>1. ASSUME pass.pc = "upsert", ~since.removed, NEW n \in DOMAIN library',
               n <= Before(pass.page + 1) \/ ~pass.more, library'[n] \notin since'.moved
        PROVE  \/ projection[library'[n]] # None /\ projection[library'[n]].fresh
               \/ library'[n] \in ToSet(pass.items)
    <3>1. PICK m \in DOMAIN library : /\ m \in Nat /\ n \in Nat /\ m <= n
                                      /\ library'[n] = library[m] /\ Stayed(library[m])
      BY <1>6, <2>1
    <3>2. m <= Before(pass.page + 1) \/ ~pass.more
      BY <1>8, <2>1, <3>1
    <3> QED
      BY <2>1, <3>1, <3>2 DEF IInv, PageSeen, Fresh
  <2>2. ASSUME pass.pc = "upsert"
        PROVE  /\ pass.items = <<>> => ~pass.more
               /\ pass.more => pass.page * PageSize < Cardinality(Scenes)
               /\ ~since.removed => ToSet(pass.items) \subseteq InLibrary'
    BY <1>7, <2>2 DEF IInv, PageSeen
  <2> QED
    BY <1>1, <1>3, <2>1, <2>2 DEF PageSeen, Before, Stayed, Fresh, ToSet
<1>11. AllSeen'
  <2>1. ASSUME pass.pc \in {"delete", "wait"}, ~since.removed, NEW n \in DOMAIN library',
               library'[n] \notin since'.moved
        PROVE  projection[library'[n]] # None /\ projection[library'[n]].fresh
    <3>1. PICK m \in DOMAIN library : library'[n] = library[m] /\ Stayed(library[m])
      BY <1>6, <2>1
    <3> QED
      BY <2>1, <3>1 DEF IInv, AllSeen, InLibrary, ToSet, Fresh
  <2> QED
    BY <1>1, <1>3, <2>1 DEF AllSeen, Stayed, Fresh, InLibrary, ToSet
<1>12. UnseenGone'
  BY <1>1 DEF IInv, UnseenGone, Fresh
<1>13. PassLinks'
  <2>1. FreshScenes' = FreshScenes
    BY <1>1 DEF FreshScenes, Fresh
  <2>2. LinksFor(FreshScenes, pass.provider)' = LinksFor(FreshScenes, pass.provider)
    BY <1>1, <2>1 DEF LinksFor, LinkFor
  <2> QED
    BY <1>1, <1>3, <1>7, <2>1, <2>2 DEF IInv, PassLinks, LinkFor
<1>14. SnapshotLinks'
  BY <1>1, <1>3 DEF IInv, SnapshotLinks
<1> QED
  BY <1>5, <1>9, <1>10, <1>11, <1>12, <1>13, <1>14 DEF IInv

\* A scene is removed: the pass may miss others, and is not counted on any more.
LEMMA RemoveSceneOK == ASSUME IInv, NEW s \in Scenes, RemoveScene(s) PROVE IInv'
<1>1. /\ library' = Without(s) /\ since' = [since EXCEPT !.removed = TRUE]
      /\ events < MaxEvents /\ events' = events + 1
      /\ UNCHANGED <<stash, provider, projection, available, pass, snapshot, refresh>>
  BY DEF RemoveScene, Happens
<1>2. library' \in Seq(Scenes) /\ IsInjective(library')
  BY <1>1, WithoutProperties DEF IInv
<1>3. /\ since' \in [moved : SUBSET Scenes, removed : BOOLEAN, disturbed : BOOLEAN]
      /\ since'.removed /\ since'.disturbed = since.disturbed
  BY <1>1 DEF IInv, Typed
<1>4. events' \in 0..MaxEvents
  BY <1>1, Constants DEF IInv, Typed
<1>5. Typed'
  BY <1>1, <1>2, <1>3, <1>4 DEF IInv, Typed
<1>6. ReadSeen' /\ AllSeen'
  BY <1>3 DEF ReadSeen, AllSeen
<1>7. PageSeen'
  BY <1>1, <1>3 DEF IInv, PageSeen
<1>8. UnseenGone'
  BY <1>1 DEF IInv, UnseenGone, Fresh
<1>9. PassLinks'
  <2>1. FreshScenes' = FreshScenes
    BY <1>1 DEF FreshScenes, Fresh
  <2>2. LinksFor(FreshScenes, pass.provider)' = LinksFor(FreshScenes, pass.provider)
    BY <1>1, <2>1 DEF LinksFor, LinkFor
  <2> QED
    BY <1>1, <1>3, <2>1, <2>2 DEF IInv, PassLinks, LinkFor
<1>10. SnapshotLinks'
  BY <1>1, <1>3 DEF IInv, SnapshotLinks
<1> QED
  BY <1>5, <1>6, <1>7, <1>8, <1>9, <1>10 DEF IInv

-----------------------------------------------------------------------------
LEMMA NextIInv == IInv /\ [Next]_vars => IInv'
<1> SUFFICES ASSUME IInv, [Next]_vars PROVE IInv'
  OBVIOUS
<1>1. CASE StartPass
  BY <1>1, StartPassOK
<1>2. CASE SyncStep
  BY <1>2, ReadPageOK, UpsertPageOK, DeleteUnseenOK, EndPassOK DEF SyncStep
<1>3. CASE SnapshotStep
  BY <1>3, FindAvailableOK, ApplyAvailabilityOK, SnapshotEndsOK DEF SnapshotStep
<1>4. CASE PassFails
  BY <1>4, EndPassOK
<1>5. CASE SnapshotFails
  BY <1>5, SnapshotEndsOK
<1>6. CASE \E c \in Catalog : Lookup(c)
  BY <1>6, LookupOK
<1>7. CASE ApplyRefresh
  BY <1>7, ApplyRefreshOK
<1>8. CASE \E s \in Scenes : Touch(s) \/ RemoveScene(s)
  BY <1>8, TouchOK, RemoveSceneOK
<1>9. CASE Configure
  BY <1>9, ConfigureOK
<1>10. CASE Restart
  BY <1>10, RestartOK
<1>11. CASE UNCHANGED vars
  BY <1>11, StutterOK
<1> QED
  BY <1>1, <1>2, <1>3, <1>4, <1>5, <1>6, <1>7, <1>8, <1>9, <1>10, <1>11 DEF Next

\* The invariant behind the theorems below: pages leave nothing out but what moved, and
\* rows, links and snapshot are what the pass has read.
THEOREM Invariant == Spec => []IInv
BY InitIInv, NextIInv, PTL DEF Spec

\* The copy of the library, the running pass and its snapshot always have their types, a
\* pass never reads a page behind the last scene that Stash could have, and whoever waits
\* for the snapshot has one to wait for.
THEOREM Typing == Spec => []TypeOK
<1>1. IInv => TypeOK
  BY TypedImplies DEF IInv
<1> QED
  BY <1>1, Invariant, PTL

\* A pass that nobody disturbed leaves exact copies (performLibraryProjectionSync), for
\* every library, order and page size, whatever earlier passes left behind.
THEOREM QuietPassIsExact == Spec => []QuietPassExact
BY QuietImplies, Invariant, PTL

\* The row of a scene that is in Stash is only deleted (deleteMany by lastSyncedAt) when
\* that scene was updated, or some scene removed, while the pages were read.
THEOREM OnlyShiftedVanish == Spec => OnlyShiftedRowsVanish
<1>1. IInv /\ [Next]_vars =>
        [\A s \in InLibrary :
           (projection[s] # None /\ projection'[s] = None) => s \in since.moved \/ since.removed]_vars
  <2> SUFFICES ASSUME IInv, Next, NEW s \in InLibrary, projection[s] # None, projection'[s] = None
               PROVE  s \in since.moved \/ since.removed
    BY DEF vars
  <2>1. s \in Scenes
    BY LibraryTypes DEF IInv
  <2>2. CASE StartPass
    <3>1. projection[s] \in RowType
      BY <2>1, RowOf DEF IInv
    <3>2. projection'[s] = [projection[s] EXCEPT !.fresh = FALSE]
      BY <2>1, <2>2 DEF StartPass
    <3>3. projection'[s] \in RowType
      BY <3>1, <3>2 DEF RowType
    <3> QED
      BY <3>3, Constants
  <2>3. CASE UpsertPage
    <3>1. pass.provider \in Providers \union {None}
      BY DEF IInv, Typed, PassType
    <3>2. [link |-> LinkFor(s, pass.provider), fresh |-> TRUE] \in RowType
      BY <2>1, <3>1, LinkType DEF RowType
    <3>3. projection'[s] \in {projection[s], [link |-> LinkFor(s, pass.provider), fresh |-> TRUE]}
      BY <2>1, <2>3 DEF UpsertPage
    <3> QED
      BY <3>2, <3>3, Constants
  <2>4. CASE pass.pc = "delete" /\ projection' = Unseen
    <3>1. ~Fresh(s)
      BY <2>1, <2>4 DEF Unseen
    <3> QED
      BY <2>4, <3>1 DEF IInv, AllSeen, Stayed
  <2>5. CASE projection' = projection
    BY <2>5
  <2>6. \/ StartPass \/ UpsertPage \/ (pass.pc = "delete" /\ projection' = Unseen)
        \/ projection' = projection
    BY DEF Next, SyncStep, SnapshotStep, ReadPage, DeleteUnseen, DeletionLeft, FinishPass,
           FindAvailable, ApplyAvailability,
           StragglerEnds, PassFails, SnapshotFails, Lookup, ApplyRefresh, Touch, RemoveScene,
           Configure, Restart
  <2> QED
    BY <2>2, <2>3, <2>4, <2>5, <2>6
<1> QED
  BY <1>1, Invariant, PTL DEF Spec, OnlyShiftedRowsVanish

===============================================================================
