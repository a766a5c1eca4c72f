-------------------------- MODULE GalleryViewProofs --------------------------
(* What holds of the archives and of the page of GalleryView for any number of   *)
(* items, pages, moderations and failures.                                      *)
EXTENDS GalleryView, SequenceTheorems, FiniteSetTheorems, TLAPS

(* The archives.                                                              *)

\* Nothing that could be read all along was dropped: it is still to be streamed or in the
\* archive; and an archive is closed when nothing is left to stream.
ZipInv ==
    /\ zip = [pc |-> zip.pc, todo |-> zip.todo, archive |-> zip.archive]
    /\ kept \subseteq zip.todo \cup zip.archive
    /\ zip.pc = "saved" => zip.todo = {}

LEMMA ZipInit == Init => ZipInv
BY DEF Init, ZipInv, NoZip

\* The steps of the page, and of others, take items from `kept` and leave the archive alone.
LEMMA ElsewhereStep ==
  ASSUME ZipInv, kept' \subseteq kept, UNCHANGED zip
  PROVE  ZipInv'
BY DEF ZipInv

LEMMA ZipStep == ZipInv /\ [Next]_vars => ZipInv'
<1> SUFFICES ASSUME ZipInv, [Next]_vars PROVE ZipInv'
  OBVIOUS
<1>1. ASSUME NEW x \in Items, Appears(x) \/ SetVisibility(x) \/ Erase(x) \/ DeleteRow(x)
      PROVE  ZipInv'
  BY <1>1, ElsewhereStep DEF Appears, SetVisibility, Erase, DeleteRow
<1>2. ASSUME Poll \/ Tick \/ LoadMore \/ ListGallery \/ Receive \/ LoadFails PROVE ZipInv'
  BY <1>2, ElsewhereStep DEF Poll, Tick, LoadMore, ListGallery, Receive, LoadFails
<1>3. ASSUME Deleted \/ \E ids \in SUBSET Items : BulkDelete(ids) PROVE ZipInv'
  BY <1>3, ElsewhereStep DEF Deleted, BulkDelete
<1>4. ASSUME NEW ids, LoadEntries(ids) PROVE ZipInv'
  BY <1>4 DEF LoadEntries, ZipInv
<1>5. ASSUME StreamEntry PROVE ZipInv'
  <2>1. PICK x \in zip.todo :
          \/ /\ zip' = [zip EXCEPT !.todo = zip.todo \ {x}, !.archive = zip.archive \cup {x}]
             /\ kept' = kept
          \/ /\ zip' = [zip EXCEPT !.todo = zip.todo \ {x}]
             /\ kept' = kept \ {x}
    BY <1>5 DEF StreamEntry
  <2>2. zip'.pc = zip.pc /\ zip.pc # "saved"
    BY <2>1 DEF ZipInv
  <2>3. \/ zip'.todo = zip.todo \ {x} /\ zip'.archive = zip.archive \cup {x} /\ kept' = kept
        \/ zip'.todo = zip.todo \ {x} /\ zip'.archive = zip.archive /\ kept' = kept \ {x}
    BY <2>1 DEF ZipInv
  <2>4. zip' = [pc |-> zip'.pc, todo |-> zip'.todo, archive |-> zip'.archive]
    BY <2>1 DEF ZipInv
  <2> QED
    BY <2>2, <2>3, <2>4 DEF ZipInv
<1>6. ASSUME CloseArchive PROVE ZipInv'
  BY <1>6 DEF CloseArchive, ZipInv
<1>7. CASE UNCHANGED vars
  BY <1>7, ElsewhereStep DEF vars
<1> QED
  BY <1>1, <1>2, <1>3, <1>4, <1>5, <1>6, <1>7 DEF Next

\* A closed archive has every item that was listed and could be read until it was streamed.
THEOREM ArchivesComplete == Spec => []ArchiveComplete
<1>1. ZipInv => ArchiveComplete
  BY DEF ZipInv, ArchiveComplete
<1> QED
  BY <1>1, ZipInit, ZipStep, PTL DEF Spec

-----------------------------------------------------------------------------
(* InOrder lists a set of numbers upwards: as many elements have different ranks *)
(* as there are ranks, so that every rank is somebody's.                        *)

Rank(S, x) == Cardinality({y \in S : y < x})

Ascends(s, S) ==
    /\ s \in [1..Cardinality(S) -> S]
    /\ \A i, j \in 1..Cardinality(S) : i < j => s[i] < s[j]

\* A larger element has a larger rank.
LEMMA RanksGrow ==
  ASSUME NEW S \in SUBSET Nat, IsFiniteSet(S), NEW x \in S, NEW z \in S, x < z
  PROVE  Rank(S, x) \in Nat /\ Rank(S, z) \in Nat /\ Rank(S, x) < Rank(S, z)
<1> DEFINE X == {y \in S : y < x}
           Z == {y \in S : y < z}
<1>1. IsFiniteSet(Z)
  BY FS_Subset
<1>2. X \subseteq Z /\ x \in Z /\ x \notin X
  <2>1. \A y \in S : y \in Nat
    OBVIOUS
  <2>2. \A y \in S : y < x => y < z
    BY <2>1
  <2>3. ~(x < x)
    BY <2>1
  <2> QED
    BY <2>2, <2>3, Zenon
<1>3. IsFiniteSet(X) /\ Cardinality(X) <= Cardinality(Z) /\ Cardinality(X) # Cardinality(Z)
  BY <1>1, <1>2, FS_Subset
<1>4. Cardinality(X) \in Nat /\ Cardinality(Z) \in Nat
  BY <1>1, <1>3, FS_CardinalityType
<1> QED
  BY <1>3, <1>4 DEF Rank

\* So that all ranks are taken.
LEMMA EveryRank ==
  ASSUME NEW S \in SUBSET Nat, IsFiniteSet(S)
  PROVE  \A i \in 1..Cardinality(S) : \E x \in S : Rank(S, x) = i - 1
<1> DEFINE c == Cardinality(S)
           T == 0..(c - 1)
           rank == [x \in S |-> Rank(S, x)]
<1>1. c \in Nat
  BY FS_CardinalityType
<1>2. IsFiniteSet(T) /\ Cardinality(T) = c
  <2>1. c - 1 \in Int /\ (c - 1) - 0 + 1 = c /\ (0 > c - 1 => c = 0)
    BY <1>1
  <2>2. IsFiniteSet(T) /\ Cardinality(T) = IF 0 > c - 1 THEN 0 ELSE (c - 1) - 0 + 1
    BY <2>1, FS_Interval
  <2> QED
    BY <2>1, <2>2
<1>3. ASSUME NEW x \in S PROVE Rank(S, x) \in T
  <2> DEFINE X == {y \in S : y < x}
  <2>1. IsFiniteSet(X) /\ Cardinality(X) <= c /\ (c = Cardinality(X) => S = X)
    BY FS_Subset
  <2>2. x \notin X
    OBVIOUS
  <2>3. Cardinality(X) \in Nat
    BY <2>1, FS_CardinalityType
  <2> QED
    BY <1>1, <2>1, <2>2, <2>3 DEF Rank
<1>4. \A x, z \in S : rank[x] = rank[z] => x = z
  <2> SUFFICES ASSUME NEW x \in S, NEW z \in S, Rank(S, x) = Rank(S, z), x < z PROVE FALSE
    OBVIOUS
  <2> QED
    BY RanksGrow
<1>5. rank \in Injection(S, T)
  BY <1>3, <1>4 DEF Injection, IsInjective
<1> HIDE DEF rank
<1>6. rank \in Surjection(S, T)
  BY <1>2, <1>5, FS_Injection
<1> SUFFICES ASSUME NEW i \in 1..c PROVE \E x \in S : Rank(S, x) = i - 1
  OBVIOUS
<1>7. i - 1 \in T
  BY <1>1
<1>8. PICK x \in S : rank[x] = i - 1
  BY <1>6, <1>7 DEF Surjection
<1> QED
  BY <1>8 DEF rank

\* InOrder lists a set of numbers upwards.
LEMMA Listed ==
  ASSUME NEW n \in Nat, NEW S \in SUBSET (1..n)
  PROVE  /\ InOrder(S) \in Seq(S) /\ Len(InOrder(S)) = Cardinality(S)
         /\ Ascends(InOrder(S), S)
         /\ Cardinality(S) \in 0..n
<1> DEFINE s == InOrder(S)
           c == Cardinality(S)
<1>1. IsFiniteSet(1..n) /\ Cardinality(1..n) = n
  BY FS_Interval
<1>2. IsFiniteSet(S) /\ c <= n
  BY <1>1, FS_Subset
<1>3. c \in Nat
  BY <1>2, FS_CardinalityType
<1>4. ASSUME NEW i \in 1..c PROVE s[i] \in S /\ Rank(S, s[i]) = i - 1
  <2>1. \E x \in S : Cardinality({y \in S : y < x}) = i - 1
    BY <1>2, EveryRank DEF Rank
  <2>2. s[i] = CHOOSE x \in S : Cardinality({y \in S : y < x}) = i - 1
    BY DEF InOrder
  <2> HIDE DEF s
  <2> QED
    BY <2>1, <2>2 DEF Rank
<1>5. \A x \in S : x \in Nat
  OBVIOUS
<1>6. s \in [1..c -> S]
  <2> DEFINE e(i) == CHOOSE x \in S : Cardinality({y \in S : y < x}) = i - 1
  <2>1. s = [i \in 1..c |-> e(i)]
    BY DEF InOrder
  <2>2. \A i \in 1..c : s[i] = e(i)
    BY <2>1
  <2> HIDE DEF e
  <2>3. \A i \in 1..c : e(i) \in S
    BY <1>4, <2>2
  <2> QED
    BY <2>1, <2>3
<1> HIDE DEF s
<1>7. ASSUME NEW i \in 1..c, NEW j \in 1..c, i < j PROVE s[i] < s[j]
  <2>1. s[i] \in S /\ s[j] \in S /\ Rank(S, s[i]) = i - 1 /\ Rank(S, s[j]) = j - 1
    BY <1>4
  <2>a. i \in Nat /\ j \in Nat
    BY <1>3
  <2>b. s[i] \in Nat /\ s[j] \in Nat
    BY <1>5, <2>1, Zenon
  <2>2. s[i] \in Nat /\ s[j] \in Nat /\ i \in Nat /\ j \in Nat
    BY <2>a, <2>b
  <2>3. s[i] # s[j]
    BY <1>7, <2>1, <2>2
  <2>4. ASSUME s[j] < s[i] PROVE FALSE
    <3>1. S \in SUBSET Nat
      OBVIOUS
    <3>2. Rank(S, s[j]) < Rank(S, s[i])
      BY <1>2, <2>1, <2>4, <3>1, RanksGrow
    <3> QED
      BY <1>7, <2>1, <2>2, <3>2
  <2> QED
    BY <2>2, <2>3, <2>4
<1>8. s \in Seq(S) /\ Len(s) = c
  BY <1>3, <1>6, SeqDef
<1> QED
  BY <1>2, <1>3, <1>6, <1>7, <1>8 DEF Ascends, s

Shown == {x \in Items : item[x] = "shown"}

\* The gallery lists what is shown.
LEMMA GalleryIsSeq ==
  Gallery \in Seq(Items) /\ Len(Gallery) \in 0..N
<1> DEFINE s == InOrder(Shown)
<1>1. Shown \in SUBSET (1..N)
  BY DEF Shown, Items
<1>2. s \in Seq(Shown) /\ Len(s) \in 0..N
  BY <1>1, Listed, ConstantsAssumption
<1>3. \A i \in 1..Len(s) : s[i] \in Items
  BY <1>1, <1>2, ElementOfSeq DEF Items
<1>4. Gallery = [i \in 1..Len(s) |-> s[Len(s) - i + 1]]
  BY DEF Gallery, Reverse, Shown
<1> HIDE DEF s
<1>5. Gallery \in [1..Len(s) -> Items]
  <2>1. \A i \in 1..Len(s) : Len(s) - i + 1 \in 1..Len(s)
    BY <1>2
  <2> QED
    BY <1>3, <1>4, <2>1
<1>6. Len(s) \in Nat
  BY <1>2
<1> QED
  BY <1>2, <1>5, <1>6, SeqDef

\* s is what stands in g from the offset n on.
Follows(s, n, g) == n + Len(s) <= Len(g) /\ \A i \in 1..Len(s) : s[i] = g[n + i]

\* What list_gallery answers at the offset n.
Rest(g, n) == SubSeq(g, n + 1, Len(g))

Rows(g, n, limit) == SubSeq(Rest(g, n), 1, IF limit < Len(Rest(g, n)) THEN limit ELSE Len(Rest(g, n)))

\* The answer holds the items that follow the offset, as many as there are or as it may.
LEMMA RowsFollow ==
  ASSUME NEW g \in Seq(Items), NEW n \in Nat, NEW limit \in Nat \ {0}
  PROVE  /\ Rows(g, n, limit) \in Seq(Items)
         /\ Len(Rows(g, n, limit)) <= limit
         /\ Len(Rest(g, n)) = IF n < Len(g) THEN Len(g) - n ELSE 0
         /\ Len(Rows(g, n, limit)) = IF limit < Len(Rest(g, n)) THEN limit ELSE Len(Rest(g, n))
         /\ \A i \in 1..Len(Rows(g, n, limit)) : Rows(g, n, limit)[i] = g[n + i]
<1> DEFINE r == Rest(g, n)
           m == IF limit < Len(r) THEN limit ELSE Len(r)
<1>0. Len(g) \in Nat /\ \A i \in 1..Len(g) : g[i] \in Items
  BY LenProperties, ElementOfSeq
<1>1. \A i \in (n+1)..Len(g) : g[i] \in Items
  BY <1>0
<1>2. /\ r \in Seq(Items) /\ Len(r) = IF n + 1 <= Len(g) THEN Len(g) - (n + 1) + 1 ELSE 0
      /\ \A i \in 1..(Len(g) - (n + 1) + 1) : r[i] = g[n + 1 + i - 1]
  BY <1>0, <1>1, SubSeqProperties DEF Rest
<1>3. /\ Len(r) = IF n < Len(g) THEN Len(g) - n ELSE 0
      /\ \A i \in 1..Len(r) : r[i] = g[n + i]
  <2> HIDE DEF r
  <2>1. Len(r) = IF n < Len(g) THEN Len(g) - n ELSE 0
    BY <1>0, <1>2
  <2>2. ASSUME NEW i \in 1..Len(r) PROVE r[i] = g[n + i]
    <3>1. i \in Int /\ n + 1 + i - 1 = n + i /\ i \in 1..(Len(g) - (n + 1) + 1)
      BY <1>0, <2>1
    <3>2. r[i] = g[n + 1 + i - 1]
      BY <1>2, <3>1
    <3> QED
      BY <3>1, <3>2
  <2> QED
    BY <2>1, <2>2
<1>4. m \in Nat /\ m <= Len(r) /\ \A i \in 1..m : r[i] \in Items
  <2>1. Len(r) \in Nat /\ \A i \in 1..Len(r) : r[i] \in Items
    BY <1>2, LenProperties, ElementOfSeq
  <2> QED
    BY <2>1
<1> HIDE DEF r, m
<1>5. /\ SubSeq(r, 1, m) \in Seq(Items) /\ Len(SubSeq(r, 1, m)) = IF 1 <= m THEN m - 1 + 1 ELSE 0
      /\ \A i \in 1..(m - 1 + 1) : SubSeq(r, 1, m)[i] = r[1 + i - 1]
  BY <1>4, SubSeqProperties
<1>6. Len(SubSeq(r, 1, m)) = m /\ \A i \in 1..m : SubSeq(r, 1, m)[i] = g[n + i]
  <2>1. \A i \in 1..m : i \in 1..Len(r)
    BY <1>0, <1>3, <1>4
  <2> QED
    BY <1>3, <1>4, <1>5, <2>1
<1>7. Rows(g, n, limit) = SubSeq(r, 1, m)
  BY DEF Rows, r, m
<1>8. m <= limit
  BY <1>0, <1>3 DEF m
<1> QED
  BY <1>3, <1>5, <1>6, <1>7, <1>8 DEF r, m

-----------------------------------------------------------------------------
(* Types.  A load stays within the gallery: it began within it, and an answer    *)
(* that is not empty ends within it.                                            *)

LoadOK ==
    /\ load \in Load
    /\ load.from \in 0..N
    /\ load.from + Len(load.got) <= N
    /\ load.pc # "none" => Len(load.got) < load.limit
    /\ load.pc = "answered" => load.from + Len(load.got) + Len(load.answer.rows) <= N

TInv ==
    /\ item \in [Items -> Status]
    /\ erased \subseteq Items /\ kept \subseteq Items
    /\ view \in [items: Seq(Items), offset: 0..N, more: BOOLEAN]
    /\ LoadOK
    /\ removal \in [pc: {"none", "answered"}, ids: SUBSET Items]
    /\ zip \in [pc: {"none", "streaming", "saved"}, todo: SUBSET Items, archive: SUBSET Items]
    /\ spent \in [moderations: 0..MaxModerations, nudges: 0..MaxNudges]

LEMMA NothingLoaded ==
  ASSUME load = NoLoad
  PROVE  LoadOK
<1>1. <<>> \in Seq(Items) /\ Len(<<>>) = 0
  BY EmptySeq
<1>2. NoAnswer \in Answer
  BY <1>1 DEF NoAnswer, Answer
<1>3. /\ load.pc = "none" /\ load.reset = FALSE /\ load.background = FALSE /\ load.from = 0
      /\ load.limit = 0 /\ load.got = <<>> /\ load.answer = NoAnswer
  BY DEF NoLoad
<1>4. load \in Load
  BY <1>1, <1>2 DEF NoLoad, Load
<1> QED
  BY <1>1, <1>3, <1>4, ConstantsAssumption DEF LoadOK

\* The same of the next state.
LEMMA NothingLoadedNext ==
  ASSUME load' = NoLoad
  PROVE  LoadOK'
<1>1. <<>> \in Seq(Items) /\ Len(<<>>) = 0
  BY EmptySeq
<1>2. NoAnswer \in Answer
  BY <1>1 DEF NoAnswer, Answer
<1>3. /\ load'.pc = "none" /\ load'.reset = FALSE /\ load'.background = FALSE /\ load'.from = 0
      /\ load'.limit = 0 /\ load'.got = <<>> /\ load'.answer = NoAnswer
  BY DEF NoLoad
<1>4. load' \in Load
  BY <1>1, <1>2 DEF NoLoad, Load
<1> QED
  BY <1>1, <1>3, <1>4, ConstantsAssumption DEF LoadOK

LEMMA TypeInit == Init => TInv
<1> SUFFICES ASSUME Init PROVE TInv
  OBVIOUS
<1>1. LoadOK
  BY NothingLoaded DEF Init
<1>2. <<>> \in Seq(Items)
  BY EmptySeq
<1> QED
  BY <1>1, <1>2, ConstantsAssumption DEF Init, TInv, Status, NoRemoval, NoZip

\* How a load begins.
LEMMA LoadBegins ==
  ASSUME TInv, NEW reset \in BOOLEAN, NEW background \in BOOLEAN, Starts(reset, background)
  PROVE  /\ LoadOK'
         /\ load'.pc = "asking" /\ load'.reset = reset /\ load'.background = background
         /\ load'.got = <<>> /\ load'.answer = NoAnswer
         /\ load'.from = IF reset THEN 0 ELSE view.offset
         /\ load'.limit \in Nat \ {0} /\ load'.limit >= Page
<1> DEFINE from == IF reset THEN 0 ELSE view.offset
           limit == IF reset /\ view.offset > Page THEN view.offset ELSE Page
<1>1. load' = [pc |-> "asking", reset |-> reset, background |-> background, from |-> from,
               limit |-> limit, got |-> <<>>, answer |-> NoAnswer]
  BY DEF Starts, NoLoad
<1>2. view.offset \in 0..N
  BY DEF TInv
<1>3. from \in 0..N /\ limit \in Nat \ {0} /\ limit >= Page
  BY <1>2, ConstantsAssumption
<1>4. <<>> \in Seq(Items) /\ Len(<<>>) = 0
  BY EmptySeq
<1>5. NoAnswer \in Answer
  BY <1>4 DEF NoAnswer, Answer
<1> HIDE DEF from, limit
<1>6. load' \in Load
  <2>1. from \in Nat
    BY <1>3, ConstantsAssumption
  <2> QED
    BY <1>1, <1>3, <1>4, <1>5, <2>1 DEF Load
<1>7. /\ load'.pc = "asking" /\ load'.reset = reset /\ load'.background = background
      /\ load'.got = <<>> /\ load'.answer = NoAnswer
      /\ load'.from = from /\ load'.limit = limit
  BY <1>1
<1>8. LoadOK'
  BY <1>3, <1>4, <1>6, <1>7, ConstantsAssumption DEF LoadOK
<1> QED
  BY <1>3, <1>7, <1>8 DEF from

\* What an answer adds to a load.
LEMMA LoadAnswered ==
  ASSUME TInv, ListGallery
  PROVE  \E limit \in Nat \ {0} :
            /\ load'.answer = [rows |-> Rows(Gallery, load.from + Len(load.got), limit),
                               more |-> Len(Rest(Gallery, load.from + Len(load.got))) > limit]
            /\ load'.answer \in Answer
            /\ LoadOK'
            /\ load.pc = "asking" /\ load'.pc = "answered"
            /\ load'.reset = load.reset /\ load'.from = load.from
            /\ load'.limit = load.limit /\ load'.got = load.got
<1> DEFINE skip == load.from + Len(load.got)
           want == load.limit - Len(load.got)
           limit == IF want < Cap THEN want ELSE Cap
           a == [rows |-> Rows(Gallery, skip, limit), more |-> Len(Rest(Gallery, skip)) > limit]
<1>1. load.pc = "asking" /\ load' = [load EXCEPT !.pc = "answered", !.answer = a]
  BY DEF ListGallery, Rows, Rest
<1>2. /\ load \in Load /\ load.got \in Seq(Items) /\ Len(load.got) \in Nat
      /\ load.from \in Nat /\ load.from + Len(load.got) <= N
      /\ load.limit \in Nat /\ Len(load.got) < load.limit
  <2>1. load \in Load /\ load.got \in Seq(Items) /\ load.from \in Nat /\ load.limit \in Nat
    BY DEF TInv, LoadOK, Load
  <2> QED
    BY <1>1, <2>1, LenProperties DEF TInv, LoadOK
<1>3. limit \in Nat \ {0} /\ skip \in Nat /\ skip <= N
  BY <1>2, ConstantsAssumption
<1>4. /\ Rows(Gallery, skip, limit) \in Seq(Items)
      /\ Len(Rest(Gallery, skip)) = IF skip < Len(Gallery) THEN Len(Gallery) - skip ELSE 0
      /\ Len(Rows(Gallery, skip, limit)) = IF limit < Len(Rest(Gallery, skip)) THEN limit ELSE Len(Rest(Gallery, skip))
  BY <1>3, GalleryIsSeq, RowsFollow
<1>5. a \in Answer
  BY <1>4 DEF Answer
<1>6. skip + Len(Rows(Gallery, skip, limit)) <= N
  BY <1>3, <1>4, GalleryIsSeq, ConstantsAssumption
<1>7. /\ load'.pc = "answered" /\ load'.answer = a /\ load'.reset = load.reset
      /\ load'.from = load.from /\ load'.limit = load.limit /\ load'.got = load.got
      /\ load' \in Load
  BY <1>1, <1>2, <1>5 DEF Load
<1>8. load'.answer.rows = Rows(Gallery, skip, limit)
  BY <1>7
<1> HIDE DEF a
<1>9. LoadOK'
  BY <1>2, <1>6, <1>7, <1>8 DEF LoadOK, TInv
<1> QED
  BY <1>1, <1>3, <1>5, <1>7, <1>9 DEF a

\* A page that was received is followed by the next one, or ends the load.
LEMMA LoadReceived ==
  ASSUME TInv, Receive
  PROVE  LET got == load.got \o load.answer.rows IN
         /\ load.pc = "answered"
         /\ got \in Seq(Items) /\ Len(got) = Len(load.got) + Len(load.answer.rows)
         /\ \A i \in 1..Len(got) :
               got[i] = IF i <= Len(load.got) THEN load.got[i] ELSE load.answer.rows[i - Len(load.got)]
         /\ load.from + Len(got) \in 0..N
         /\ LoadOK'
         /\ \/ /\ load.answer.more /\ load.answer.rows # <<>> /\ Len(got) < load.limit
               /\ load'.pc = "asking" /\ load'.reset = load.reset /\ load'.from = load.from
               /\ load'.limit = load.limit /\ load'.got = got
               /\ view' = view
            \/ /\ ~(load.answer.more /\ load.answer.rows # <<>> /\ Len(got) < load.limit)
               /\ view' = [items |-> IF load.reset THEN got ELSE view.items \o got,
                           offset |-> load.from + Len(got), more |-> load.answer.more]
               /\ load' = NoLoad
<1> DEFINE rows == load.answer.rows
           got == load.got \o rows
<1>1. load.pc = "answered"
  BY DEF Receive
<1>2. /\ load \in Load /\ load.got \in Seq(Items) /\ rows \in Seq(Items) /\ load.from \in Nat
      /\ load.limit \in Nat /\ load.from + Len(load.got) + Len(rows) <= N
  BY <1>1 DEF TInv, LoadOK, Load, Answer
<1>3. /\ got \in Seq(Items) /\ Len(got) = Len(load.got) + Len(rows)
      /\ \A i \in 1..(Len(load.got) + Len(rows)) :
            got[i] = IF i <= Len(load.got) THEN load.got[i] ELSE rows[i - Len(load.got)]
  BY <1>2, ConcatProperties
<1>4. Len(load.got) \in Nat /\ Len(rows) \in Nat
  BY <1>2, LenProperties
<1> HIDE DEF got
<1>5. load.from + Len(got) \in 0..N
  <2> HIDE DEF rows
  <2>1. Len(got) \in Nat /\ load.from + Len(got) = load.from + Len(load.got) + Len(rows)
    BY <1>2, <1>3, <1>4
  <2> QED
    BY <1>2, <2>1, ConstantsAssumption
<1>6. \/ /\ load.answer.more /\ rows # <<>> /\ Len(got) < load.limit
         /\ load' = [load EXCEPT !.pc = "asking", !.got = got, !.answer = NoAnswer]
         /\ view' = view
      \/ /\ ~(load.answer.more /\ rows # <<>> /\ Len(got) < load.limit)
         /\ view' = [items |-> IF load.reset THEN got ELSE view.items \o got,
                     offset |-> load.from + Len(got), more |-> load.answer.more]
         /\ load' = NoLoad
  BY DEF Receive, got
<1>7. CASE load' = NoLoad
  <2>1. LoadOK'
    BY <1>7, NothingLoadedNext
  <2> QED
    BY <1>1, <1>3, <1>5, <1>6, <1>7, <2>1 DEF got, NoLoad
<1>8. ASSUME /\ load.answer.more /\ rows # <<>> /\ Len(got) < load.limit
             /\ load' = [load EXCEPT !.pc = "asking", !.got = got, !.answer = NoAnswer]
             /\ view' = view
      PROVE  /\ LoadOK'
             /\ load'.pc = "asking" /\ load'.reset = load.reset /\ load'.from = load.from
             /\ load'.limit = load.limit /\ load'.got = got
  <2>1. NoAnswer \in Answer
    BY EmptySeq DEF NoAnswer, Answer
  <2>2. /\ load'.pc = "asking" /\ load'.reset = load.reset /\ load'.from = load.from
        /\ load'.limit = load.limit /\ load'.got = got /\ load' \in Load
    BY <1>2, <1>3, <1>8, <2>1 DEF Load
  <2>3. LoadOK'
    BY <1>2, <1>4, <1>5, <1>8, <2>2 DEF LoadOK, TInv
  <2> QED
    BY <2>2, <2>3
<1> QED
  BY <1>1, <1>3, <1>5, <1>6, <1>7, <1>8 DEF got

\* What the page keeps was there.
LEMMA Kept ==
  ASSUME NEW s \in Seq(Items), NEW ids
  PROVE  Without(s, ids) \in Seq(Items)
<1> DEFINE D == {i \in DOMAIN s : s[i] \notin ids}
           left == InOrder(D)
<1>1. Len(s) \in Nat /\ DOMAIN s = 1..Len(s) /\ \A i \in 1..Len(s) : s[i] \in Items
  BY LenProperties, ElementOfSeq
<1>2. D \in SUBSET (1..Len(s))
  BY <1>1
<1>3. left \in Seq(D)
  BY <1>1, <1>2, Listed
<1>4. Len(left) \in Nat /\ DOMAIN left = 1..Len(left) /\ \A i \in 1..Len(left) : left[i] \in D
  BY <1>3, LenProperties, ElementOfSeq
<1>5. Without(s, ids) = [i \in DOMAIN left |-> s[left[i]]]
  BY DEF Without
<1> HIDE DEF left
<1>6. Without(s, ids) \in [1..Len(left) -> Items]
  BY <1>1, <1>4, <1>5
<1> QED
  BY <1>4, <1>6, SeqDef

-----------------------------------------------------------------------------
(* Every variable keeps its type, step by step.                                *)

LEMMA TypeStep == TInv /\ [Next]_vars => TInv'
<1> SUFFICES ASSUME TInv, [Next]_vars PROVE TInv'
  OBVIOUS
<1> USE DEF TInv
<1>1. ASSUME NEW x \in Items, Appears(x) PROVE TInv'
  BY <1>1 DEF Appears, Status, LoadOK
<1>2. ASSUME NEW x \in Items, SetVisibility(x) PROVE TInv'
  <2>1. spent' \in [moderations: 0..MaxModerations, nudges: 0..MaxNudges]
    BY <1>2, ConstantsAssumption DEF SetVisibility
  <2>2. item' \in [Items -> Status]
    BY <1>2 DEF SetVisibility, Status
  <2> QED
    BY <1>2, <2>1, <2>2 DEF SetVisibility, LoadOK
<1>3. ASSUME NEW x \in Items, Erase(x) PROVE TInv'
  BY <1>3 DEF Erase, LoadOK
<1>4. ASSUME NEW x \in Items, DeleteRow(x) PROVE TInv'
  BY <1>4 DEF DeleteRow, Status, LoadOK
<1>5. ASSUME Poll PROVE TInv'
  <2>1. LoadOK'
    BY <1>5, LoadBegins DEF Poll
  <2> QED
    BY <1>5, <2>1 DEF Poll
<1>6. ASSUME Tick PROVE TInv'
  <2>1. LoadOK'
    BY <1>6, LoadBegins DEF Tick
  <2> QED
    BY <1>6, <2>1, ConstantsAssumption DEF Tick, Nudge
<1>7. ASSUME LoadMore PROVE TInv'
  <2>1. LoadOK'
    BY <1>7, LoadBegins DEF LoadMore
  <2> QED
    BY <1>7, <2>1 DEF LoadMore
<1>8. ASSUME ListGallery PROVE TInv'
  <2>1. LoadOK'
    BY <1>8, LoadAnswered
  <2> QED
    BY <1>8, <2>1 DEF ListGallery
<1>9. ASSUME Receive PROVE TInv'
  <2> DEFINE got == load.got \o load.answer.rows
  <2>1. LoadOK' /\ got \in Seq(Items) /\ load.from + Len(got) \in 0..N
    BY <1>9, LoadReceived
  <2>2. load.answer.more \in BOOLEAN /\ view.items \in Seq(Items)
    BY DEF LoadOK, Load, Answer
  <2>3. view.items \o got \in Seq(Items)
    BY <2>1, <2>2, ConcatProperties
  <2> HIDE DEF got
  <2>4. \/ view' = view
        \/ view' = [items |-> IF load.reset THEN got ELSE view.items \o got,
                    offset |-> load.from + Len(got), more |-> load.answer.more]
    BY <1>9, LoadReceived DEF got
  <2> DEFINE shown == IF load.reset THEN got ELSE view.items \o got
  <2>a. shown \in Seq(Items)
    BY <2>1, <2>3
  <2>b. \/ view' = view
        \/ view' = [items |-> shown, offset |-> load.from + Len(got), more |-> load.answer.more]
    BY <2>4
  <2> HIDE DEF shown
  <2>5. view' \in [items: Seq(Items), offset: 0..N, more: BOOLEAN]
    BY <2>1, <2>2, <2>a, <2>b
  <2> QED
    BY <1>9, <2>1, <2>5 DEF Receive
<1>10. ASSUME LoadFails PROVE TInv'
  <2>1. LoadOK'
    BY <1>10, NothingLoadedNext DEF LoadFails
  <2> QED
    BY <1>10, <2>1, ConstantsAssumption DEF LoadFails, Nudge
<1>11. ASSUME NEW ids \in SUBSET Items, BulkDelete(ids) PROVE TInv'
  BY <1>11 DEF BulkDelete, Status, LoadOK
<1>12. ASSUME Deleted PROVE TInv'
  <2>1. Without(view.items, removal.ids) \in Seq(Items)
    BY Kept
  <2> QED
    BY <1>12, <2>1 DEF Deleted, NoRemoval, LoadOK
<1>13. ASSUME NEW ids \in SUBSET Items, LoadEntries(ids) PROVE TInv'
  BY <1>13 DEF LoadEntries, LoadOK
<1>14. ASSUME StreamEntry PROVE TInv'
  <2>1. spent' = spent \/ Nudge
    BY <1>14 DEF StreamEntry
  <2>2. spent' \in [moderations: 0..MaxModerations, nudges: 0..MaxNudges]
    BY <2>1, ConstantsAssumption DEF Nudge
  <2>3. zip' \in [pc: {"none", "streaming", "saved"}, todo: SUBSET Items, archive: SUBSET Items]
    <3>1. PICK x \in zip.todo : \/ zip' = [zip EXCEPT !.todo = @ \ {x}, !.archive = @ \cup {x}]
                               \/ zip' = [zip EXCEPT !.todo = @ \ {x}]
      BY <1>14 DEF StreamEntry
    <3>2. x \in Items
      OBVIOUS
    <3>3. /\ zip.pc \in {"none", "streaming", "saved"}
          /\ zip.todo \subseteq Items /\ zip.archive \subseteq Items
          /\ zip = [pc |-> zip.pc, todo |-> zip.todo, archive |-> zip.archive]
      OBVIOUS
    <3>4. \/ zip' = [pc |-> zip.pc, todo |-> zip.todo \ {x}, archive |-> zip.archive \cup {x}]
          \/ zip' = [pc |-> zip.pc, todo |-> zip.todo \ {x}, archive |-> zip.archive]
      BY <3>1, <3>3
    <3>5. zip.todo \ {x} \subseteq Items /\ zip.archive \cup {x} \subseteq Items
      BY <3>2, <3>3
    <3> QED
      BY <3>3, <3>4, <3>5
  <2>4. kept' \subseteq Items
    BY <1>14 DEF StreamEntry
  <2> QED
    BY <1>14, <2>2, <2>3, <2>4 DEF StreamEntry, LoadOK
<1>15. ASSUME CloseArchive PROVE TInv'
  BY <1>15 DEF CloseArchive, LoadOK
<1>16. CASE UNCHANGED vars
  BY <1>16 DEF vars, LoadOK
<1>17. Range(view.items) \in SUBSET Items
  <2>1. view.items \in Seq(Items)
    OBVIOUS
  <2> QED
    BY <2>1, LenProperties, ElementOfSeq DEF Range
<1> QED
  BY <1>1, <1>2, <1>3, <1>4, <1>5, <1>6, <1>7, <1>8, <1>9, <1>10, <1>11, <1>12, <1>13, <1>14,
     <1>15, <1>16, <1>17 DEF Next

\* Every variable keeps its type; the offset of the page stays within the gallery's bounds.
THEOREM TypeCorrect == Spec => []TypeOK
<1>1. TInv => TypeOK
  BY ConstantsAssumption DEF TInv, LoadOK, Load, TypeOK, Items
<1> QED
  BY <1>1, TypeInit, TypeStep, PTL DEF Spec

-----------------------------------------------------------------------------
(* Convergence.  GalleryConverges itself is a liveness property; what can be      *)
(* proved of it is that its goal is closed and that every poll heads for it: while *)
(* the gallery does not change, a page in step stays in step, a load that resets   *)
(* the page reads the gallery as it is and ends with the page in step, and it ends *)
(* after so many pages.                                                         *)

\* What the load has read is what stands in the gallery from its offset on.
Fits ==
    LET gallery == Gallery
        read == load.from + Len(load.got)
    IN  /\ Follows(load.got, load.from, gallery)
        /\ load.pc = "answered" =>
              /\ Follows(load.answer.rows, read, gallery)
              /\ load.answer.more = (read + Len(load.answer.rows) < Len(gallery))
              /\ load.answer.rows = <<>> => read = Len(gallery)
        /\ load.reset => load.from = 0 /\ load.limit >= Page

Settled ==
    /\ InStep /\ view.offset = Len(view.items) /\ removal.pc = "none"
    /\ load.pc # "none" => Fits /\ (~load.reset => load.from = view.offset)

Repairing == load.pc # "none" /\ load.reset /\ removal.pc = "none" /\ Fits

\* Once in step, the page leaves it only when the gallery changes.
StaysInStep == [][Settled /\ UNCHANGED item => Settled']_vars

\* Every poll and every foreground refresh starts a repair, which goes on until the page is
\* in step unless the guest scrolls on, the call fails, or the gallery changes.
PollsRepair ==
    [][removal.pc = "none" /\ UNCHANGED item =>
          /\ Poll \/ Tick => Repairing'
          /\ Repairing /\ ~LoadMore /\ ~LoadFails => Repairing' \/ Settled']_vars

\* A load asks for another page only when the last one brought it closer to its limit.
LoadsAdvance ==
    [][Receive => \/ load'.pc = "none"
                  \/ /\ load'.limit = load.limit
                     /\ Len(load.got) < Len(load'.got) /\ Len(load'.got) < load.limit]_vars

\* A prefix is what stands there from the offset 0 on.
LEMMA PrefixFollows ==
  ASSUME NEW s \in Seq(Items), NEW g \in Seq(Items)
  PROVE  IsPrefix(s, g) <=> Follows(s, 0, g)
<1>1. Len(s) \in Nat /\ Len(g) \in Nat /\ \A i \in 1..Len(s) : s[i] \in Items
  BY LenProperties, ElementOfSeq
<1>2. SubSeq(s, 1, Len(s)) = s
  BY SubSeqFull
<1>3. ASSUME Len(s) <= Len(g)
      PROVE  SubSeq(g, 1, Len(s)) = s <=> \A i \in 1..Len(s) : s[i] = g[i]
  <2> DEFINE p == SubSeq(g, 1, Len(s))
  <2>1. \A i \in 1..Len(s) : g[i] \in Items
    BY <1>1, <1>3, ElementOfSeq
  <2>2. /\ p \in Seq(Items) /\ Len(p) = IF 1 <= Len(s) THEN Len(s) - 1 + 1 ELSE 0
        /\ \A i \in 1..(Len(s) - 1 + 1) : p[i] = g[1 + i - 1]
    BY <1>1, <2>1, SubSeqProperties
  <2> HIDE DEF p
  <2>3. Len(p) = Len(s)
    BY <1>1, <2>2
  <2>4. ASSUME NEW i \in 1..Len(s) PROVE p[i] = g[i]
    <3>1. i \in 1..(Len(s) - 1 + 1) /\ 1 + i - 1 = i
      BY <1>1
    <3> QED
      BY <2>2, <3>1
  <2>5. (\A i \in 1..Len(s) : s[i] = g[i]) => p = s
    BY <2>2, <2>3, <2>4, SeqEqual
  <2> QED
    BY <2>4, <2>5 DEF p
<1>4. \A i \in 1..Len(s) : 0 + i = i
  OBVIOUS
<1> QED
  BY <1>1, <1>2, <1>3, <1>4 DEF IsPrefix, Follows

\* What follows what follows, follows.
LEMMA FollowsOn ==
  ASSUME NEW a \in Seq(Items), NEW b \in Seq(Items), NEW c \in Seq(Items), NEW g \in Seq(Items),
         NEW n \in Nat, Follows(a, n, g), Follows(b, n + Len(a), g),
         Len(c) = Len(a) + Len(b),
         \A i \in 1..Len(c) : c[i] = IF i <= Len(a) THEN a[i] ELSE b[i - Len(a)]
  PROVE  Follows(c, n, g)
<1>1. Len(a) \in Nat /\ Len(b) \in Nat /\ Len(g) \in Nat
  BY LenProperties
<1>2. ASSUME NEW i \in 1..Len(c) PROVE c[i] = g[n + i]
  <2>1. CASE i <= Len(a)
    <3>1. i \in 1..Len(a)
      BY <1>1, <2>1
    <3> QED
      BY <2>1, <3>1 DEF Follows
  <2>2. CASE ~(i <= Len(a))
    <3>1. i - Len(a) \in 1..Len(b) /\ n + Len(a) + (i - Len(a)) = n + i
      BY <1>1, <2>2
    <3>2. b[i - Len(a)] = g[n + Len(a) + (i - Len(a))]
      BY <3>1 DEF Follows
    <3> QED
      BY <2>2, <3>1, <3>2
  <2> QED
    BY <2>1, <2>2
<1>3. n + Len(c) <= Len(g)
  BY <1>1 DEF Follows
<1> QED
  BY <1>2, <1>3 DEF Follows

LEMMA SameGallery ==
  ASSUME UNCHANGED item
  PROVE  Gallery' = Gallery
BY DEF Gallery

LEMMA InStepFollows ==
  ASSUME TInv
  PROVE  InStep <=>
            /\ Follows(view.items, 0, Gallery)
            /\ Len(view.items) >= IF Page < Len(Gallery) THEN Page ELSE Len(Gallery)
            /\ view.more = (Len(view.items) < Len(Gallery))
<1>1. view.items \in Seq(Items)
  BY DEF TInv
<1> QED
  BY <1>1, GalleryIsSeq, PrefixFollows DEF InStep

\* A load that begins within the gallery has read nothing wrong yet.
LEMMA FitsBegins ==
  ASSUME TInv, UNCHANGED item, NEW reset \in BOOLEAN, NEW background \in BOOLEAN,
         Starts(reset, background), ~reset => view.offset <= Len(Gallery)
  PROVE  Fits' /\ load'.pc = "asking" /\ load'.reset = reset
<1>1. /\ load'.pc = "asking" /\ load'.reset = reset /\ load'.got = <<>>
      /\ load'.from = IF reset THEN 0 ELSE view.offset
      /\ load'.limit >= Page
  BY LoadBegins
<1>2. Gallery' = Gallery /\ Len(Gallery) \in 0..N
  BY SameGallery, GalleryIsSeq
<1>3. view.offset \in 0..N
  BY DEF TInv
<1>4. load'.from \in Nat /\ load'.from <= Len(Gallery)
  BY <1>1, <1>2, <1>3, ConstantsAssumption
<1>5. Len(<<>>) = 0
  BY EmptySeq
<1>6. Follows(load'.got, load'.from, Gallery)
  BY <1>1, <1>4, <1>5 DEF Follows
<1> QED
  BY <1>1, <1>2, <1>6 DEF Fits

\* list_gallery answers what stands at the offset.
LEMMA FitsAnswered ==
  ASSUME TInv, UNCHANGED item, ListGallery, Fits
  PROVE  Fits' /\ load'.pc = "answered" /\ load'.reset = load.reset /\ load'.from = load.from
<1> DEFINE read == load.from + Len(load.got)
<1>1. PICK limit \in Nat \ {0} :
         /\ load'.answer = [rows |-> Rows(Gallery, read, limit),
                            more |-> Len(Rest(Gallery, read)) > limit]
         /\ load'.pc = "answered"
         /\ load'.reset = load.reset /\ load'.from = load.from
         /\ load'.limit = load.limit /\ load'.got = load.got
  BY LoadAnswered
<1>2. Gallery' = Gallery /\ Gallery \in Seq(Items) /\ Len(Gallery) \in Nat
  BY SameGallery, GalleryIsSeq, LenProperties
<1>3. load.from \in Nat /\ Len(load.got) \in Nat /\ read \in Nat
  <2>1. load.from \in Nat /\ load.got \in Seq(Items)
    BY DEF TInv, LoadOK, Load
  <2> QED
    BY <2>1, LenProperties
<1>4. read <= Len(Gallery)
  BY DEF Fits, Follows
<1> DEFINE rows == Rows(Gallery, read, limit)
<1>5. /\ rows \in Seq(Items)
      /\ Len(Rest(Gallery, read)) = IF read < Len(Gallery) THEN Len(Gallery) - read ELSE 0
      /\ Len(rows) = IF limit < Len(Rest(Gallery, read)) THEN limit ELSE Len(Rest(Gallery, read))
      /\ \A i \in 1..Len(rows) : rows[i] = Gallery[read + i]
  BY <1>2, <1>3, RowsFollow
<1> HIDE DEF rows
<1>6. Len(Rest(Gallery, read)) = Len(Gallery) - read
  BY <1>2, <1>3, <1>4, <1>5
<1>7. Follows(rows, read, Gallery)
  BY <1>2, <1>3, <1>4, <1>5, <1>6 DEF Follows
<1>8. (Len(Rest(Gallery, read)) > limit) = (read + Len(rows) < Len(Gallery))
  BY <1>2, <1>3, <1>4, <1>5, <1>6
<1>9. rows = <<>> => read = Len(Gallery)
  <2>1. rows = <<>> => Len(rows) = 0
    BY EmptySeq
  <2> QED
    BY <1>2, <1>3, <1>4, <1>5, <1>6, <2>1
<1>10. load'.answer.rows = rows /\ load'.answer.more = (read + Len(rows) < Len(Gallery))
  BY <1>1, <1>8 DEF rows
<1>11. Follows(load.got, load.from, Gallery) /\ (load.reset => load.from = 0 /\ load.limit >= Page)
  BY DEF Fits
<1> QED
  BY <1>1, <1>2, <1>7, <1>9, <1>10, <1>11 DEF Fits

\* A page that was read right extends what was read right; a load that ends has read the
\* gallery to its end, or as far as it was asked to.
LEMMA FitsReceived ==
  ASSUME TInv, UNCHANGED item, Receive, Fits
  PROVE  LET got == load.got \o load.answer.rows IN
         /\ got \in Seq(Items) /\ Follows(got, load.from, Gallery)
         /\ \/ Fits' /\ load'.pc = "asking" /\ load'.reset = load.reset /\ load'.from = load.from /\ view' = view
            \/ /\ view' = [items |-> IF load.reset THEN got ELSE view.items \o got,
                           offset |-> load.from + Len(got), more |-> load.answer.more]
               /\ load'.pc = "none"
               /\ load.answer.more = (load.from + Len(got) < Len(Gallery))
               /\ load.from + Len(got) = Len(Gallery) \/ Len(got) >= load.limit
<1> DEFINE rows == load.answer.rows
           got == load.got \o rows
           read == load.from + Len(load.got)
<1>1. /\ load.pc = "answered"
      /\ got \in Seq(Items) /\ Len(got) = Len(load.got) + Len(rows)
      /\ \A i \in 1..Len(got) : got[i] = IF i <= Len(load.got) THEN load.got[i] ELSE rows[i - Len(load.got)]
      /\ \/ /\ load'.pc = "asking" /\ load'.reset = load.reset /\ load'.from = load.from
            /\ load'.limit = load.limit /\ load'.got = got
            /\ view' = view
         \/ /\ ~(load.answer.more /\ rows # <<>> /\ Len(got) < load.limit)
            /\ view' = [items |-> IF load.reset THEN got ELSE view.items \o got,
                        offset |-> load.from + Len(got), more |-> load.answer.more]
            /\ load' = NoLoad
  BY LoadReceived
<1>2. /\ load.got \in Seq(Items) /\ rows \in Seq(Items) /\ load.from \in Nat /\ load.limit \in Nat
      /\ load.answer.more \in BOOLEAN
  BY DEF TInv, LoadOK, Load, Answer
<1>3. Len(load.got) \in Nat /\ Len(rows) \in Nat
  BY <1>2, LenProperties
<1>4. Gallery' = Gallery /\ Gallery \in Seq(Items) /\ Len(Gallery) \in Nat
  BY SameGallery, GalleryIsSeq, LenProperties
<1>5. /\ Follows(load.got, load.from, Gallery) /\ Follows(rows, read, Gallery)
      /\ load.answer.more = (read + Len(rows) < Len(Gallery))
      /\ rows = <<>> => read = Len(Gallery)
      /\ load.reset => load.from = 0 /\ load.limit >= Page
  BY <1>1 DEF Fits
<1> HIDE DEF got, rows
<1>6. Follows(got, load.from, Gallery)
  BY <1>1, <1>2, <1>4, <1>5, FollowsOn
<1>7. load.from + Len(got) = read + Len(rows)
  BY <1>1, <1>2, <1>3
<1>8. CASE /\ load'.pc = "asking" /\ load'.reset = load.reset /\ load'.from = load.from
           /\ load'.limit = load.limit /\ load'.got = got
           /\ view' = view
  <2>1. Fits'
    BY <1>4, <1>5, <1>6, <1>8 DEF Fits
  <2> QED
    BY <1>1, <1>6, <1>8, <2>1 DEF got, rows
<1>9. CASE /\ ~(load.answer.more /\ rows # <<>> /\ Len(got) < load.limit)
           /\ view' = [items |-> IF load.reset THEN got ELSE view.items \o got,
                       offset |-> load.from + Len(got), more |-> load.answer.more]
           /\ load' = NoLoad
  <2>1. load.answer.more = (load.from + Len(got) < Len(Gallery))
    BY <1>5, <1>7
  <2>2. load.from + Len(got) <= Len(Gallery)
    BY <1>6 DEF Follows
  <2>3. load.from + Len(got) = Len(Gallery) \/ Len(got) >= load.limit
    <3>1. CASE ~load.answer.more
      <4>1. Len(got) \in Nat
        BY <1>1, LenProperties
      <4>2. ~(load.from + Len(got) < Len(Gallery))
        BY <2>1, <3>1, Zenon
      <4> QED
        BY <1>2, <1>4, <2>2, <4>1, <4>2
    <3>2. CASE rows = <<>>
      <4>1. Len(rows) = 0
        BY <3>2, EmptySeq
      <4> QED
        BY <1>2, <1>3, <1>5, <1>7, <3>2, <4>1
    <3>3. CASE ~(Len(got) < load.limit)
      BY <1>1, <1>2, <1>3, <3>3
    <3> QED
      BY <1>9, <3>1, <3>2, <3>3
  <2>4. load'.pc = "none"
    BY <1>9 DEF NoLoad
  <2> QED
    BY <1>1, <1>6, <1>9, <2>1, <2>3, <2>4 DEF got, rows
<1> QED
  BY <1>1, <1>8, <1>9

\* The steps that neither change the gallery nor concern the page.
Aside == UNCHANGED <<view, load, removal>>

\* While the gallery does not change, what can happen to the page.
LEMMA PageSteps ==
  ASSUME [Next]_vars, UNCHANGED item, removal.pc = "none"
  PROVE  \/ Aside
         \/ UNCHANGED <<view, removal>> /\ (Poll \/ Tick \/ LoadMore \/ ListGallery \/ LoadFails)
         \/ UNCHANGED removal /\ Receive
<1>1. ASSUME NEW x \in Items, Appears(x) \/ SetVisibility(x) \/ Erase(x) \/ DeleteRow(x) PROVE Aside
  BY <1>1 DEF Appears, SetVisibility, Erase, DeleteRow, Aside
<1>2. ASSUME Poll \/ Tick \/ LoadMore \/ ListGallery \/ LoadFails PROVE UNCHANGED <<view, removal>>
  BY <1>2 DEF Poll, Tick, LoadMore, ListGallery, LoadFails
<1>3. ASSUME Receive PROVE UNCHANGED removal
  BY <1>3 DEF Receive
<1>4. ASSUME NEW ids \in SUBSET Items, BulkDelete(ids) PROVE FALSE
  <2> DEFINE own == {x \in ids \cap Mine : item[x] \in {"shown", "hidden"}}
  <2>1. PICK x \in own : TRUE
    BY <1>4 DEF BulkDelete
  <2>2. x \in Items /\ item[x] # "deleted"
    BY <2>1
  <2>3. item'[x] = "deleted"
    BY <1>4, <2>1, <2>2 DEF BulkDelete
  <2> QED
    BY <2>2, <2>3
<1>5. ASSUME Deleted PROVE FALSE
  BY <1>5 DEF Deleted
<1>6. ASSUME NEW ids, LoadEntries(ids) PROVE Aside
  BY <1>6 DEF LoadEntries, Aside
<1>7. ASSUME StreamEntry \/ CloseArchive PROVE Aside
  BY <1>7 DEF StreamEntry, CloseArchive, Aside
<1>8. CASE UNCHANGED vars
  BY <1>8 DEF vars, Aside
<1> QED
  BY <1>1, <1>2, <1>3, <1>4, <1>5, <1>6, <1>7, <1>8 DEF Next

LEMMA AsideKeeps ==
  ASSUME UNCHANGED item, Aside
  PROVE  (Fits => Fits') /\ (InStep => InStep')
BY SameGallery DEF Aside, Fits, InStep

\* In step, the page stays in step.
LEMMA SettledStep ==
  ASSUME TInv, [Next]_vars, Settled, UNCHANGED item
  PROVE  Settled'
<1>1. /\ InStep /\ view.offset = Len(view.items) /\ removal.pc = "none"
      /\ load.pc # "none" => Fits /\ (~load.reset => load.from = view.offset)
  BY DEF Settled
<1>2. view.items \in Seq(Items) /\ Len(view.items) \in Nat /\ load.reset \in BOOLEAN /\ load.from \in Nat
  <2>1. view.items \in Seq(Items) /\ load.reset \in BOOLEAN /\ load.from \in Nat
    BY DEF TInv, LoadOK, Load
  <2> QED
    BY <2>1, LenProperties
<1>3. Gallery' = Gallery /\ Gallery \in Seq(Items) /\ Len(Gallery) \in Nat
  BY SameGallery, GalleryIsSeq, LenProperties
<1>4. /\ Follows(view.items, 0, Gallery)
      /\ Len(view.items) >= IF Page < Len(Gallery) THEN Page ELSE Len(Gallery)
      /\ view.more = (Len(view.items) < Len(Gallery))
  BY <1>1, InStepFollows
<1>5. Len(view.items) <= Len(Gallery)
  BY <1>2, <1>4 DEF Follows
<1>6. CASE Aside
  BY <1>1, <1>6, AsideKeeps DEF Aside, Settled
<1>7. ASSUME UNCHANGED <<view, removal>>,
             load'.pc # "none" => Fits' /\ (~load'.reset => load'.from = view.offset)
      PROVE  Settled'
  <2>1. InStep'
    BY <1>1, <1>3, <1>7 DEF InStep
  <2> QED
    BY <1>1, <1>7, <2>1 DEF Settled
<1>8. ASSUME UNCHANGED <<view, removal>>, Poll \/ Tick \/ LoadMore PROVE Settled'
  <2>1. PICK reset \in BOOLEAN, background \in BOOLEAN : Starts(reset, background)
    BY <1>8 DEF Poll, Tick, LoadMore
  <2>2. Fits' /\ load'.reset = reset
    BY <1>1, <1>5, <2>1, FitsBegins
  <2>3. load'.from = IF reset THEN 0 ELSE view.offset
    BY <2>1, LoadBegins
  <2> QED
    BY <1>7, <1>8, <2>2, <2>3
<1>9. ASSUME UNCHANGED <<view, removal>>, ListGallery PROVE Settled'
  <2>1. Fits /\ (~load.reset => load.from = view.offset)
    BY <1>1, <1>9 DEF ListGallery
  <2>2. Fits' /\ load'.reset = load.reset /\ load'.from = load.from
    BY <1>9, <2>1, FitsAnswered
  <2> QED
    BY <1>7, <1>9, <2>1, <2>2
<1>10. ASSUME UNCHANGED <<view, removal>>, LoadFails PROVE Settled'
  BY <1>7, <1>10 DEF LoadFails, NoLoad
<1>11. ASSUME UNCHANGED removal, Receive PROVE Settled'
  <2> DEFINE got == load.got \o load.answer.rows
             shown == IF load.reset THEN got ELSE view.items \o got
  <2>1. Fits /\ (~load.reset => load.from = view.offset)
    BY <1>1, <1>11 DEF Receive
  <2>2. got \in Seq(Items) /\ Follows(got, load.from, Gallery)
    BY <1>11, <2>1, FitsReceived
  <2>3. Len(got) \in Nat
    BY <2>2, LenProperties
  <2>4. CASE Fits' /\ load'.pc = "asking" /\ load'.reset = load.reset /\ load'.from = load.from /\ view' = view
    BY <1>7, <1>11, <2>1, <2>4
  <2>5. CASE /\ view' = [items |-> shown, offset |-> load.from + Len(got), more |-> load.answer.more]
             /\ load'.pc = "none"
             /\ load.answer.more = (load.from + Len(got) < Len(Gallery))
             /\ load.from + Len(got) = Len(Gallery) \/ Len(got) >= load.limit
    <3>1. shown \in Seq(Items) /\ Len(shown) = load.from + Len(got) /\ Follows(shown, 0, Gallery)
      <4>1. CASE load.reset
        <5>1. load.from = 0
          BY <2>1, <4>1 DEF Fits
        <5> QED
          BY <2>2, <2>3, <4>1, <5>1
      <4>2. CASE ~load.reset
        <5>1. /\ view.items \o got \in Seq(Items) /\ Len(view.items \o got) = Len(view.items) + Len(got)
              /\ \A i \in 1..(Len(view.items) + Len(got)) :
                    (view.items \o got)[i] = IF i <= Len(view.items) THEN view.items[i] ELSE got[i - Len(view.items)]
          BY <1>2, <2>2, ConcatProperties
        <5>2. load.from = Len(view.items) /\ load.from = 0 + Len(view.items)
          BY <1>1, <1>2, <2>1, <4>2
        <5>3. Follows(view.items \o got, 0, Gallery)
          <6> DEFINE c == view.items \o got
          <6>1. Len(c) = Len(view.items) + Len(got) /\ c \in Seq(Items)
            BY <5>1
          <6>2. \A i \in 1..Len(c) : c[i] = IF i <= Len(view.items) THEN view.items[i] ELSE got[i - Len(view.items)]
            BY <5>1
          <6>3. Follows(got, 0 + Len(view.items), Gallery)
            BY <2>2, <5>2
          <6> HIDE DEF got, c
          <6>4. Follows(c, 0, Gallery)
            BY <1>2, <1>3, <1>4, <2>2, <6>1, <6>2, <6>3, FollowsOn
          <6> QED
            BY <6>4 DEF c
        <5> QED
          BY <4>2, <5>1, <5>2, <5>3
      <4> QED
        BY <4>1, <4>2
    <3> HIDE DEF got, shown
    <3>2. view'.items = shown /\ view'.offset = Len(shown) /\ view'.more = (Len(shown) < Len(Gallery))
      BY <2>5, <3>1
    <3>3. Len(shown) \in Nat
      BY <3>1, LenProperties
    <3>4. Len(shown) >= IF Page < Len(Gallery) THEN Page ELSE Len(Gallery)
      <4>1. CASE load.from + Len(got) = Len(Gallery)
        BY <1>3, <3>1, <4>1, ConstantsAssumption
      <4>2. CASE ~load.reset
        BY <1>1, <1>2, <1>3, <1>4, <2>1, <2>3, <3>1, <4>2, ConstantsAssumption
      <4>3. CASE load.reset /\ Len(got) >= load.limit
        <5>1. load.from = 0 /\ load.limit >= Page /\ load.limit \in Nat
          BY <2>1, <4>3 DEF Fits, TInv, LoadOK, Load
        <5> QED
          BY <1>3, <2>3, <3>1, <4>3, <5>1, ConstantsAssumption
      <4> QED
        BY <1>2, <2>5, <4>1, <4>2, <4>3
    <3>5. InStep'
      <4>1. IsPrefix(shown, Gallery)
        BY <1>3, <3>1, PrefixFollows
      <4> QED
        BY <1>3, <3>2, <3>4, <4>1 DEF InStep
    <3> QED
      BY <1>1, <1>11, <2>5, <3>2, <3>5 DEF Settled
  <2> QED
    BY <1>11, <2>1, <2>4, <2>5, FitsReceived
<1> QED
  BY <1>1, <1>6, <1>8, <1>9, <1>10, <1>11, PageSteps

\* Of GalleryGrid's offset: in step with the gallery, no poll, scroll or failure takes the
\* page out of step; only a change of the gallery does.
THEOREM PageStaysInStep == Spec => StaysInStep
<1>1. TInv /\ [Next]_vars => [Settled /\ UNCHANGED item => Settled']_vars
  BY SettledStep
<1> QED
  BY <1>1, TypeInit, TypeStep, PTL DEF Spec, StaysInStep

\* A repair goes on, or is over.
LEMMA RepairStep ==
  ASSUME TInv, [Next]_vars, Repairing, UNCHANGED item, ~LoadMore, ~LoadFails
  PROVE  Repairing' \/ Settled'
<1>1. load.pc # "none" /\ load.reset /\ removal.pc = "none" /\ Fits
  BY DEF Repairing
<1>2. CASE Aside
  BY <1>1, <1>2, AsideKeeps DEF Aside, Repairing
<1>3. ASSUME UNCHANGED <<view, removal>>, Poll \/ Tick PROVE Repairing'
  <2>1. PICK background \in BOOLEAN : Starts(TRUE, background)
    BY <1>3 DEF Poll, Tick
  <2>2. Fits' /\ load'.pc = "asking" /\ load'.reset = TRUE
    BY <2>1, FitsBegins
  <2> QED
    BY <1>1, <1>3, <2>2 DEF Repairing
<1>4. ASSUME UNCHANGED <<view, removal>>, ListGallery PROVE Repairing'
  <2>1. Fits' /\ load'.pc = "answered" /\ load'.reset = load.reset
    BY <1>1, <1>4, FitsAnswered
  <2> QED
    BY <1>1, <1>4, <2>1 DEF Repairing
<1>5. ASSUME UNCHANGED removal, Receive PROVE Repairing' \/ Settled'
  <2> DEFINE got == load.got \o load.answer.rows
  <2>1. got \in Seq(Items) /\ Follows(got, load.from, Gallery)
    BY <1>1, <1>5, FitsReceived
  <2>2. Gallery' = Gallery /\ Gallery \in Seq(Items) /\ Len(Gallery) \in Nat /\ Len(got) \in Nat
    BY <2>1, SameGallery, GalleryIsSeq, LenProperties
  <2>3. CASE Fits' /\ load'.pc = "asking" /\ load'.reset = load.reset
    BY <1>1, <1>5, <2>3 DEF Repairing
  <2>4. ASSUME view' = [items |-> IF load.reset THEN got ELSE view.items \o got,
                        offset |-> load.from + Len(got), more |-> load.answer.more],
               load'.pc = "none",
               load.answer.more = (load.from + Len(got) < Len(Gallery)),
               load.from + Len(got) = Len(Gallery) \/ Len(got) >= load.limit
        PROVE  Settled'
    <3>1. load.from = 0 /\ load.limit >= Page /\ load.limit \in Nat
      BY <1>1 DEF Fits, TInv, LoadOK, Load
    <3> HIDE DEF got
    <3>2. load.from + Len(got) = Len(got)
      BY <2>2, <3>1
    <3>3. view'.items = got /\ view'.offset = Len(got) /\ view'.more = (Len(got) < Len(Gallery))
      BY <1>1, <2>4, <3>2
    <3>4. Len(got) >= IF Page < Len(Gallery) THEN Page ELSE Len(Gallery)
      BY <2>2, <2>4, <3>1, <3>2, ConstantsAssumption
    <3>5. IsPrefix(got, Gallery)
      BY <2>1, <2>2, <3>1, PrefixFollows
    <3>6. InStep'
      BY <2>2, <3>3, <3>4, <3>5 DEF InStep
    <3> QED
      BY <1>1, <1>5, <2>4, <3>3, <3>6 DEF Settled
  <2> QED
    BY <1>1, <1>5, <2>3, <2>4, FitsReceived
<1> QED
  BY <1>1, <1>2, <1>3, <1>4, <1>5, PageSteps

\* Of the three-second poll: whatever the page shows and wherever its offset is, the load it
\* starts heads for the page in step, page after page.
THEOREM PollingRepairs == Spec => PollsRepair
<1>1. ASSUME TInv, [Next]_vars, removal.pc = "none", UNCHANGED item, Poll \/ Tick PROVE Repairing'
  <2>1. PICK background \in BOOLEAN : Starts(TRUE, background)
    BY <1>1 DEF Poll, Tick
  <2>2. Fits' /\ load'.pc = "asking" /\ load'.reset = TRUE
    BY <1>1, <2>1, FitsBegins
  <2>3. removal' = removal
    BY <1>1 DEF Poll, Tick
  <2> QED
    BY <1>1, <2>2, <2>3 DEF Repairing
<1>2. TInv /\ [Next]_vars =>
        [removal.pc = "none" /\ UNCHANGED item =>
          /\ Poll \/ Tick => Repairing'
          /\ Repairing /\ ~LoadMore /\ ~LoadFails => Repairing' \/ Settled']_vars
  BY <1>1, RepairStep
<1> QED
  BY <1>2, TypeInit, TypeStep, PTL DEF Spec, PollsRepair

\* Of load's do-while: it asks for no more pages than its limit has items.
THEOREM LoadsEnd == Spec => LoadsAdvance
<1>1. ASSUME TInv, Receive
      PROVE  \/ load'.pc = "none"
             \/ /\ load'.limit = load.limit
                /\ Len(load.got) < Len(load'.got) /\ Len(load'.got) < load.limit
  <2> DEFINE got == load.got \o load.answer.rows
  <2>1. CASE load' = NoLoad
    BY <2>1 DEF NoLoad
  <2>2. CASE /\ load.answer.rows # <<>> /\ Len(got) < load.limit
             /\ load'.limit = load.limit /\ load'.got = got
    <3>1. Len(got) = Len(load.got) + Len(load.answer.rows)
      BY <1>1, LoadReceived
    <3>2. load.got \in Seq(Items) /\ load.answer.rows \in Seq(Items)
      BY <1>1 DEF TInv, LoadOK, Load, Answer
    <3>3. Len(load.got) \in Nat /\ Len(load.answer.rows) \in Nat \ {0}
      BY <2>2, <3>2, LenProperties, EmptySeq
    <3>4. \A m \in Nat, n \in Nat \ {0} : m < m + n
      OBVIOUS
    <3>5. Len(load.got) < Len(load.got) + Len(load.answer.rows)
      BY <3>3, <3>4, Zenon
    <3>6. Len(load.got) < Len(load'.got)
      BY <2>2, <3>1, <3>5, Zenon
    <3>7. Len(load'.got) < load.limit
      BY <2>2, Zenon
    <3> QED
      BY <2>2, <3>6, <3>7
  <2>3. \/ /\ load.answer.more /\ load.answer.rows # <<>> /\ Len(got) < load.limit
           /\ load'.pc = "asking" /\ load'.reset = load.reset /\ load'.from = load.from
           /\ load'.limit = load.limit /\ load'.got = got
        \/ load' = NoLoad
    BY <1>1, LoadReceived
  <2> QED
    BY <2>1, <2>2, <2>3
<1>2. TInv /\ [Next]_vars =>
        [Receive => \/ load'.pc = "none"
                    \/ /\ load'.limit = load.limit
                       /\ Len(load.got) < Len(load'.got) /\ Len(load'.got) < load.limit]_vars
  BY <1>1
<1> QED
  BY <1>2, TypeInit, TypeStep, PTL DEF Spec, LoadsAdvance
=============================================================================
