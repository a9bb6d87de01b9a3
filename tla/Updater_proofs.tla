---------------------------- MODULE Updater_proofs ----------------------------
(***************************************************************************)
(* Theorems about the software update, for any tags in any order, pages of *)
(* any size, any number of checks at a time, requests and crashes: what is *)
(* shown is true, a request is applied once, a check misses no release,    *)
(* the version that runs only grows while checks do not overlap, and the   *)
(* two files make one update job at a time.                                *)
(*                                                                         *)
(* The invariant follows a request through the two files by its number     *)
(* (BegunOnce) and the status through the script (StatusTrue); a check     *)
(* through the pages (PagesCover: what must not be missed is found or      *)
(* still to come, and what is behind was read in full pages, so that the   *)
(* limit on pages is not met first); and a version on its way from the     *)
(* registry to the container (Ordered).                                    *)
(***************************************************************************)
EXTENDS Updater, FiniteSetTheorems, SequenceTheorems, WellFoundedInduction,
        TLAPS

-----------------------------------------------------------------------------
(* Numbers.                                                                *)

(* A set of naturals has a least element, since < is well-founded.         *)
LEMMA LeastElement ==
    ASSUME NEW T, T \subseteq Nat, T # {}
    PROVE  \E x \in T : \A y \in T : x =< y
<1> DEFINE R == {ss \in Nat \X Nat : ss[1] < ss[2]}
<1>1. \E x \in T : \A y \in T : ~(<<y, x>> \in R)
  <2>1. IsWellFoundedOn(R, Nat)
    BY NatLessThanWellFounded DEF OpToRel
  <2> HIDE DEF R
  <2> QED
    BY <2>1, WFMin
<1>2. PICK x \in T : \A y \in T : ~(<<y, x>> \in R)
  BY <1>1
<1>3. ASSUME NEW y \in T PROVE x =< y
  <2>1. x \in Nat /\ y \in Nat /\ ~(<<y, x>> \in R)
    BY <1>2
  <2> QED
    BY <2>1
<1> QED
  BY <1>3

(* So has a set of numbers below n a greatest.                             *)
LEMMA GreatestElement ==
    ASSUME NEW n \in Nat, NEW T, T \subseteq 1..n, T # {}
    PROVE  \E x \in T : \A y \in T : y =< x
<1> DEFINE back == {n - i : i \in T}
<1>1. back \subseteq Nat /\ back # {}
  <2>1. \A i \in T : i \in 1..n /\ n - i \in Nat
    OBVIOUS
  <2>2. PICK i \in T : TRUE
    OBVIOUS
  <2> QED
    BY <2>1, <2>2
<1>2. PICK b \in back : \A c \in back : b =< c
  BY <1>1, LeastElement
<1>3. PICK i \in T : b = n - i
  OBVIOUS
<1>4. ASSUME NEW j \in T PROVE j =< i
  <2>1. n - j \in back /\ i \in Int /\ j \in Int
    OBVIOUS
  <2> QED
    BY <1>2, <1>3, <2>1
<1> QED
  BY <1>4

-----------------------------------------------------------------------------
(* Versions are ordered, and a set of them has a highest.                  *)

LEMMA TagsTyped ==
    /\ Len(TagOrder) \in Nat /\ DOMAIN TagOrder = 1..Len(TagOrder)
    /\ \A i \in 1..Len(TagOrder) : TagOrder[i] \in Tags
    /\ \A v \in Versions :
          v \in Tags /\ v # None /\ v[1] \in Nat /\ v[2] \in Nat /\ v[3] \in Nat
<1>1. TagOrder \in Seq(Seq(Nat))
  BY UpdaterConstants
<1>2. Len(TagOrder) \in Nat /\ DOMAIN TagOrder = 1..Len(TagOrder)
  BY <1>1, LenProperties
<1>3. \A i \in 1..Len(TagOrder) : TagOrder[i] \in Tags
  BY <1>2 DEF Tags
<1>4. ASSUME NEW v \in Versions
      PROVE  v \in Tags /\ v # None /\ v[1] \in Nat /\ v[2] \in Nat /\ v[3] \in Nat
  <2>1. PICK i \in 1..Len(TagOrder) : v = TagOrder[i]
    BY <1>2 DEF Versions, Tags
  <2>2. v \in Seq(Nat) /\ Len(v) = 3 /\ v \in Tags
    BY <1>1, <2>1, ElementOfSeq DEF Versions
  <2>3. Len(<<>>) = 0
    BY EmptySeq
  <2>4. \A j \in 1..3 : v[j] \in Nat
    BY <2>2, ElementOfSeq
  <2>5. v[1] \in Nat /\ v[2] \in Nat /\ v[3] \in Nat
    BY <2>4
  <2>6. v # None
    BY <2>2, <2>3 DEF None
  <2> QED
    BY <2>2, <2>5, <2>6
<1> QED
  BY <1>2, <1>3, <1>4

LEMMA HigherLex ==
    ASSUME NEW a \in Versions, NEW b \in Versions
    PROVE  Higher(a, b) <=>
              \/ a[1] > b[1]
              \/ a[1] = b[1] /\ a[2] > b[2]
              \/ a[1] = b[1] /\ a[2] = b[2] /\ a[3] > b[3]
<1>1. /\ a[1] \in Nat /\ a[2] \in Nat /\ a[3] \in Nat
      /\ b[1] \in Nat /\ b[2] \in Nat /\ b[3] \in Nat
  BY TagsTyped
<1>2. Higher(a, b) <=> \/ a[1] > b[1] /\ \A j \in 1..0 : a[j] = b[j]
                       \/ a[2] > b[2] /\ \A j \in 1..1 : a[j] = b[j]
                       \/ a[3] > b[3] /\ \A j \in 1..2 : a[j] = b[j]
  <2>1. 1..3 = {1, 2, 3} /\ 1 - 1 = 0 /\ 2 - 1 = 1 /\ 3 - 1 = 2
    OBVIOUS
  <2> QED
    BY <2>1 DEF Higher
<1>3. 1..0 = {} /\ 1..1 = {1} /\ 1..2 = {1, 2}
  OBVIOUS
<1> QED
  BY <1>2, <1>3

LEMMA HigherOrders ==
    ASSUME NEW a \in Versions, NEW b \in Versions, NEW c \in Versions
    PROVE  /\ ~Higher(a, a)
           /\ Higher(a, b) /\ Higher(b, c) => Higher(a, c)
           /\ ~Higher(a, b) /\ ~Higher(b, c) => ~Higher(a, c)
<1>1. /\ a[1] \in Nat /\ a[2] \in Nat /\ a[3] \in Nat
      /\ b[1] \in Nat /\ b[2] \in Nat /\ b[3] \in Nat
      /\ c[1] \in Nat /\ c[2] \in Nat /\ c[3] \in Nat
  BY TagsTyped
<1>2. ~Higher(a, a)
  BY <1>1, HigherLex
<1>3. Higher(a, b) /\ Higher(b, c) => Higher(a, c)
  BY <1>1, HigherLex
<1>4. ~Higher(a, b) /\ ~Higher(b, c) => ~Higher(a, c)
  BY <1>1, HigherLex
<1> QED
  BY <1>2, <1>3, <1>4

(* By the least number of tags that would refute it.                       *)
LEMMA HighestExists ==
    ASSUME NEW T, T \subseteq Versions, T # {}
    PROVE  \E v \in T : \A w \in T : ~Higher(w, v)
<1> DEFINE n == Len(TagOrder)
           Upto(k) == {TagOrder[i] : i \in 1..k}
           Tops(S) == \E v \in S : \A w \in S : ~Higher(w, v)
           Bad(k) == \E S : S \subseteq Versions /\ S \subseteq Upto(k) /\ S # {} /\ ~Tops(S)
           B == {k \in 0..n : Bad(k)}
<1>1. n \in Nat /\ DOMAIN TagOrder = 1..n
  BY TagsTyped
<1>2. SUFFICES ASSUME ~Tops(T) PROVE FALSE
  OBVIOUS
<1>3. n \in B
  <2>1. T \subseteq Upto(n)
    BY <1>1 DEF Versions, Tags
  <2> QED
    BY <1>1, <1>2, <2>1
<1>4. PICK k \in B : \A j \in B : k =< j
  <2>1. B \subseteq Nat
    BY <1>1
  <2> HIDE DEF B
  <2> QED
    BY <1>3, <2>1, LeastElement
<1>5. PICK S : S \subseteq Versions /\ S \subseteq Upto(k) /\ S # {} /\ ~Tops(S)
  OBVIOUS
<1>6. k # 0
  BY <1>5
<1>7. k - 1 \in 0..n /\ ~Bad(k - 1)
  <2> HIDE DEF Bad
  <2>1. k - 1 \in 0..n /\ ~(k =< k - 1)
    BY <1>1, <1>6
  <2>2. k - 1 \notin B
    BY <1>4, <2>1
  <2> QED
    BY <2>1, <2>2
<1> DEFINE x == TagOrder[k]
           R == S \ {x}
<1>8. R \subseteq Versions /\ R \subseteq Upto(k - 1)
  <2>1. \A i \in 1..k : i = k \/ i \in 1..(k - 1)
    BY <1>1
  <2> QED
    BY <1>5, <2>1
<1>9. R = {} \/ Tops(R)
  BY <1>7, <1>8
<1>10. x \in S
  BY <1>5, <1>9
<1>11. R # {}
  <2>1. R = {} => S = {x}
    BY <1>10
  <2>2. ~Higher(x, x)
    BY <1>5, <1>10, HigherOrders
  <2> QED
    BY <1>5, <2>1, <2>2
<1>12. PICK m \in R : \A w \in R : ~Higher(w, m)
  BY <1>9, <1>11
<1> HIDE DEF x, R, Upto
<1>13. /\ S \subseteq Versions /\ m \in S /\ x \in S
       /\ \A w \in S : w = x \/ w \in R
       /\ \A w \in R : w \in S
  BY <1>5, <1>10, <1>12 DEF R
<1>14. CASE Higher(x, m)
  <2>1. ASSUME NEW w \in S PROVE ~Higher(w, x)
    BY <1>12, <1>13, <1>14, HigherOrders
  <2> QED
    BY <1>5, <1>13, <2>1
<1>15. CASE ~Higher(x, m)
  BY <1>5, <1>12, <1>13, <1>15
<1> QED
  BY <1>14, <1>15

(* maxSemver returns a version that none of the tags exceeds, if there is  *)
(* any version at all.                                                     *)
LEMMA MaxSemverIsHighest ==
    ASSUME NEW ts
    PROVE  /\ MaxSemver(ts) \in (ts \cap Versions) \cup {None}
           /\ \A w \in ts \cap Versions :
                 /\ MaxSemver(ts) \in ts \cap Versions
                 /\ ~Higher(w, MaxSemver(ts))
<1> DEFINE vs == ts \cap Versions
<1>1. CASE vs = {}
  BY <1>1 DEF MaxSemver
<1>2. CASE vs # {}
  <2>1. \E v \in vs : \A w \in vs : ~Higher(w, v)
    BY <1>2, HighestExists
  <2>2. MaxSemver(ts) = CHOOSE v \in vs : \A w \in vs : ~Higher(w, v)
    BY <1>2 DEF MaxSemver
  <2> HIDE DEF vs
  <2>3. MaxSemver(ts) \in vs /\ \A w \in vs : ~Higher(w, MaxSemver(ts))
    BY <2>1, <2>2
  <2> QED
    BY <2>3 DEF vs
<1> QED
  BY <1>1, <1>2

-----------------------------------------------------------------------------
(* The pages of the registry.                                              *)

LEMMA PagesTyped ==
    ASSUME NEW last \in 0..Len(TagOrder)
    PROVE  /\ After(last) \subseteq (last + 1)..Len(TagOrder)
           /\ Page(last) \subseteq After(last)
           /\ IsFiniteSet(After(last)) /\ IsFiniteSet(Page(last))
<1>1. Len(TagOrder) \in Nat /\ DOMAIN TagOrder = 1..Len(TagOrder)
  BY TagsTyped
<1>2. After(last) \subseteq (last + 1)..Len(TagOrder)
  BY <1>1 DEF After
<1>3. Page(last) \subseteq After(last)
  BY DEF Page
<1>4. IsFiniteSet((last + 1)..Len(TagOrder))
  BY <1>1, FS_Interval
<1> QED
  BY <1>2, <1>3, <1>4, FS_Subset

(* A page that is not the last is full, and all that follows on later      *)
(* pages is listed after it.                                               *)
LEMMA FullPage ==
    ASSUME NEW last \in 0..Len(TagOrder), After(last) # Page(last)
    PROVE  /\ NextLink(last) \in Page(last)
           /\ NextLink(last) >= last + PageSize
           /\ \A p \in After(last) \ Page(last) : p > NextLink(last)
<1> DEFINE n == Len(TagOrder)
           A == After(last)
           P == Page(last)
           Till(i) == {j \in A : j =< i}
<1>1. /\ n \in Nat /\ A \subseteq (last + 1)..n /\ P \subseteq A
      /\ IsFiniteSet(A) /\ IsFiniteSet(P) /\ PageSize \in Nat \ {0}
  BY PagesTyped, TagsTyped, UpdaterConstants
<1>2. \A i \in A : i \in P <=> Cardinality(Till(i)) =< PageSize
  BY DEF Page
<1>3. A \subseteq 1..n /\ A \subseteq Nat
  BY <1>1
<1>4. ASSUME NEW i \in A PROVE IsFiniteSet(Till(i)) /\ Cardinality(Till(i)) \in Nat
  <2>1. Till(i) \subseteq A
    OBVIOUS
  <2> HIDE DEF Till
  <2> QED
    BY <1>1, <2>1, FS_Subset, FS_CardinalityType
<1>5. ASSUME NEW p \in A \ P, NEW i \in P PROVE i < p
  <2>1. SUFFICES ASSUME p =< i PROVE FALSE
    BY <1>1, <1>3
  <2>2. Till(p) \subseteq Till(i) /\ i \in A
    BY <1>1, <1>3, <2>1
  <2>3. Cardinality(Till(p)) =< Cardinality(Till(i))
    <3> HIDE DEF Till
    <3> QED
      BY <1>4, <2>2, FS_Subset
  <2>4. Cardinality(Till(i)) =< PageSize
    BY <1>2, <2>2
  <2>5. Cardinality(Till(p)) =< PageSize
    <3>1. p \in A /\ PageSize \in Nat
      BY <1>1
    <3>2. Cardinality(Till(p)) \in Nat /\ Cardinality(Till(i)) \in Nat
      BY <1>4, <2>2, <3>1
    <3> HIDE DEF Till
    <3> QED
      BY <2>3, <2>4, <3>1, <3>2
  <2> QED
    BY <1>2, <2>5
<1>6. PICK p \in A \ P : \A q \in A \ P : p =< q
  <2> DEFINE D == A \ P
  <2>1. D \subseteq Nat /\ D # {}
    BY <1>1, <1>3
  <2> HIDE DEF D
  <2>2. \E p \in D : \A q \in D : p =< q
    BY <2>1, LeastElement
  <2> QED
    BY <2>2 DEF D
<1>7. Till(p) = P \cup {p}
  <2>1. ASSUME NEW j \in A, j =< p PROVE j \in P \cup {p}
    BY <1>3, <1>6, <2>1
  <2>2. ASSUME NEW j \in P PROVE j \in A /\ j =< p
    BY <1>1, <1>3, <1>5
  <2> QED
    BY <1>3, <2>1, <2>2
<1>8. Cardinality(P) \in Nat /\ Cardinality(P) >= PageSize
  <2>1. Cardinality(P \cup {p}) = Cardinality(P) + 1
    BY <1>1, FS_AddElement
  <2>2. Cardinality(Till(p)) > PageSize
    <3>1. p \in A /\ p \notin P /\ PageSize \in Nat
      BY <1>1
    <3>2. Cardinality(Till(p)) \in Nat
      BY <1>4, <3>1
    <3>3. ~(Cardinality(Till(p)) =< PageSize)
      BY <1>2, <3>1
    <3> HIDE DEF Till
    <3> QED
      BY <3>1, <3>2, <3>3
  <2>3. Cardinality(P) \in Nat
    BY <1>1, FS_CardinalityType
  <2>4. PageSize \in Nat /\ Cardinality(Till(p)) = Cardinality(P) + 1
    BY <1>1, <1>7, <2>1
  <2> HIDE DEF Till, P
  <2> QED
    BY <2>2, <2>3, <2>4
<1>9. P # {}
  BY <1>1, <1>8, FS_EmptySet
<1>10. NextLink(last) \in P /\ \A j \in P : j =< NextLink(last)
  <2>1. P \subseteq 1..n
    BY <1>1, <1>3
  <2>2. NextLink(last) = CHOOSE i \in P : \A j \in P : j =< i
    BY DEF NextLink
  <2> HIDE DEF P, n
  <2>3. \E i \in P : \A j \in P : j =< i
    BY <1>1, <1>9, <2>1, GreatestElement
  <2> QED
    BY <2>2, <2>3
<1>11. NextLink(last) >= last + PageSize
  <2> DEFINE x == NextLink(last)
             I == (last + 1)..x
  <2>1. x \in 1..n /\ P \subseteq I
    BY <1>1, <1>3, <1>10
  <2> HIDE DEF x, P
  <2>2. IsFiniteSet(I) /\ Cardinality(I) = IF last + 1 > x THEN 0 ELSE x - (last + 1) + 1
    BY <1>1, <2>1, FS_Interval
  <2>3. Cardinality(P) =< Cardinality(I)
    BY <2>1, <2>2, FS_Subset
  <2>4. x >= last + PageSize
    BY <1>1, <1>8, <2>1, <2>2, <2>3
  <2> QED
    BY <2>4 DEF x
<1> QED
  BY <1>5, <1>10, <1>11

-----------------------------------------------------------------------------
(* The inductive invariant.                                                *)

Busy == {"applying", "pinned", "pulled", "up"}

(* A request, read or not, has a number that was issued, and asks for a    *)
(* version that was published.                                             *)
IsRequest(r) == r.id \in 1..issued /\ r.version \in tags \cap Versions

Types ==
    /\ TypeOK
    /\ running \in Versions /\ pinned \in Versions /\ latest \in Versions \cup {None}
    /\ applied \in [1..MaxRequests -> Nat]
    /\ request # NoRequest => IsRequest(request)
    /\ job # NoRequest => IsRequest(job)

(* A request is not begun while it can still be read or was just read, and *)
(* the one consumed is not the one waiting.                                *)
BegunOnce ==
    /\ \A i \in 1..MaxRequests : applied[i] =< 1 /\ (i > issued => applied[i] = 0)
    /\ request # NoRequest => applied[request.id] = 0
    /\ sidecar \in {"read", "consumed"} => applied[job.id] = 0
    /\ sidecar = "consumed" => request.id # job.id

(* The status is that of the job under way, and tells of a compose file    *)
(* that pins another version, whatever the sidecar is doing.               *)
StatusTrue ==
    /\ DoneIsTrue
    /\ pinned # running => status.state \in {"failed", "applying"}
    /\ sidecar \in Busy => status = [state |-> "applying", version |-> job.version]
    /\ sidecar \in {"pinned", "pulled", "up"} => pinned = job.version
    /\ sidecar = "up" => running = pinned

(* The release a check must not miss is found or still to be listed; and   *)
(* the pages read so far were full, so that there are enough of them.      *)
Covers(k) == k.best # None /\ ~Higher(k.floor, k.best)

PagesCover ==
    \A c \in Checkers :
        /\ check[c].best \in tags \cup {None}
        /\ check[c].stage # "idle" => check[c].floor \in tags \cap Versions
        /\ check[c].stage = "fetched" => Covers(check[c])
        /\ check[c].stage = "listing" =>
              /\ check[c].page * PageSize =< check[c].last
              /\ \E p \in DOMAIN TagOrder :
                    /\ TagOrder[p] = check[c].floor
                    /\ p > check[c].last \/ Covers(check[c])

(* While checks do not overlap: what a check will find, what it found, what *)
(* was requested of that, what the script works on, and what runs are each  *)
(* no older than the next.                                                  *)
Newer(v, vs) == \A w \in vs \cap Versions : ~Higher(w, v)

Ordered ==
    ~overlapped =>
        /\ \A c, d \in Checkers :
              check[c].stage # "idle" /\ check[d].stage # "idle" => c = d
        /\ \A c \in Checkers : check[c].stage # "idle" =>
              Newer(check[c].floor, {latest, request.version, job.version, running})
        /\ latest # None => Newer(latest, {request.version, job.version, running})
        /\ request # NoRequest => Newer(request.version, {job.version, running})
        /\ job # NoRequest => Newer(job.version, {running})

IInv == Types /\ BegunOnce /\ StatusTrue /\ PagesCover /\ Ordered

-----------------------------------------------------------------------------
(* The parts of the invariant that a step leaves alone.                    *)

LEMMA PagesKept ==
    ASSUME PagesCover, UNCHANGED check, tags \subseteq tags'
    PROVE  PagesCover'
BY DEF PagesCover, Covers

LEMMA PagesForgotten ==
    ASSUME ForgetChecks
    PROVE  /\ PagesCover' /\ check' \in [Checkers -> Checks]
           /\ \A c \in Checkers : check'[c].stage = "idle"
<1>1. \A c \in Checkers : check'[c] = Idle
  BY DEF ForgetChecks
<1>2. Idle.stage = "idle" /\ Idle.best = None /\ Idle \in Checks
  BY TagsTyped, UpdaterConstants DEF Idle, Checks
<1> QED
  BY <1>1, <1>2 DEF PagesCover, Covers, ForgetChecks

LEMMA OnceKept ==
    ASSUME BegunOnce, UNCHANGED <<applied, issued, request, job, sidecar>>
    PROVE  BegunOnce'
BY DEF BegunOnce

LEMMA StatusKept ==
    ASSUME StatusTrue, UNCHANGED <<status, running, pinned, sidecar, job>>
    PROVE  StatusTrue'
BY DEF StatusTrue, DoneIsTrue

LEMMA RequestsTyped ==
    ASSUME Types
    PROVE  /\ NoRequest \in Requests /\ NoRequest.version = None
           /\ None \notin Versions
           /\ request # NoRequest => request.id \in 1..MaxRequests
           /\ job # NoRequest => job.id \in 1..MaxRequests
<1>1. issued \in 0..MaxRequests /\ MaxRequests \in Nat
  BY UpdaterConstants DEF Types, TypeOK
<1>2. None \notin Versions
  BY TagsTyped
<1> QED
  BY <1>1, <1>2 DEF Types, IsRequest, NoRequest, Requests

-----------------------------------------------------------------------------
(* The invariant is inductive: one step per action.                        *)

LEMMA IInvInit == Init => IInv
<1> SUFFICES ASSUME Init PROVE IInv
  OBVIOUS
<1>1. /\ FirstVersion \in tags /\ FirstVersion \in Versions /\ FirstVersion \in Tags
      /\ tags \subseteq Tags /\ request = NoRequest /\ job = NoRequest
      /\ running = FirstVersion /\ pinned = FirstVersion
      /\ sidecar = "poll" /\ status = [state |-> "idle", version |-> None]
  BY TagsTyped, UpdaterConstants DEF Init
<1>2. /\ \A c \in Checkers : check[c] = Idle
      /\ Idle.stage = "idle" /\ Idle.best = None /\ Idle \in Checks
      /\ check \in [Checkers -> Checks]
  BY TagsTyped, UpdaterConstants DEF Init, Idle, Checks
<1>3. /\ issued \in 0..MaxRequests /\ crashes \in 0..MaxCrashes
      /\ applied \in [1..MaxRequests -> Nat]
      /\ \A i \in 1..MaxRequests : applied[i] = 0
      /\ NoRequest \in Requests
  BY UpdaterConstants DEF Init, NoRequest, Requests
<1>4. TypeOK
  <2>1. latest \in tags \cup {None} /\ fresh \in BOOLEAN /\ overlapped \in BOOLEAN
    BY DEF Init
  <2>2. status \in [state : {"idle", "applying", "done", "failed"},
                   version : Versions \cup {None}]
    BY <1>1
  <2>3. request \in Requests /\ job \in Requests /\ {running, pinned} \subseteq tags
    BY <1>1, <1>3
  <2> QED
    BY <1>1, <1>2, <1>3, <2>1, <2>2, <2>3 DEF TypeOK
<1>5. Types
  BY <1>1, <1>3, <1>4 DEF Init, Types
<1>6. BegunOnce
  BY <1>1, <1>3 DEF BegunOnce
<1>7. StatusTrue
  BY <1>1 DEF StatusTrue, DoneIsTrue, Busy
<1>8. PagesCover
  BY <1>2 DEF PagesCover
<1>9. Ordered
  BY <1>1, <1>2 DEF Init, Ordered
<1> QED
  BY <1>5, <1>6, <1>7, <1>8, <1>9 DEF IInv

LEMMA ReleaseStep == IInv /\ Release => IInv'
<1> SUFFICES ASSUME IInv, Release PROVE IInv'
  OBVIOUS
<1>1. /\ tags \subseteq tags' /\ tags' \subseteq Tags
      /\ UNCHANGED <<wha, request, status, script, issued, crashes>>
  BY DEF Release, IInv, Types, TypeOK, Versions
<1>2. Types'
  BY <1>1 DEF IInv, Types, TypeOK, IsRequest, wha, script
<1>3. Ordered'
  BY <1>1 DEF IInv, Ordered, Newer, wha, script
<1> QED
  BY <1>1, <1>2, <1>3, PagesKept, OnceKept, StatusKept DEF IInv, wha, script

(* The floor of a check that starts is the highest version published, and  *)
(* that what was found, requested or installed before it was published.    *)
LEMMA StartCheckStep ==
    ASSUME IInv, NEW c \in Checkers, StartCheck(c)
    PROVE  IInv'
<1> DEFINE k == [Listing EXCEPT !.floor = MaxSemver(tags)]
<1>1. /\ check' = [check EXCEPT ![c] = k]
      /\ overlapped' = (overlapped \/ \E d \in Checkers : check[d] # Idle)
      /\ UNCHANGED <<tags, running, latest, fresh, request, status, script,
                     issued, crashes>>
  BY DEF StartCheck
<1>2. /\ MaxSemver(tags) \in tags \cap Versions
      /\ \A w \in tags \cap Versions : ~Higher(w, MaxSemver(tags))
  BY MaxSemverIsHighest DEF IInv, Types, TypeOK
<1>3. k = [stage |-> "listing", page |-> 0, last |-> 0, best |-> None,
           floor |-> MaxSemver(tags)]
  <2>1. Listing = [stage |-> "listing", page |-> 0, last |-> 0, best |-> None,
                   floor |-> None]
    BY DEF Listing, Idle
  <2> QED
    BY <2>1
<1> HIDE DEF k
<1>4. k \in Checks
  <2>1. 0 \in 0..MaxTagPages /\ 0 \in 0..Len(TagOrder)
    BY TagsTyped, UpdaterConstants
  <2> QED
    BY <1>2, <1>3, <2>1 DEF Checks
<1>5. check' \in [Checkers -> Checks] /\ check'[c] = k
      /\ \A d \in Checkers : d # c => check'[d] = check[d]
  BY <1>1, <1>4 DEF IInv, Types, TypeOK
<1>6. Types'
  BY <1>1, <1>5 DEF IInv, Types, TypeOK, IsRequest, script
<1>7. PagesCover'
  <2>1. PICK p \in DOMAIN TagOrder : TagOrder[p] = MaxSemver(tags)
    BY <1>2 DEF IInv, Types, TypeOK, Tags
  <2>2. p > 0 /\ 0 * PageSize = 0
    BY <2>1, TagsTyped, UpdaterConstants
  <2>3. /\ k.best \in tags \cup {None}
        /\ k.stage # "idle" => k.floor \in tags \cap Versions
        /\ k.stage # "fetched" /\ k.page * PageSize =< k.last
        /\ \E q \in DOMAIN TagOrder : TagOrder[q] = k.floor /\ q > k.last
    BY <1>2, <1>3, <2>1, <2>2
  <2> QED
    BY <1>1, <1>5, <2>3 DEF IInv, PagesCover, Covers
<1>8. Ordered'
  <2> SUFFICES ASSUME ~overlapped' PROVE Ordered'
    BY DEF Ordered
  <2>1. ~overlapped /\ \A d \in Checkers : check[d] = Idle /\ Idle.stage = "idle"
    BY <1>1 DEF Idle
  <2>2. /\ \A d \in Checkers : d # c => check'[d].stage = "idle"
        /\ check'[c].floor = MaxSemver(tags)
    BY <1>3, <1>5, <2>1
  <2>3. {latest, request.version, job.version, running} \cap Versions \subseteq tags
    BY RequestsTyped DEF IInv, Types, TypeOK, IsRequest
  <2>4. Newer(MaxSemver(tags), {latest, request.version, job.version, running})
    BY <1>2, <2>3 DEF Newer
  <2> QED
    BY <1>1, <2>1, <2>2, <2>4 DEF IInv, Ordered, Newer, script
<1> QED
  BY <1>1, <1>6, <1>7, <1>8, OnceKept, StatusKept DEF IInv, script

(* A check that goes on, with the floor it has.                            *)
LEMMA CheckGoesOn ==
    ASSUME IInv, NEW c \in Checkers, check[c].stage # "idle",
           NEW j \in Checks, check' = [check EXCEPT ![c] = j],
           j.stage # "idle", j.floor = check[c].floor,
           j.best \in tags \cup {None},
           j.stage = "fetched" => Covers(j),
           j.stage = "listing" =>
              /\ j.page * PageSize =< j.last
              /\ \E p \in DOMAIN TagOrder :
                    TagOrder[p] = j.floor /\ (p > j.last \/ Covers(j)),
           UNCHANGED <<tags, running, latest, fresh, overlapped, request, status,
                       script, issued, crashes>>
    PROVE  IInv'
<1>1. /\ check' \in [Checkers -> Checks] /\ check'[c] = j
      /\ \A d \in Checkers : d # c => check'[d] = check[d]
  BY DEF IInv, Types, TypeOK
<1>2. Types'
  BY <1>1 DEF IInv, Types, TypeOK, IsRequest, script
<1>3. PagesCover'
  BY <1>1 DEF IInv, PagesCover, Covers
<1>4. Ordered'
  <2>1. \A d \in Checkers : /\ check'[d].stage # "idle" <=> check[d].stage # "idle"
                            /\ check'[d].floor = check[d].floor
    BY <1>1
  <2> QED
    BY <2>1 DEF IInv, Ordered, Newer, script
<1> QED
  BY <1>2, <1>3, <1>4, OnceKept, StatusKept DEF IInv, script

(* A page: the release that must not be missed is on it, or on one that    *)
(* follows.                                                                *)
LEMMA FetchPageStep ==
    ASSUME IInv, NEW c \in Checkers, FetchPage(c)
    PROVE  IInv'
<1> DEFINE k == check[c]
           best == MaxSemver({k.best} \cup {TagOrder[i] : i \in Page(k.last)})
           next == NextLink(k.last)
           more == [k EXCEPT !.page = @ + 1, !.last = next, !.best = best]
           end == [Idle EXCEPT !.stage = "fetched", !.best = best, !.floor = k.floor]
           j == check'[c]
<1>1. /\ k.stage = "listing"
      /\ check' = [check EXCEPT ![c] =
            IF next # 0 /\ k.page + 1 < MaxTagPages THEN more ELSE end]
      /\ UNCHANGED <<tags, running, latest, fresh, overlapped, request, status,
                     script, issued, crashes>>
  BY DEF FetchPage
<1>2. /\ k \in Checks /\ k.last \in 0..Len(TagOrder) /\ k.page \in 0..MaxTagPages
      /\ k.floor \in tags \cap Versions /\ k.best \in tags \cup {None}
      /\ tags \subseteq Tags /\ check \in [Checkers -> Checks]
  BY <1>1 DEF IInv, Types, TypeOK, PagesCover, Checks
<1>3. /\ Len(TagOrder) \in Nat /\ DOMAIN TagOrder = 1..Len(TagOrder)
      /\ PageSize \in Nat \ {0} /\ MaxTagPages \in Nat
      /\ PageSize * MaxTagPages >= Len(TagOrder)
  BY TagsTyped, UpdaterConstants
<1>4. /\ best \in (tags \cap Versions) \cup {None}
      /\ Covers(k) => best # None /\ ~Higher(k.floor, best)
      /\ \A i \in Page(k.last) :
            TagOrder[i] \in Versions => best # None /\ ~Higher(TagOrder[i], best)
  <2> DEFINE ts == {k.best} \cup {TagOrder[i] : i \in Page(k.last)}
  <2>1. ts \subseteq tags \cup {None}
    BY <1>2 DEF Page, After
  <2>2. /\ best \in (ts \cap Versions) \cup {None}
        /\ \A w \in ts \cap Versions :
              best \in ts \cap Versions /\ ~Higher(w, best)
    BY MaxSemverIsHighest
  <2>3. None \notin Versions
    BY TagsTyped
  <2>4. k.best \in Versions \cup {None}
    BY <1>2 DEF Checks
  <2>5. best \in (tags \cap Versions) \cup {None}
    BY <2>1, <2>2, <2>3
  <2>6. ASSUME Covers(k) PROVE best # None /\ ~Higher(k.floor, best)
    <3>1. k.best \in ts \cap Versions /\ ~Higher(k.floor, k.best)
      BY <2>4, <2>6 DEF Covers
    <3>2. best \in Versions /\ ~Higher(k.best, best)
      BY <2>2, <3>1
    <3> HIDE DEF best, k
    <3> QED
      BY <1>2, <2>3, <3>1, <3>2, HigherOrders
  <2>7. ASSUME NEW i \in Page(k.last), TagOrder[i] \in Versions
        PROVE  best # None /\ ~Higher(TagOrder[i], best)
    BY <2>2, <2>3, <2>7
  <2> QED
    BY <2>5, <2>6, <2>7
<1> HIDE DEF best, next
<1>5. PICK p \in DOMAIN TagOrder : TagOrder[p] = k.floor /\ (p > k.last \/ Covers(k))
  BY <1>1 DEF IInv, PagesCover
<1>6. /\ k.page * PageSize =< k.last
      /\ p \in 1..Len(TagOrder) /\ TagOrder[p] \in Versions
  BY <1>1, <1>2, <1>3, <1>5 DEF IInv, PagesCover
<1>7. After(k.last) = Page(k.last) => next = 0
  BY DEF next, NextLink
<1>8. ASSUME next # 0
      PROVE  /\ next \in 1..Len(TagOrder) /\ (k.page + 1) * PageSize =< next
             /\ p > k.last => p \in Page(k.last) \/ p > next
  <2>1. After(k.last) # Page(k.last)
    BY <1>7, <1>8
  <2>2. /\ next \in Page(k.last) /\ next >= k.last + PageSize
        /\ \A q \in After(k.last) \ Page(k.last) : q > next
    BY <1>2, <2>1, FullPage DEF next
  <2>3. next \in 1..Len(TagOrder)
    BY <1>2, <1>3, <2>2, PagesTyped
  <2>4. p > k.last => p \in After(k.last)
    BY <1>2, <1>5 DEF After
  <2>5. (k.page + 1) * PageSize = k.page * PageSize + PageSize
    BY <1>2, <1>3
  <2>6. k.page * PageSize \in Nat
    BY <1>2, <1>3
  <2>7. (k.page + 1) * PageSize =< next
    <3> DEFINE x == k.page * PageSize
               y == (k.page + 1) * PageSize
               l == k.last
    <3>1. /\ x \in Nat /\ y = x + PageSize /\ x =< l /\ l \in Nat
          /\ next >= l + PageSize /\ next \in Nat /\ PageSize \in Nat
      BY <1>2, <1>3, <1>6, <2>2, <2>3, <2>5, <2>6
    <3> HIDE DEF x, y, l
    <3>2. y =< next
      BY <3>1
    <3> QED
      BY <3>2 DEF y
  <2> QED
    BY <2>2, <2>3, <2>4, <2>7
<1>9. next = 0 => (p > k.last => p \in Page(k.last))
  <2>1. ASSUME next = 0 PROVE After(k.last) = Page(k.last)
    <3>1. SUFFICES ASSUME After(k.last) # Page(k.last) PROVE FALSE
      OBVIOUS
    <3>2. next \in Page(k.last)
      BY <1>2, <3>1, FullPage DEF next
    <3>3. Page(k.last) \subseteq (k.last + 1)..Len(TagOrder)
      BY <1>2, PagesTyped
    <3> QED
      BY <1>2, <1>3, <2>1, <3>2, <3>3
  <2>2. p > k.last => p \in After(k.last)
    BY <1>2, <1>5 DEF After
  <2> QED
    BY <2>1, <2>2
<1>10. p \in Page(k.last) \/ Covers(k) => best # None /\ ~Higher(k.floor, best)
  BY <1>4, <1>5, <1>6
<1>11. CASE next # 0 /\ k.page + 1 < MaxTagPages
  <2>1. j = [stage |-> "listing", page |-> k.page + 1, last |-> next, best |-> best,
             floor |-> k.floor]
    <3>1. j = more
      BY <1>1, <1>2, <1>11
    <3> QED
      BY <1>1, <1>2, <3>1 DEF Checks
  <2>2. j \in Checks
    BY <1>2, <1>3, <1>4, <1>8, <1>11, <2>1 DEF Checks
  <2>3. p > next \/ (best # None /\ ~Higher(k.floor, best))
    BY <1>5, <1>8, <1>10, <1>11
  <2>4. /\ j.stage = "listing" /\ j.floor = k.floor /\ j.best = best
        /\ j.page * PageSize =< j.last
        /\ TagOrder[p] = j.floor /\ (p > j.last \/ Covers(j))
    BY <1>5, <1>8, <1>11, <2>1, <2>3 DEF Covers
  <2> HIDE DEF j, k
  <2>5. k.stage # "idle" /\ check' = [check EXCEPT ![c] = j]
    BY <1>1, <1>2 DEF j, k
  <2> QED
    BY <1>1, <1>3, <1>4, <1>5, <2>2, <2>4, <2>5, CheckGoesOn DEF k
<1>12. CASE ~(next # 0 /\ k.page + 1 < MaxTagPages)
  <2>1. j = [stage |-> "fetched", page |-> 0, last |-> 0, best |-> best,
             floor |-> k.floor]
    <3>1. j = end
      BY <1>1, <1>2, <1>12
    <3> QED
      BY <3>1 DEF Idle
  <2>2. j \in Checks
    BY <1>2, <1>3, <1>4, <2>1 DEF Checks
  <2>3. p \in Page(k.last) \/ Covers(k)
    <3>1. CASE next = 0
      BY <1>5, <1>9, <3>1
    <3>2. CASE next # 0
      <4>1. k.page + 1 >= MaxTagPages
        BY <1>2, <1>3, <1>12, <3>2
      <4>2. (k.page + 1) * PageSize >= MaxTagPages * PageSize
        <5> DEFINE d == (k.page + 1) - MaxTagPages
        <5>1. d \in Nat /\ k.page + 1 = MaxTagPages + d
          BY <1>2, <1>3, <4>1
        <5> HIDE DEF d
        <5>2. (MaxTagPages + d) * PageSize = MaxTagPages * PageSize + d * PageSize
          BY <1>3, <5>1
        <5>3. d * PageSize \in Nat /\ MaxTagPages * PageSize \in Nat
          BY <1>3, <5>1
        <5> QED
          BY <5>1, <5>2, <5>3
      <4>3. ~(p > next)
        <5> DEFINE x == (k.page + 1) * PageSize
                   y == MaxTagPages * PageSize
        <5>1. /\ x >= y /\ x =< next /\ y >= Len(TagOrder) /\ x \in Nat /\ y \in Nat
              /\ next \in Nat /\ p \in Nat /\ Len(TagOrder) \in Nat
              /\ p =< Len(TagOrder)
          BY <1>2, <1>3, <1>6, <1>8, <3>2, <4>2
        <5> HIDE DEF x, y
        <5> QED
          BY <5>1
      <4> QED
        BY <1>5, <1>8, <3>2, <4>3
    <3> QED
      BY <3>1, <3>2
  <2>4. /\ j.stage = "fetched" /\ j.floor = k.floor /\ j.best = best
        /\ Covers(j)
    BY <1>10, <2>1, <2>3 DEF Covers
  <2> HIDE DEF j, k
  <2>5. k.stage # "idle" /\ check' = [check EXCEPT ![c] = j]
    BY <1>1, <1>2 DEF j, k
  <2> QED
    BY <1>1, <1>4, <2>2, <2>4, <2>5, CheckGoesOn DEF k
<1> QED
  BY <1>11, <1>12

(* A check that ends without a result.                                     *)
LEMMA FetchFailsStep ==
    ASSUME IInv, NEW c \in Checkers, FetchFails(c)
    PROVE  IInv'
<1>1. /\ Idle \in Checks /\ Idle.stage = "idle" /\ Idle.best = None
      /\ check' = [check EXCEPT ![c] = Idle]
      /\ UNCHANGED <<tags, running, latest, fresh, overlapped, request, status,
                     script, issued, crashes>>
  BY TagsTyped, UpdaterConstants DEF FetchFails, Idle, Checks
<1>2. /\ check' \in [Checkers -> Checks] /\ check'[c] = Idle
      /\ \A d \in Checkers : d # c => check'[d] = check[d]
  BY <1>1 DEF IInv, Types, TypeOK
<1>3. Types'
  BY <1>1, <1>2 DEF IInv, Types, TypeOK, IsRequest, script
<1>4. PagesCover'
  BY <1>1, <1>2 DEF IInv, PagesCover, Covers
<1>5. Ordered'
  <2>1. \A d \in Checkers : check'[d].stage # "idle" =>
           check[d].stage # "idle" /\ check'[d].floor = check[d].floor
    BY <1>1, <1>2
  <2> QED
    BY <1>1, <2>1 DEF IInv, Ordered, Newer, script
<1> QED
  BY <1>1, <1>3, <1>4, <1>5, OnceKept, StatusKept DEF IInv, script

(* What is stored is no older than the floor, and no other check is under  *)
(* way that would find less.                                               *)
LEMMA StoreCheckStep ==
    ASSUME IInv, NEW c \in Checkers, StoreCheck(c)
    PROVE  IInv'
<1>1. /\ Idle \in Checks /\ Idle.stage = "idle" /\ Idle.best = None
      /\ check' = [check EXCEPT ![c] = Idle]
      /\ latest' = check[c].best /\ fresh' = TRUE
      /\ check[c].stage = "fetched" /\ check[c] \in Checks
      /\ UNCHANGED <<tags, running, overlapped, request, status, script, issued,
                     crashes>>
  BY TagsTyped, UpdaterConstants DEF StoreCheck, Idle, Checks, IInv, Types, TypeOK
<1>2. /\ check' \in [Checkers -> Checks] /\ check'[c] = Idle
      /\ \A d \in Checkers : d # c => check'[d] = check[d]
  BY <1>1 DEF IInv, Types, TypeOK
<1>3. /\ latest' \in tags \cap Versions /\ check[c].floor \in Versions
      /\ ~Higher(check[c].floor, latest') /\ None \notin Versions
  BY <1>1, TagsTyped DEF IInv, PagesCover, Covers, Checks
<1>4. Types'
  BY <1>1, <1>2, <1>3 DEF IInv, Types, TypeOK, IsRequest, script
<1>5. PagesCover'
  BY <1>1, <1>2 DEF IInv, PagesCover, Covers
<1>6. Ordered'
  <2> SUFFICES ASSUME ~overlapped' PROVE Ordered'
    BY DEF Ordered
  <2>1. \A d \in Checkers : check'[d].stage = "idle"
    BY <1>1, <1>2 DEF IInv, Ordered
  <2>2. Newer(check[c].floor, {request.version, job.version, running})
    BY <1>1 DEF IInv, Ordered, Newer
  <2>3. Newer(latest', {request.version, job.version, running})
    BY <1>3, <2>2, HigherOrders DEF Newer
  <2> QED
    BY <1>1, <2>1, <2>3 DEF IInv, Ordered, Newer, script
<1> QED
  BY <1>1, <1>4, <1>5, <1>6, OnceKept, StatusKept DEF IInv, script

LEMMA ExpireStep == IInv /\ Expire => IInv'
<1> SUFFICES ASSUME IInv, Expire PROVE IInv'
  OBVIOUS
<1>1. Types'
  BY DEF Expire, IInv, Types, TypeOK, IsRequest, script
<1>2. Ordered'
  BY DEF Expire, IInv, Ordered, Newer, script
<1> QED
  BY <1>1, <1>2, PagesKept, OnceKept, StatusKept DEF Expire, IInv, script

LEMMA WhaRestartStep == IInv /\ WhaRestart => IInv'
<1> SUFFICES ASSUME IInv, WhaRestart PROVE IInv'
  OBVIOUS
<1>1. /\ latest' = None /\ fresh' = FALSE /\ PagesCover'
      /\ check' \in [Checkers -> Checks]
      /\ \A c \in Checkers : check'[c].stage = "idle"
  BY PagesForgotten DEF WhaRestart, ForgetChecks
<1>2. crashes' \in 0..MaxCrashes
  BY UpdaterConstants DEF WhaRestart, IInv, Types, TypeOK
<1>3. Types'
  BY <1>1, <1>2 DEF WhaRestart, IInv, Types, TypeOK, IsRequest, script
<1>4. Ordered'
  BY <1>1 DEF WhaRestart, IInv, Ordered, Newer, script
<1> QED
  BY <1>1, <1>3, <1>4, OnceKept, StatusKept DEF WhaRestart, IInv, script

(* A request has a number of its own.                                      *)
LEMMA TriggerStep == IInv /\ Trigger => IInv'
<1> SUFFICES ASSUME IInv, Trigger PROVE IInv'
  OBVIOUS
<1>1. PICK v \in Versions :
         Accepts(v) /\ request' = [id |-> issued', version |-> v]
  BY DEF Trigger
<1>2. /\ issued \in 0..MaxRequests /\ issued < MaxRequests /\ issued' = issued + 1
      /\ issued' \in 1..MaxRequests /\ MaxRequests \in Nat
      /\ UNCHANGED <<tags, wha, status, script, crashes>>
  BY UpdaterConstants DEF Trigger, IInv, Types, TypeOK
<1>3. /\ v = latest /\ v # None /\ v \in tags
      /\ request'.id = issued' /\ request'.version = v /\ request' # NoRequest
  BY <1>1, <1>2, TagsTyped DEF Accepts, IInv, Types, TypeOK, NoRequest
<1>4. Types'
  <2>1. request' \in Requests /\ issued' \in 0..MaxRequests
    BY <1>1, <1>2 DEF Requests
  <2>2. IsRequest(request)'
    BY <1>2, <1>3 DEF IsRequest
  <2>3. job # NoRequest => IsRequest(job)'
    BY <1>2 DEF IInv, Types, IsRequest, script
  <2> QED
    BY <1>2, <2>1, <2>2, <2>3 DEF IInv, Types, TypeOK, wha, script
<1>5. BegunOnce'
  <2>1. applied[issued'] = 0 /\ \A i \in 1..MaxRequests : i > issued' => i > issued
    BY <1>2 DEF IInv, BegunOnce
  <2>2. sidecar = "consumed" => issued' # job.id
    BY <1>2 DEF IInv, Types, TypeOK, IsRequest
  <2> QED
    BY <1>2, <1>3, <2>1, <2>2 DEF IInv, BegunOnce, script
<1>6. Ordered'
  <2>1. ~Higher(v, v)
    BY HigherOrders
  <2> QED
    BY <1>2, <1>3, <2>1 DEF IInv, Ordered, Newer, wha, script
<1> QED
  BY <1>2, <1>4, <1>5, <1>6, PagesKept, StatusKept DEF IInv, wha, script

-----------------------------------------------------------------------------
(* The steps of the script, each with the step of the update job it is.    *)

LEMMA ReadRequestStep == IInv /\ ReadRequest => IInv' /\ UNCHANGED Job!vars
<1> SUFFICES ASSUME IInv, ReadRequest PROVE IInv' /\ UNCHANGED Job!vars
  OBVIOUS
<1>1. /\ sidecar = "poll" /\ sidecar' = "read" /\ request # NoRequest
      /\ job' = request /\ IsRequest(request)
      /\ UNCHANGED <<tags, wha, request, status, pinned, applied, issued, crashes>>
  BY DEF ReadRequest, IInv, Types
<1>2. Types'
  BY <1>1 DEF IInv, Types, TypeOK, IsRequest, wha
<1>3. BegunOnce'
  BY <1>1 DEF IInv, BegunOnce
<1>4. StatusTrue'
  BY <1>1 DEF IInv, StatusTrue, DoneIsTrue, Busy, wha
<1>5. Ordered'
  <2>1. ~Higher(request.version, request.version)
    BY <1>1, HigherOrders DEF IsRequest
  <2> QED
    BY <1>1, <2>1 DEF IInv, Ordered, Newer, wha
<1> QED
  BY <1>1, <1>2, <1>3, <1>4, <1>5, PagesKept DEF IInv, wha, Job!vars

(* What is in the file by then is lost, and the job is no longer there.    *)
LEMMA ConsumeStep == IInv /\ Consume => IInv' /\ UNCHANGED Job!vars
<1> SUFFICES ASSUME IInv, Consume PROVE IInv' /\ UNCHANGED Job!vars
  OBVIOUS
<1>1. /\ sidecar = "read" /\ sidecar' = "consumed" /\ request' = NoRequest
      /\ job # NoRequest /\ IsRequest(job)
      /\ UNCHANGED <<tags, wha, status, job, pinned, applied, issued, crashes>>
  BY DEF Consume, IInv, Types, TypeOK
<1>2. Types'
  BY <1>1, RequestsTyped DEF IInv, Types, TypeOK, IsRequest, wha
<1>3. BegunOnce'
  <2>1. job.id \in Nat /\ job.id # 0
    BY <1>1 DEF IsRequest, IInv, Types, TypeOK
  <2> QED
    BY <1>1, <2>1 DEF IInv, BegunOnce, NoRequest
<1>4. StatusTrue'
  BY <1>1 DEF IInv, StatusTrue, DoneIsTrue, Busy, wha
<1>5. Ordered'
  BY <1>1, RequestsTyped DEF IInv, Ordered, Newer, wha
<1> QED
  BY <1>1, <1>2, <1>3, <1>4, <1>5, PagesKept DEF IInv, wha, Job!vars

LEMMA BeginApplyStep == IInv /\ BeginApply => IInv' /\ Job!Begin
<1> SUFFICES ASSUME IInv, BeginApply PROVE IInv' /\ Job!Begin
  OBVIOUS
<1>1. /\ sidecar = "consumed" /\ sidecar' = "applying"
      /\ status' = [state |-> "applying", version |-> job.version]
      /\ applied' = [applied EXCEPT ![job.id] = @ + 1]
      /\ job # NoRequest /\ IsRequest(job)
      /\ UNCHANGED <<tags, wha, request, job, pinned, issued, crashes>>
  BY DEF BeginApply, IInv, Types, TypeOK
<1>2. /\ job.id \in 1..MaxRequests /\ applied[job.id] = 0
      /\ job.id =< issued /\ applied \in [1..MaxRequests -> Nat]
  BY <1>1, UpdaterConstants DEF IsRequest, IInv, Types, TypeOK, BegunOnce
<1>3. /\ applied' \in [1..MaxRequests -> Nat] /\ applied'[job.id] = 1
      /\ \A i \in 1..MaxRequests : i # job.id => applied'[i] = applied[i]
  BY <1>1, <1>2
<1>4. status' \in [state : {"idle", "applying", "done", "failed"},
                   version : Versions \cup {None}]
  BY <1>1 DEF IsRequest
<1>5. Types'
  BY <1>1, <1>3, <1>4 DEF IInv, Types, TypeOK, IsRequest, wha
<1>6. BegunOnce'
  <2>1. request # NoRequest => request.id \in 1..MaxRequests /\ request.id # job.id
    BY <1>1, RequestsTyped DEF IInv, BegunOnce
  <2>2. ~(job.id > issued)
    BY <1>1, <1>2 DEF IsRequest, IInv, Types, TypeOK
  <2> QED
    BY <1>1, <1>2, <1>3, <2>1, <2>2 DEF IInv, BegunOnce
<1>7. StatusTrue'
  BY <1>1 DEF IInv, StatusTrue, DoneIsTrue, Busy, wha
<1>8. Ordered'
  BY <1>1 DEF IInv, Ordered, Newer, wha
<1>9. Job!Begin
  BY <1>1 DEF Job!Begin, IsRequest, wha, Job!None, None
<1> QED
  BY <1>1, <1>5, <1>6, <1>7, <1>8, <1>9, PagesKept DEF IInv, wha

(* The script goes on, and the compose file with it.                       *)
LEMMA GoOnStep ==
    ASSUME IInv, Pin \/ Pull
    PROVE  IInv' /\ UNCHANGED Job!vars
<1>1. /\ \/ sidecar = "applying" /\ sidecar' = "pinned" /\ pinned' = job.version
         \/ sidecar = "pinned" /\ sidecar' = "pulled" /\ pinned' = pinned
      /\ job # NoRequest /\ IsRequest(job)
      /\ UNCHANGED <<tags, wha, request, status, job, applied, issued, crashes>>
  BY DEF Pin, Pull, IInv, Types, TypeOK
<1>2. Types'
  BY <1>1 DEF IInv, Types, TypeOK, IsRequest, wha
<1>3. BegunOnce'
  BY <1>1 DEF IInv, BegunOnce
<1>4. StatusTrue'
  BY <1>1 DEF IInv, StatusTrue, DoneIsTrue, Busy, wha
<1>5. Ordered'
  BY <1>1 DEF IInv, Ordered, Newer, wha
<1> QED
  BY <1>1, <1>2, <1>3, <1>4, <1>5, PagesKept DEF IInv, wha, Job!vars

(* The container is recreated with the version of the job.                 *)
LEMMA UpStep ==
    ASSUME IInv, Up
    PROVE  /\ IInv' /\ Job!Install
           /\ ~overlapped => ~Higher(running, running')
<1>1. /\ sidecar = "pulled" /\ sidecar' = "up" /\ running' = pinned
      /\ job # NoRequest /\ IsRequest(job) /\ pinned = job.version
      /\ status = [state |-> "applying", version |-> job.version]
      /\ UNCHANGED <<tags, overlapped, request, status, job, pinned, applied,
                     issued, crashes>>
  BY DEF Up, IInv, Types, TypeOK, StatusTrue, Busy
<1>2. \/ latest' = None /\ fresh' = FALSE /\ ForgetChecks
      \/ UNCHANGED <<latest, fresh, check>>
  BY DEF Up, ForgetChecks
<1>3. /\ check' \in [Checkers -> Checks] /\ PagesCover'
      /\ \A c \in Checkers : check'[c].stage # "idle" => check'[c] = check[c]
  BY <1>1, <1>2, PagesForgotten, PagesKept DEF IInv, Types, TypeOK
<1>4. Types'
  BY <1>1, <1>2, <1>3 DEF IInv, Types, TypeOK, IsRequest
<1>5. BegunOnce'
  BY <1>1 DEF IInv, BegunOnce
<1>6. StatusTrue'
  BY <1>1 DEF IInv, StatusTrue, DoneIsTrue, Busy
<1>7. job.version \in Versions /\ ~Higher(job.version, job.version)
  BY <1>1, HigherOrders DEF IsRequest
<1>8. Ordered'
  <2> SUFFICES ASSUME ~overlapped' PROVE Ordered'
    BY DEF Ordered
  <2>1. ~overlapped /\ running' = job.version /\ job' = job /\ request' = request
    BY <1>1
  <2>2. ASSUME NEW c \in Checkers, check'[c].stage # "idle"
        PROVE  Newer(check'[c].floor, {latest', request.version, job.version, running'})
    <3>1. /\ check'[c] = check[c] /\ latest' \in {latest, None} /\ None \notin Versions
          /\ Newer(check[c].floor, {latest, request.version, job.version, running})
      BY <1>2, <1>3, <2>1, <2>2, TagsTyped DEF IInv, Ordered
    <3> QED
      BY <2>1, <3>1 DEF Newer
  <2>3. latest' # None => Newer(latest', {request.version, job.version, running'})
    BY <1>2, <2>1 DEF IInv, Ordered, Newer
  <2>4. request # NoRequest => Newer(request.version, {job.version, running'})
    BY <2>1 DEF IInv, Ordered, Newer
  <2>5. Newer(job.version, {running'})
    BY <1>7, <2>1 DEF Newer
  <2>6. \A c, d \in Checkers :
           check'[c].stage # "idle" /\ check'[d].stage # "idle" => c = d
    BY <1>3, <2>1 DEF IInv, Ordered
  <2> QED
    BY <2>1, <2>2, <2>3, <2>4, <2>5, <2>6 DEF Ordered
<1>9. ~overlapped => ~Higher(running, running')
  BY <1>1 DEF IInv, Ordered, Newer, Types
<1>10. Job!Install
  BY <1>1, <1>7, TagsTyped DEF Job!Install, Job!None, None
<1> QED
  BY <1>3, <1>4, <1>5, <1>6, <1>8, <1>9, <1>10 DEF IInv

(* The job ends, with an answer or in a crash.                             *)
LEMMA EndStep ==
    ASSUME IInv, Fail \/ Done \/ SidecarCrash
    PROVE  IInv' /\ [Job!Next]_(Job!vars)
<1>1. /\ sidecar' = "poll" /\ job' = NoRequest /\ job # NoRequest /\ IsRequest(job)
      /\ sidecar # "poll" /\ crashes' \in 0..MaxCrashes
      /\ UNCHANGED <<tags, wha, request, pinned, applied, issued>>
  BY UpdaterConstants
     DEF Fail, Done, SidecarCrash, Finish, IInv, Types, TypeOK
<1>2. \/ status' = [state |-> "failed", version |-> job.version] /\ sidecar \in Busy
      \/ /\ status' = [state |-> "done", version |-> job.version] /\ sidecar = "up"
         /\ running = job.version /\ pinned = running
      \/ status' = status /\ SidecarCrash
  BY DEF Fail, Done, SidecarCrash, Finish, IInv, StatusTrue, Busy
<1>3. status' \in [state : {"idle", "applying", "done", "failed"},
                   version : Versions \cup {None}]
  BY <1>1, <1>2 DEF IsRequest, IInv, Types, TypeOK
<1>4. Types'
  BY <1>1, <1>3, RequestsTyped DEF IInv, Types, TypeOK, IsRequest, wha
<1>5. BegunOnce'
  BY <1>1 DEF IInv, BegunOnce
<1>6. StatusTrue'
  BY <1>1, <1>2 DEF IInv, StatusTrue, DoneIsTrue, Busy, wha
<1>7. Ordered'
  BY <1>1, RequestsTyped DEF IInv, Ordered, Newer, wha
<1>8. [Job!Next]_(Job!vars)
  <2>1. CASE sidecar \notin Busy
    BY <1>1, <1>2, <2>1 DEF Busy, Job!vars, wha
  <2>2. CASE sidecar \in Busy
    <3>1. job.version # <<>>
      BY <1>1, TagsTyped DEF IsRequest, None
    <3>2. Job!End \/ Job!Abandon
      BY <1>1, <1>2, <2>2, <3>1
         DEF Busy, Job!End, Job!Abandon, wha, Job!None, None
    <3> QED
      BY <3>2 DEF Job!Next
  <2> QED
    BY <2>1, <2>2
<1> QED
  BY <1>1, <1>4, <1>5, <1>6, <1>7, <1>8, PagesKept DEF IInv, wha

(* Every step is one of the update job, or none of its steps; and only the *)
(* script changes the version that runs.                                   *)
LEMMA StepOf ==
    ASSUME IInv, [Next]_vars
    PROVE  /\ IInv' /\ [Job!Next]_(Job!vars)
           /\ ~overlapped => ~Higher(running, running')
<1>1. running \in Versions /\ ~Higher(running, running)
  BY HigherOrders DEF IInv, Types
<1>2. CASE UNCHANGED vars
  <2>1. IInv'
    BY <1>2 DEF vars, wha, script, IInv, Types, TypeOK, IsRequest, BegunOnce,
       StatusTrue, DoneIsTrue, PagesCover, Covers, Ordered, Newer
  <2> QED
    BY <1>1, <1>2, <2>1 DEF vars, wha, script, Job!vars
<1>3. CASE Release \/ Expire \/ Trigger \/ WhaRestart \/ \E c \in Checkers : Check(c)
  <2>1. IInv'
    BY <1>3, ReleaseStep, ExpireStep, TriggerStep, WhaRestartStep,
       StartCheckStep, FetchPageStep, FetchFailsStep, StoreCheckStep DEF Check
  <2>2. UNCHANGED <<running, status, sidecar, job>>
    BY <1>3 DEF Release, Expire, Trigger, WhaRestart, Check, StartCheck, FetchPage,
       FetchFails, StoreCheck, wha, script
  <2> QED
    BY <1>1, <2>1, <2>2 DEF Job!vars
<1>4. CASE ReadRequest \/ Consume \/ BeginApply \/ Pin \/ Pull \/ Fail \/ Done
           \/ SidecarCrash
  <2>1. running' = running
    BY <1>4 DEF ReadRequest, Consume, BeginApply, Pin, Pull, Fail, Done,
       SidecarCrash, wha
  <2> QED
    BY <1>1, <1>4, <2>1, ReadRequestStep, ConsumeStep, BeginApplyStep, GoOnStep,
       EndStep DEF Job!Next
<1>5. CASE Up
  BY <1>5, UpStep DEF Job!Next
<1> QED
  BY <1>2, <1>3, <1>4, <1>5 DEF Next, Sidecar, Apply

-----------------------------------------------------------------------------
(* The invariant holds whatever is released, requested and crashes, for    *)
(* any registry, pages of any size and any number of checks.               *)
THEOREM UpdaterInvariant == Spec => []IInv
<1>1. IInv /\ [Next]_vars => IInv'
  BY StepOf
<1> QED
  BY IInvInit, <1>1, PTL DEF Spec

(* "Updated to X" is shown only while X runs, and a compose file that pins *)
(* another version than the one running is told of.                        *)
THEOREM StatusIsTrue == Spec => []StatusInv
<1>1. IInv => StatusInv
  BY DEF IInv, Types, StatusTrue, StatusInv, PinIsReported
<1> QED
  BY <1>1, UpdaterInvariant, PTL

(* No request is applied twice, whatever crashes when.                     *)
THEOREM RequestAppliedOnce == Spec => []AppliedOnce
<1>1. IInv => AppliedOnce
  BY DEF IInv, BegunOnce, AppliedOnce
<1> QED
  BY <1>1, UpdaterInvariant, PTL

(* A check finds a version no older than any that was published when it    *)
(* began, on whichever page the registry lists it.                         *)
THEOREM NewestFound == Spec => []NewestIsFound
<1>1. IInv => NewestIsFound
  BY DEF IInv, PagesCover, Covers, NewestIsFound
<1> QED
  BY <1>1, UpdaterInvariant, PTL

(* The version that runs never goes back while checks do not overlap.      *)
THEOREM VersionOnlyGrows == Spec => NeverDowngrades
<1>1. IInv /\ [Next]_vars => [~overlapped => ~Higher(running, running')]_vars
  BY StepOf
<1> QED
  BY <1>1, UpdaterInvariant, PTL DEF Spec, NeverDowngrades

(* The handshake is one update job at a time: the safety part of JobSpec.  *)
THEOREM UpdateIsOneJob == Spec => Job!Init /\ [][Job!Next]_(Job!vars)
<1>1. Init => Job!Init
  BY UpdaterConstants DEF Init, Job!Init, Job!None, None
<1>2. IInv /\ [Next]_vars => [Job!Next]_(Job!vars)
  BY StepOf
<1> QED
  BY <1>1, <1>2, UpdaterInvariant, PTL DEF Spec
=============================================================================
