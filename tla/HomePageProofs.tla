---------------------------- MODULE HomePageProofs ----------------------------
(***************************************************************************)
(* Theorems about EventSearch and HomePage, for any events, filters, size  *)
(* of a page and number of acts: the pages of a search share its events    *)
(* out, and the home page never stays on an empty one.                     *)
(***************************************************************************)
EXTENDS HomePage, FiniteSetTheorems, TLAPS

-----------------------------------------------------------------------------
(* The order of the events, and the page of them a request gets *)

LEMMA BeforeOrders ==
    /\ \A e \in Ids : ~Before(e, e)
    /\ \A c, d, e \in Ids : Before(c, d) /\ Before(d, e) => Before(c, e)
    /\ \A d, e \in Ids : d # e => Before(d, e) \/ Before(e, d)
    BY IdsAreNumbers, DatesAreNumbers DEF Before

LEMMA SetOfIds ==
    ASSUME NEW S \in SUBSET Ids
    PROVE  IsFiniteSet(S) /\ Cardinality(S) \in Nat
    BY IdsAreNumbers, FS_Subset, FS_CardinalityType

\* The events before one of those found.
Earlier(found, e) == {d \in found : Before(d, e)}

LEMMA RankIs ==
    ASSUME NEW found \in SUBSET Ids, NEW e \in found
    PROVE  /\ Earlier(found, e) \in SUBSET Ids
           /\ Rank(found, e) = 1 + Cardinality(Earlier(found, e))
           /\ Rank(found, e) \in 1 .. Cardinality(found)
<1> DEFINE A == Earlier(found, e)
<1>1. A \in SUBSET found /\ e \notin A
    BY BeforeOrders DEF Earlier
<1>2. Rank(found, e) = 1 + Cardinality(A)
    BY DEF Rank, Earlier
<1> HIDE DEF A
<1>3. A \in SUBSET Ids
    BY <1>1
<1>4. IsFiniteSet(A) /\ Cardinality(A) \in Nat /\ IsFiniteSet(found) /\ Cardinality(found) \in Nat
    BY <1>3, SetOfIds
<1>5. Cardinality(A \cup {e}) = Cardinality(A) + 1
    BY <1>1, <1>4, FS_AddElement
<1>6. A \cup {e} \in SUBSET found
    BY <1>1
<1>7. Cardinality(A \cup {e}) <= Cardinality(found)
    BY <1>4, <1>6, FS_Subset
<1>8. Rank(found, e) \in 1 .. Cardinality(found)
    BY <1>2, <1>4, <1>5, <1>7
<1> QED
    BY <1>2, <1>3, <1>8 DEF A

LEMMA RankGrows ==
    ASSUME NEW found \in SUBSET Ids, NEW d \in found, NEW e \in found, Before(d, e)
    PROVE  Rank(found, d) < Rank(found, e)
<1> DEFINE A == Earlier(found, d)
           B == Earlier(found, e)
<1>1. A \cup {d} \in SUBSET B /\ d \notin A
    BY BeforeOrders DEF Earlier
<1>2. /\ Rank(found, d) = 1 + Cardinality(A) /\ Rank(found, e) = 1 + Cardinality(B)
      /\ A \in SUBSET Ids /\ B \in SUBSET Ids
    BY RankIs
<1> HIDE DEF A, B
<1>3. IsFiniteSet(A) /\ IsFiniteSet(B) /\ Cardinality(A) \in Nat /\ Cardinality(B) \in Nat
    BY <1>2, SetOfIds
<1>4. Cardinality(A \cup {d}) = Cardinality(A) + 1
    BY <1>1, <1>3, FS_AddElement
<1>5. Cardinality(A \cup {d}) <= Cardinality(B)
    BY <1>1, <1>3, FS_Subset
<1> QED
    BY <1>2, <1>3, <1>4, <1>5

LEMMA RankIsOneToOne ==
    ASSUME NEW found \in SUBSET Ids, NEW d \in found, NEW e \in found,
           Rank(found, d) = Rank(found, e)
    PROVE  d = e
<1> SUFFICES ASSUME d # e PROVE FALSE
    OBVIOUS
<1>1. Before(d, e) \/ Before(e, d)
    BY BeforeOrders
<1>2. Rank(found, d) < Rank(found, e) \/ Rank(found, e) < Rank(found, d)
    BY <1>1, RankGrows
<1>3. Rank(found, d) \in Nat /\ Rank(found, e) \in Nat
    <2>1. Rank(found, d) \in 1 .. Cardinality(found) /\ Rank(found, e) \in 1 .. Cardinality(found)
        BY RankIs
    <2> QED
        BY <2>1, SetOfIds
<1> QED
    BY <1>2, <1>3

\* Every place from the first to the last is some event's.
LEMMA RankReachesAll ==
    ASSUME NEW found \in SUBSET Ids, NEW n \in 1 .. Cardinality(found)
    PROVE  \E e \in found : Rank(found, e) = n
<1> DEFINE T == 1 .. Cardinality(found)
           f == [e \in found |-> Rank(found, e)]
<1>1. IsFiniteSet(found) /\ Cardinality(found) \in Nat
    BY SetOfIds
<1>2. f \in Injection(found, T)
    <2>1. f \in [found -> T]
        BY RankIs
    <2>2. \A d, e \in found : f[d] = f[e] => d = e
        BY RankIsOneToOne
    <2> QED
        BY <2>1, <2>2 DEF Injection, IsInjective
<1>3. IsFiniteSet(T) /\ Cardinality(T) = Cardinality(found)
    BY <1>1, FS_Interval
<1> HIDE DEF f
<1>4. f \in Surjection(found, T)
    BY <1>2, <1>3, FS_Injection
<1>5. PICK e \in found : f[e] = n
    BY <1>4 DEF Surjection
<1> QED
    BY <1>5 DEF f

\* A page of those found.
PageOf(found, p, limit) ==
    {e \in found : (p - 1) * limit < Rank(found, e) /\ Rank(found, e) <= (p - 1) * limit + limit}

LEMMA PageIsBounded ==
    ASSUME NEW found \in SUBSET Ids, NEW p \in Nat \ {0}, NEW limit \in Nat \ {0}
    PROVE  /\ PageOf(found, p, limit) \in SUBSET Ids
           /\ Cardinality(PageOf(found, p, limit)) <= limit
<1> DEFINE S == PageOf(found, p, limit)
           skip == (p - 1) * limit
           T == (skip + 1) .. (skip + limit)
           f == [e \in S |-> Rank(found, e)]
<1>1. S \in SUBSET found
    BY DEF PageOf
<1>2. skip \in Nat
    BY SMT
<1>3. \A e \in S : Rank(found, e) \in T
    <2> SUFFICES ASSUME NEW e \in S PROVE Rank(found, e) \in T
        OBVIOUS
    <2>1. skip < Rank(found, e) /\ Rank(found, e) <= skip + limit
        BY DEF PageOf
    <2>2. Rank(found, e) \in 1 .. Cardinality(found) /\ Cardinality(found) \in Nat
        BY <1>1, RankIs, SetOfIds
    <2> HIDE DEF skip
    <2> QED
        BY <1>2, <2>1, <2>2
<1> HIDE DEF S, skip
<1>4. f \in Injection(S, T)
    <2>1. f \in [S -> T]
        BY <1>3
    <2>2. \A d, e \in S : f[d] = f[e] => d = e
        BY <1>1, RankIsOneToOne
    <2> QED
        BY <2>1, <2>2 DEF Injection, IsInjective
<1>5. IsFiniteSet(T) /\ Cardinality(T) = limit
    BY <1>2, FS_Interval
<1> HIDE DEF f, T
<1>6. Cardinality(S) <= limit
    BY <1>4, <1>5, FS_Injection
<1> QED
    BY <1>1, <1>6 DEF S

LEMMA Quotient ==
    ASSUME NEW n \in Nat, NEW d \in Nat \ {0}
    PROVE  n \div d \in Nat /\ (n \div d) * d <= n /\ n < (n \div d) * d + d
    BY SMT

LEMMA TimesGrows ==
    ASSUME NEW a \in Nat, NEW b \in Nat, NEW c \in Nat, a < b
    PROVE  a * c \in Nat /\ b * c \in Nat /\ a * c + c <= b * c
<1>1. a * c \in Nat /\ b * c \in Nat /\ (a + 1) * c = a * c + c
    BY SMT
<1>2. (a + 1) * c <= b * c
    BY SMT
<1> QED
    BY <1>1, <1>2

\* The pages a total fills.
PagesOf(total) == (total + PageSize - 1) \div PageSize

\* A page with nothing on it is past the last one.
LEMMA PageIsEmpty ==
    ASSUME NEW found \in SUBSET Ids, NEW p \in Nat \ {0},
           PageOf(found, p, PageSize) = {}, Cardinality(found) # 0
    PROVE  p > PagesOf(Cardinality(found))
<1> DEFINE N == Cardinality(found)
           q == PagesOf(N)
           s == (p - 1) * PageSize
<1>1. N \in Nat /\ N # 0 /\ PageSize \in Nat \ {0}
    BY SetOfIds, HomeConstants
<1>2. q \in Nat /\ q * PageSize <= N + PageSize - 1
    BY <1>1, Quotient DEF PagesOf
<1> SUFFICES ASSUME p <= q PROVE FALSE
    BY <1>2
<1> HIDE DEF q
<1>3. s \in Nat /\ s + PageSize <= q * PageSize
    <2>1. p - 1 \in Nat /\ p - 1 < q
        BY <1>2
    <2> QED
        BY <1>1, <1>2, <2>1, TimesGrows
<1>4. q * PageSize \in Nat
    BY <1>1, <1>2
<1> HIDE DEF s
<1>5. s + 1 \in 1 .. N
    BY <1>1, <1>2, <1>3, <1>4
<1>6. PICK e \in found : Rank(found, e) = s + 1
    BY <1>5, RankReachesAll
<1>7. s < Rank(found, e) /\ Rank(found, e) <= s + PageSize
    BY <1>1, <1>3, <1>6
<1>8. e \in PageOf(found, p, PageSize)
    BY <1>7 DEF PageOf, s
<1> QED
    BY <1>8

\* Each place is on one page, and on no other.
LEMMA OnOnePage ==
    ASSUME NEW N \in Nat, NEW n \in 1 .. N, NEW L \in Nat \ {0}
    PROVE  \E p \in 1 .. 1 + N \div L :
              /\ (p - 1) * L < n /\ n <= (p - 1) * L + L
              /\ \A q \in Nat \ {0} : ((q - 1) * L < n /\ n <= (q - 1) * L + L) => q = p
<1> DEFINE m == (n - 1) \div L
<1>1. m \in Nat /\ m * L <= n - 1 /\ n - 1 < m * L + L
    BY Quotient
<1>2. N \div L \in Nat /\ N < (N \div L) * L + L
    BY Quotient
<1> HIDE DEF m
<1>3. m * L \in Nat /\ (N \div L) * L \in Nat
    BY <1>1, <1>2
<1>4. m <= N \div L
    <2> SUFFICES ASSUME N \div L < m PROVE FALSE
        BY <1>1, <1>2
    <2>1. (N \div L) * L + L <= m * L
        BY <1>1, <1>2, TimesGrows
    <2> QED
        BY <1>1, <1>2, <1>3, <2>1
<1>5. ASSUME NEW q \in Nat \ {0}, (q - 1) * L < n, n <= (q - 1) * L + L
      PROVE  q = m + 1
    <2>1. q - 1 \in Nat /\ (q - 1) * L \in Nat
        BY SMT
    <2>2. ~(q - 1 < m)
        <3> SUFFICES ASSUME q - 1 < m PROVE FALSE
            OBVIOUS
        <3>1. (q - 1) * L + L <= m * L
            BY <1>1, <2>1, TimesGrows
        <3> QED
            BY <1>1, <1>3, <1>5, <2>1, <3>1
    <2>3. ~(m < q - 1)
        <3> SUFFICES ASSUME m < q - 1 PROVE FALSE
            OBVIOUS
        <3>1. m * L + L <= (q - 1) * L
            BY <1>1, <2>1, TimesGrows
        <3> QED
            BY <1>1, <1>3, <1>5, <2>1, <3>1
    <2> QED
        BY <1>1, <2>1, <2>2, <2>3
<1>6. /\ m + 1 \in 1 .. 1 + N \div L /\ (m + 1) - 1 = m
      /\ m * L < n /\ n <= m * L + L
    BY <1>1, <1>2, <1>3, <1>4
<1> QED
    BY <1>5, <1>6

\* findMany is a page of what the filters select.
LEMMA FindManyIs ==
    ASSUME NEW f, NEW p
    PROVE  /\ Where(f) \in SUBSET Ids
           /\ FindMany(f, p, PageSize) = PageOf(Where(f), p, PageSize)
    BY DEF Where, FindMany, PageOf

-----------------------------------------------------------------------------
(* The inductive invariant *)

FormOK ==
    /\ page \in Nat \ {0}
    /\ debounced \in Searches \cup {Undefined}
    /\ form \in [search : Searches \cup {Undefined}, city : Cities \cup {Undefined},
                 distanceKm : Distances \cup {0}, dates : Ranges \cup {NoDates}]

\* An answer to page p: no longer than a page; without rows, its search found none, or has
\* no such page.
AnswerOK(p, d) ==
    /\ d \in Found
    /\ d.total \in 0 .. Cardinality(Ids) /\ Cardinality(d.items) <= PageSize
    /\ d.items = {} /\ ~d.torn => d.total = 0 \/ p > PagesOf(d.total)

Entries == [data : Found \cup {Undefined}, fetch : {Idle, Asked}, error : BOOLEAN]

EntriesOK(entries) ==
    /\ entries \in [DOMAIN entries -> Entries]
    /\ \A key \in DOMAIN entries :
          /\ key.page \in Nat \ {0}
          /\ entries[key].data # Undefined => AnswerOK(key.page, entries[key].data)

CacheOK == EntriesOK(cache)

\* The key shown is known of, and so is the last one that had an answer.
KeysOK ==
    /\ Key \in DOMAIN cache
    /\ lastKey # Undefined => lastKey \in DOMAIN cache /\ cache[lastKey].data # Undefined

HomeInv == FormOK /\ CacheOK /\ KeysOK

-----------------------------------------------------------------------------
(* What the steps do to the cache *)

LEMMA UndefinedApart == \A d \in Found : d # Undefined
    BY HomeConstants

LEMMA TotalIs ==
    ASSUME NEW S \in SUBSET Ids
    PROVE  Cardinality(S) \in Nat /\ Cardinality(S) \in 0 .. Cardinality(Ids)
<1>1. Cardinality(S) \in Nat /\ Cardinality(Ids) \in Nat
    BY SetOfIds
<1>2. Cardinality(S) <= Cardinality(Ids)
    BY IdsAreNumbers, FS_Subset
<1> QED
    BY <1>1, <1>2

\* What findAll answers: its two statements read the same table, or it changed meanwhile.
LEMMA AnswerIsOK ==
    ASSUME NEW S \in SUBSET Ids, NEW T \in SUBSET Ids, NEW p \in Nat \ {0}, NEW b \in BOOLEAN,
           b \/ S = T
    PROVE  AnswerOK(p, [items |-> PageOf(S, p, PageSize), total |-> Cardinality(T), torn |-> b])
<1> DEFINE I == PageOf(S, p, PageSize)
           N == Cardinality(T)
<1>1. I \in SUBSET Ids /\ Cardinality(I) <= PageSize
    BY PageIsBounded, HomeConstants
<1>2. N \in Nat /\ N \in 0 .. Cardinality(Ids)
    BY TotalIs
<1>3. I = {} /\ ~b => N = 0 \/ p > PagesOf(N)
    BY PageIsEmpty
<1> HIDE DEF I, N
<1>4. AnswerOK(p, [items |-> I, total |-> N, torn |-> b])
    BY <1>1, <1>2, <1>3 DEF AnswerOK, Found
<1> QED
    BY <1>4 DEF I, N

\* No answer known is forgotten.
Grows(c, d) ==
    /\ DOMAIN c \subseteq DOMAIN d
    /\ \A key \in DOMAIN c : c[key].data # Undefined => d[key].data # Undefined

LEMMA EntryChanged ==
    ASSUME NEW c, EntriesOK(c), NEW key \in DOMAIN c, NEW e \in Entries,
           e.data # Undefined => AnswerOK(key.page, e.data),
           c[key].data # Undefined => e.data # Undefined
    PROVE  /\ EntriesOK([c EXCEPT ![key] = e]) /\ Grows(c, [c EXCEPT ![key] = e])
           /\ DOMAIN [c EXCEPT ![key] = e] = DOMAIN c
<1> DEFINE d == [c EXCEPT ![key] = e]
<1>1. c \in [DOMAIN c -> Entries]
    BY DEF EntriesOK
<1>2. /\ d \in [DOMAIN c -> Entries] /\ DOMAIN d = DOMAIN c /\ d[key] = e
      /\ \A k \in DOMAIN c : k # key => d[k] = c[k]
    BY <1>1
<1> HIDE DEF d
<1>3. ASSUME NEW k \in DOMAIN d
      PROVE  k.page \in Nat \ {0} /\ (d[k].data # Undefined => AnswerOK(k.page, d[k].data))
    <2>1. CASE k = key
        BY <1>2, <2>1 DEF EntriesOK
    <2>2. CASE k # key
        BY <1>2, <2>2 DEF EntriesOK
    <2> QED
        BY <2>1, <2>2
<1>4. EntriesOK(d)
    BY <1>2, <1>3 DEF EntriesOK
<1>5. Grows(c, d)
    BY <1>2 DEF Grows
<1> QED
    BY <1>2, <1>4, <1>5 DEF d

LEMMA UnansweredIs == Unanswered \in Entries /\ Unanswered.data = Undefined
    BY DEF Unanswered, Entries

LEMMA ObservedIs ==
    ASSUME NEW c, EntriesOK(c), NEW key, key.page \in Nat \ {0}, NEW stale
    PROVE  LET d == Observed(c, key, stale)
           IN  EntriesOK(d) /\ Grows(c, d) /\ key \in DOMAIN d
<1> DEFINE d == Observed(c, key, stale)
<1>1. c \in [DOMAIN c -> Entries]
    BY DEF EntriesOK
<1>2. CASE key \notin DOMAIN c
    <2>1. d = [k \in DOMAIN c \cup {key} |-> IF k = key THEN Unanswered ELSE c[k]]
        BY <1>2 DEF Observed
    <2>2. /\ DOMAIN d = DOMAIN c \cup {key} /\ d[key] = Unanswered
          /\ \A k \in DOMAIN c : d[k] = c[k]
        BY <1>2, <2>1
    <2>3. d \in [DOMAIN d -> Entries]
        BY <1>1, <2>1, UnansweredIs
    <2> HIDE DEF d
    <2>4. ASSUME NEW k \in DOMAIN d
          PROVE  k.page \in Nat \ {0} /\ (d[k].data # Undefined => AnswerOK(k.page, d[k].data))
        <3>1. CASE k = key
            BY <2>2, <3>1, UnansweredIs
        <3>2. CASE k # key
            BY <2>2, <3>2 DEF EntriesOK
        <3> QED
            BY <3>1, <3>2
    <2>5. EntriesOK(d) /\ Grows(c, d) /\ key \in DOMAIN d
        BY <2>2, <2>3, <2>4 DEF EntriesOK, Grows
    <2> QED
        BY <2>5 DEF d
<1>3. CASE key \in DOMAIN c /\ c[key].fetch = Idle /\ (stale \/ c[key].data = Undefined)
    <2> DEFINE e == [c[key] EXCEPT !.fetch = Asked, !.error = @ /\ c[key].data # Undefined]
    <2>1. c[key] \in Entries
        BY <1>1, <1>3
    <2>2. d = [c EXCEPT ![key] = e]
        <3>1. d = [c EXCEPT ![key].fetch = Asked,
                            ![key].error = @ /\ c[key].data # Undefined]
            BY <1>3 DEF Observed
        <3>2. ASSUME NEW b
              PROVE  [c EXCEPT ![key].fetch = Asked, ![key].error = b]
                        = [c EXCEPT ![key] = [c[key] EXCEPT !.fetch = Asked, !.error = b]]
            BY <1>1, <1>3, <2>1 DEF Entries
        <3> QED
            BY <3>1, <3>2, <1>1, <2>1 DEF Entries
    <2>3. e \in Entries /\ e.data = c[key].data
        <3>1. ASSUME NEW b \in BOOLEAN
              PROVE  /\ [c[key] EXCEPT !.fetch = Asked, !.error = b] \in Entries
                     /\ [c[key] EXCEPT !.fetch = Asked, !.error = b].data = c[key].data
            BY <2>1 DEF Entries
        <3> QED
            BY <3>1
    <2> HIDE DEF d, e
    <2>4. e.data # Undefined => AnswerOK(key.page, e.data)
        BY <1>3, <2>3 DEF EntriesOK
    <2>5. EntriesOK(d) /\ Grows(c, d) /\ key \in DOMAIN d
        BY <1>3, <2>2, <2>3, <2>4, EntryChanged
    <2> QED
        BY <2>5 DEF d
<1>4. CASE key \in DOMAIN c /\ ~(c[key].fetch = Idle /\ (stale \/ c[key].data = Undefined))
    <2>1. d = c
        BY <1>4 DEF Observed
    <2> QED
        BY <1>4, <2>1 DEF Grows
<1> QED
    BY <1>2, <1>3, <1>4

-----------------------------------------------------------------------------
(* Each step *)

LEMMA KeyIs == Key.page = page /\ Key' = [filters |-> Filters', page |-> page']
    BY DEF Key

LEMMA KeySame ==
    ASSUME UNCHANGED <<inputs, profile, geocoded>>
    PROVE  Key' = Key /\ UNCHANGED <<form, debounced, page>>
    BY DEF Key, Filters, HasRadius, EffectiveOrigin, CityCoordinates, UserOrigin, Known, inputs

LEMMA LookedAtOK ==
    ASSUME KeysOK, LookedAt, Grows(cache, cache'), Key' \in DOMAIN cache'
    PROVE  KeysOK'
<1>1. lastKey' = IF cache'[Key'].data # Undefined THEN Key' ELSE lastKey
    BY DEF LookedAt
<1> QED
    BY <1>1 DEF KeysOK, Grows

\* The page is rendered with another key, or the same.
LEMMA RendersOK ==
    ASSUME CacheOK, KeysOK, Renders, page' \in Nat \ {0}
    PROVE  CacheOK' /\ KeysOK'
<1> DEFINE next == Key'
<1>1. next.page \in Nat \ {0}
    BY KeyIs
<1>2. LookedAt
    BY DEF Renders
<1>3. CASE next = Key /\ UNCHANGED cache
    <2>1. CacheOK' /\ Grows(cache, cache') /\ next \in DOMAIN cache'
        BY <1>3 DEF CacheOK, KeysOK, Grows
    <2> QED
        BY <1>2, <2>1, LookedAtOK
<1>4. CASE \E stale \in BOOLEAN : cache' = Observed(cache, next, stale)
    <2>1. PICK stale \in BOOLEAN : cache' = Observed(cache, next, stale)
        BY <1>4
    <2>2. EntriesOK(cache') /\ Grows(cache, cache') /\ next \in DOMAIN cache'
        BY <1>1, <2>1, ObservedIs DEF CacheOK
    <2> QED
        BY <1>2, <2>2, LookedAtOK DEF CacheOK
<1> QED
    BY <1>3, <1>4 DEF Renders

\* The last page there is.
LEMMA TotalPagesIs ==
    ASSUME HomeInv
    PROVE  /\ TotalPages \in Nat \ {0}
           /\ Shown # Undefined => \E p \in Nat \ {0} : AnswerOK(p, Shown)
           /\ Shown # Undefined /\ Shown.total # 0 => TotalPages = PagesOf(Shown.total)
<1>1. Shown # Undefined => \E p \in Nat \ {0} : AnswerOK(p, Shown)
    BY DEF HomeInv, CacheOK, EntriesOK, KeysOK, Shown, IsPlaceholder, Current
<1>2. ASSUME Shown # Undefined, Shown.total # 0
      PROVE  TotalPages = PagesOf(Shown.total) /\ TotalPages \in Nat \ {0}
    <2> DEFINE t == Shown.total
    <2>1. t \in Nat /\ t # 0 /\ PageSize \in Nat \ {0}
        BY <1>1, <1>2, HomeConstants DEF AnswerOK, Found
    <2>2. TotalPages = PagesOf(t)
        BY <1>2 DEF TotalPages, PagesOf
    <2> HIDE DEF t
    <2>3. /\ PagesOf(t) \in Nat
          /\ t + PageSize - 1 < PagesOf(t) * PageSize + PageSize
        BY <2>1, Quotient DEF PagesOf
    <2>4. PagesOf(t) # 0
        BY <2>1, <2>3
    <2> QED
        BY <2>2, <2>3, <2>4 DEF t
<1>3. Shown = Undefined \/ Shown.total = 0 => TotalPages = 1
    BY DEF TotalPages
<1> QED
    BY <1>1, <1>2, <1>3

LEMMA UserStep ==
    ASSUME HomeInv, User \/ DebounceFires \/ Clamp
    PROVE  HomeInv'
<1> USE DEF HomeInv
<1>1. ASSUME NEW text \in Searches \cup {Undefined}, Types(text) PROVE FormOK' /\ Renders
    BY <1>1 DEF FormOK, Types
<1>2. ASSUME NEW city \in Cities \cup {Undefined}, ChoosesCity(city) PROVE FormOK' /\ Renders
    <2> DEFINE km == IF city = Undefined THEN 0 ELSE form.distanceKm
    <2>1. /\ form' = [form EXCEPT !.city = city, !.distanceKm = km]
          /\ page' = 1 /\ UNCHANGED debounced /\ Renders
        BY <1>2 DEF ChoosesCity
    <2>2. km \in Distances \cup {0}
        BY DEF FormOK
    <2> HIDE DEF km
    <2>3. form' = [search |-> form.search, city |-> city, distanceKm |-> km, dates |-> form.dates]
        BY <2>1 DEF FormOK
    <2>4. FormOK'
        BY <2>1, <2>2, <2>3 DEF FormOK
    <2> QED
        BY <2>1, <2>4
<1>3. ASSUME NEW km \in Distances \cup {0}, ChoosesDistance(km) PROVE FormOK' /\ Renders
    BY <1>3 DEF FormOK, ChoosesDistance
<1>4. ASSUME NEW range \in Ranges \cup {NoDates}, ChoosesDates(range) PROVE FormOK' /\ Renders
    BY <1>4 DEF FormOK, ChoosesDates
<1>5. ASSUME NEW p \in {page - 1, page + 1}, GoesTo(p) PROVE FormOK' /\ Renders
    BY <1>5 DEF FormOK, GoesTo
<1>6. ASSUME Resets PROVE FormOK' /\ Renders
    BY <1>6 DEF FormOK, Resets, EmptyForm
<1>7. ASSUME DebounceFires PROVE FormOK' /\ Renders
    BY <1>7 DEF FormOK, DebounceFires
<1>8. ASSUME Clamp PROVE FormOK' /\ Renders
    BY <1>8, TotalPagesIs DEF FormOK, Clamp
<1>9. FormOK' /\ Renders
    BY <1>1, <1>2, <1>3, <1>4, <1>5, <1>6, <1>7, <1>8 DEF User
<1>10. CacheOK' /\ KeysOK'
    BY <1>9, RendersOK DEF FormOK
<1> QED
    BY <1>9, <1>10

\* The gateway's answer to a key, from the tables as they are.
LEMMA SelectedIs ==
    ASSUME NEW key
    PROVE  /\ Where(key.filters) \in SUBSET Ids /\ Where(key.filters)' \in SUBSET Ids
           /\ Selected(key) = PageOf(Where(key.filters), key.page, PageSize)
           /\ Selected(key)' = PageOf(Where(key.filters)', key.page, PageSize)
           /\ Counted(key) = Cardinality(Where(key.filters))
           /\ Counted(key)' = Cardinality(Where(key.filters)')
<1>1. Where(key.filters) \in SUBSET Ids /\ Where(key.filters)' \in SUBSET Ids
    BY DEF Where
<1>2. /\ Selected(key) = PageOf(Where(key.filters), key.page, PageSize)
      /\ Selected(key)' = PageOf(Where(key.filters)', key.page, PageSize)
    BY DEF Selected, FindMany, PageOf
<1>3. /\ Counted(key) = Cardinality(Where(key.filters))
      /\ Counted(key)' = Cardinality(Where(key.filters)')
    BY DEF Counted, Count
<1> QED
    BY <1>1, <1>2, <1>3

LEMMA AnswerTyped ==
    ASSUME NEW S \in SUBSET Ids, NEW T \in SUBSET Ids, NEW p \in Nat \ {0}, NEW b \in BOOLEAN,
           b \/ S = T
    PROVE  LET a == Answer(PageOf(S, p, PageSize), Cardinality(T), b)
           IN  a \in Entries /\ AnswerOK(p, a.data) /\ a.data # Undefined
<1> DEFINE d == [items |-> PageOf(S, p, PageSize), total |-> Cardinality(T), torn |-> b]
           a == Answer(PageOf(S, p, PageSize), Cardinality(T), b)
<1>1. AnswerOK(p, d)
    BY AnswerIsOK
<1>2. a = [data |-> d, fetch |-> Idle, error |-> FALSE]
    BY DEF Answer
<1> HIDE DEF d
<1>3. d \in Found /\ d # Undefined
    BY <1>1, UndefinedApart DEF AnswerOK
<1>4. a.data = d /\ a \in Entries
    BY <1>2, <1>3 DEF Entries
<1> QED
    BY <1>1, <1>3, <1>4

LEMMA AnswersStep ==
    ASSUME HomeInv, NEW key \in DOMAIN cache, Answered(key)
    PROVE  HomeInv'
<1> USE DEF HomeInv
<1> DEFINE S == Where(key.filters)
           e == Answer(Selected(key), Counted(key), FALSE)
<1>1. cache' = [cache EXCEPT ![key] = e] /\ UNCHANGED <<inputs, profile, geocoded>> /\ LookedAt
    BY DEF Answered
<1>2. e = Answer(PageOf(S, key.page, PageSize), Cardinality(S), FALSE) /\ S \in SUBSET Ids
    BY SelectedIs
<1>3. key.page \in Nat \ {0}
    BY DEF CacheOK, EntriesOK
<1> HIDE DEF S, e
<1>4. e \in Entries /\ AnswerOK(key.page, e.data) /\ e.data # Undefined
    BY <1>2, <1>3, AnswerTyped
<1>5. EntriesOK(cache') /\ Grows(cache, cache') /\ DOMAIN cache' = DOMAIN cache
    BY <1>1, <1>4, EntryChanged DEF CacheOK
<1>6. Key' \in DOMAIN cache'
    BY <1>1, <1>5, KeySame DEF KeysOK
<1>7. KeysOK'
    BY <1>1, <1>5, <1>6, LookedAtOK
<1>8. FormOK'
    BY <1>1, KeySame DEF FormOK
<1> QED
    BY <1>5, <1>7, <1>8 DEF CacheOK

LEMMA FailsStep ==
    ASSUME HomeInv, NEW key \in DOMAIN cache, Fails(key)
    PROVE  HomeInv'
<1> USE DEF HomeInv
<1> DEFINE e == [cache[key] EXCEPT !.fetch = Idle, !.error = TRUE]
<1>1. /\ cache' = [cache EXCEPT ![key].fetch = Idle, ![key].error = TRUE]
      /\ UNCHANGED <<inputs, profile, geocoded>> /\ LookedAt
    BY DEF Fails
<1>2. cache \in [DOMAIN cache -> Entries] /\ cache[key] \in Entries
    BY DEF CacheOK, EntriesOK
<1>3. cache' = [cache EXCEPT ![key] = e]
    BY <1>1, <1>2
<1>4. ASSUME NEW b \in BOOLEAN
      PROVE  LET f == [cache[key] EXCEPT !.fetch = Idle, !.error = b]
             IN  f \in Entries /\ f.data = cache[key].data
    BY <1>2 DEF Entries
<1>5. e \in Entries /\ e.data = cache[key].data
    BY <1>4
<1> HIDE DEF e
<1>6. cache[key].data # Undefined => AnswerOK(key.page, cache[key].data)
    BY DEF CacheOK, EntriesOK
<1>7. EntriesOK(cache') /\ Grows(cache, cache') /\ DOMAIN cache' = DOMAIN cache
    BY <1>3, <1>5, <1>6, EntryChanged DEF CacheOK
<1>8. Key' \in DOMAIN cache'
    BY <1>1, <1>7, KeySame DEF KeysOK
<1>9. KeysOK'
    BY <1>1, <1>7, <1>8, LookedAtOK
<1>10. FormOK'
    BY <1>1, KeySame DEF FormOK
<1> QED
    BY <1>7, <1>9, <1>10 DEF CacheOK

LEMMA TableStep ==
    ASSUME HomeInv, NEW ev \in Ids, NEW s, TableChanges(ev, s)
    PROVE  HomeInv'
<1> USE DEF HomeInv
<1>1. UNCHANGED <<inputs, profile, geocoded>> /\ LookedAt
    BY DEF TableChanges
<1>2. PICK torn \in SUBSET {key \in DOMAIN cache : cache[key].fetch = Asked} :
        \E selected \in SUBSET torn :
           cache' = [key \in DOMAIN cache |->
                       IF key \notin torn THEN cache[key]
                       ELSE IF key \in selected THEN Answer(Selected(key), Counted(key)', TRUE)
                       ELSE Answer(Selected(key)', Counted(key), TRUE)]
    BY DEF TableChanges
<1>3. DOMAIN cache' = DOMAIN cache
    BY <1>2
<1>4. ASSUME NEW key \in DOMAIN cache
      PROVE  /\ cache'[key] \in Entries /\ key.page \in Nat \ {0}
             /\ cache'[key].data # Undefined => AnswerOK(key.page, cache'[key].data)
             /\ cache[key].data # Undefined => cache'[key].data # Undefined
    <2>1. /\ cache[key] \in Entries /\ key.page \in Nat \ {0}
          /\ cache[key].data # Undefined => AnswerOK(key.page, cache[key].data)
        BY DEF CacheOK, EntriesOK
    <2>2. \/ cache'[key] = cache[key]
          \/ cache'[key] = Answer(Selected(key), Counted(key)', TRUE)
          \/ cache'[key] = Answer(Selected(key)', Counted(key), TRUE)
        BY <1>2
    <2> DEFINE S == Where(key.filters)
               T == Where(key.filters)'
    <2>3. /\ S \in SUBSET Ids /\ T \in SUBSET Ids
          /\ Selected(key) = PageOf(S, key.page, PageSize)
          /\ Selected(key)' = PageOf(T, key.page, PageSize)
          /\ Counted(key) = Cardinality(S) /\ Counted(key)' = Cardinality(T)
        BY SelectedIs
    <2> HIDE DEF S, T
    <2>4. CASE cache'[key] = Answer(Selected(key), Counted(key)', TRUE)
        <3>1. cache'[key] = Answer(PageOf(S, key.page, PageSize), Cardinality(T), TRUE)
            BY <2>3, <2>4
        <3> QED
            BY <2>1, <2>3, <3>1, AnswerTyped
    <2>5. CASE cache'[key] = Answer(Selected(key)', Counted(key), TRUE)
        <3>1. cache'[key] = Answer(PageOf(T, key.page, PageSize), Cardinality(S), TRUE)
            BY <2>3, <2>5
        <3> QED
            BY <2>1, <2>3, <3>1, AnswerTyped
    <2>6. CASE cache'[key] = cache[key]
        BY <2>1, <2>6
    <2> QED
        BY <2>2, <2>4, <2>5, <2>6
<1>5. cache' \in [DOMAIN cache' -> Entries]
    BY <1>2, <1>3, <1>4
<1>6. EntriesOK(cache') /\ Grows(cache, cache')
    BY <1>3, <1>4, <1>5 DEF EntriesOK, Grows
<1>7. Key' \in DOMAIN cache'
    BY <1>1, <1>3, KeySame DEF KeysOK
<1>8. KeysOK'
    BY <1>1, <1>6, <1>7, LookedAtOK
<1>9. FormOK'
    BY <1>1, KeySame DEF FormOK
<1> QED
    BY <1>6, <1>8, <1>9 DEF CacheOK

LEMMA OthersStep ==
    ASSUME HomeInv, Others
    PROVE  HomeInv'
<1>1. ASSUME UNCHANGED inputs, Renders PROVE HomeInv'
    <2>1. FormOK'
        BY <1>1 DEF HomeInv, FormOK, inputs
    <2> QED
        BY <1>1, <2>1, RendersOK DEF HomeInv, FormOK
<1>2. ASSUME NEW city \in Cities, CityAnswered(city) PROVE HomeInv'
    BY <1>1, <1>2 DEF CityAnswered
<1>3. CASE ProfileAnswered
    BY <1>1, <1>3 DEF ProfileAnswered
<1> QED
    BY <1>2, <1>3, FailsStep, TableStep DEF Others

-----------------------------------------------------------------------------
(* The theorems *)

LEMMA HomeInit == Init => HomeInv
<1> SUFFICES ASSUME Init PROVE HomeInv
    OBVIOUS
<1>1. FormOK
    BY DEF Init, FormOK, EmptyForm
<1>2. cache = [key \in {Key} |-> Unanswered] /\ lastKey = Undefined
    BY DEF Init
<1>3. DOMAIN cache = {Key} /\ cache[Key] = Unanswered
    BY <1>2
<1>4. cache \in [DOMAIN cache -> Entries]
    BY <1>2, <1>3, UnansweredIs
<1>5. Key.page \in Nat \ {0}
    BY <1>1, KeyIs DEF FormOK
<1>6. CacheOK
    BY <1>3, <1>4, <1>5, UnansweredIs DEF CacheOK, EntriesOK
<1>7. KeysOK
    BY <1>2, <1>3 DEF KeysOK
<1> QED
    BY <1>1, <1>6, <1>7 DEF HomeInv

LEMMA HomeNext == HomeInv /\ [Next]_vars => HomeInv'
<1> SUFFICES ASSUME HomeInv, [Next]_vars PROVE HomeInv'
    OBVIOUS
<1>1. CASE Next
    BY <1>1, UserStep, AnswersStep, OthersStep DEF Next, Answers
<1>2. CASE UNCHANGED vars
    <2>1. UNCHANGED <<form, debounced, page, profile, geocoded, cache, lastKey>>
        BY <1>2 DEF vars
    <2>2. Key' = Key
        BY <2>1, KeySame DEF inputs
    <2> QED
        BY <2>1, <2>2 DEF HomeInv, FormOK, CacheOK, KeysOK
<1> QED
    BY <1>1, <1>2

\* The inductive invariant: what every key of the cache knows is a page of what was found.
THEOREM HomeInvariance == Spec => []HomeInv
<1>1. Init => HomeInv
    BY HomeInit
<1>2. HomeInv /\ [Next]_vars => HomeInv'
    BY HomeNext
<1> QED
    BY <1>1, <1>2, PTL DEF Spec

\* The variables keep their types; the key shown is known of; no list is longer than a page.
THEOREM HomeTypeCorrect == Spec => []HTypeOK
<1>1. HomeInv => HTypeOK
    <2> SUFFICES ASSUME HomeInv PROVE HTypeOK
        OBVIOUS
    <2>1. ASSUME Shown # Undefined
          PROVE  Shown.total \in 0 .. Cardinality(Ids) /\ Cardinality(Items) <= PageSize
        BY <2>1, TotalPagesIs DEF AnswerOK, Items
    <2> QED
        BY <2>1 DEF HomeInv, FormOK, KeysOK, HTypeOK
<1> QED
    BY <1>1, HomeInvariance, PTL

\* "Back to the last page that exists instead of an empty one" (home-page.tsx): a list that
\* stays empty is the answer of a search that found nothing, or that two statements gave.
THEOREM NoEmptyPageStays == Spec => []NoEmptyPage
<1>1. HomeInv => NoEmptyPage
    <2> SUFFICES ASSUME HomeInv, Current.data # Undefined, Items = {}, ~MustClamp,
                        Current.data.total # 0, ~Current.data.torn
                 PROVE  FALSE
        BY DEF NoEmptyPage
    <2>1. ~IsPlaceholder /\ Shown = Current.data
        BY DEF IsPlaceholder, Shown
    <2>2. page <= TotalPages
        <3>1. page \in Nat /\ TotalPages \in Nat
            BY TotalPagesIs DEF HomeInv, FormOK
        <3> QED
            BY <2>1, <3>1 DEF MustClamp
    <2>3. AnswerOK(page, Current.data)
        BY KeyIs DEF HomeInv, KeysOK, CacheOK, EntriesOK, Current
    <2>4. Current.data.items = {}
        BY <2>1 DEF Items
    <2>5. page > PagesOf(Current.data.total)
        BY <2>3, <2>4 DEF AnswerOK
    <2>6. TotalPages = PagesOf(Current.data.total) /\ TotalPages \in Nat /\ page \in Nat
        BY <2>1, TotalPagesIs DEF HomeInv, FormOK
    <2> QED
        BY <2>2, <2>5, <2>6
<1> QED
    BY <1>1, HomeInvariance, PTL

\* skip and take over the total order of findMany: every event a search finds is on one of
\* its pages, and on no other, whatever their dates.
THEOREM PagesShareOut == Spec => []PagesPartition
<1>1. HomeInv => PagesPartition
    <2> DEFINE W == Where(Filters)
               pages == 1 .. 1 + Count(Filters) \div PageSize
               found == [p \in pages |-> FindMany(Filters, p, PageSize)]
    <2> SUFFICES ASSUME NEW e \in W PROVE Cardinality({p \in pages : e \in found[p]}) = 1
        BY DEF PagesPartition
    <2>1. W \in SUBSET Ids /\ \A p \in pages : found[p] = PageOf(W, p, PageSize)
        BY FindManyIs
    <2>2. /\ Cardinality(W) \in Nat /\ Rank(W, e) \in 1 .. Cardinality(W)
          /\ PageSize \in Nat \ {0} /\ pages = 1 .. 1 + Cardinality(W) \div PageSize
        BY <2>1, RankIs, SetOfIds, HomeConstants DEF Count
    <2> DEFINE N == Cardinality(W)
               r == Rank(W, e)
    <2>3. N \in Nat /\ r \in 1 .. N /\ PageSize \in Nat \ {0} /\ pages = 1 .. 1 + N \div PageSize
        BY <2>2
    <2>4. \A p \in pages : e \in found[p] <=> ((p - 1) * PageSize < r /\ r <= (p - 1) * PageSize + PageSize)
        BY <2>1 DEF PageOf
    <2> HIDE DEF W, pages, found, N, r
    <2>5. PICK p \in 1 .. 1 + N \div PageSize :
             /\ (p - 1) * PageSize < r /\ r <= (p - 1) * PageSize + PageSize
             /\ \A q \in Nat \ {0} : ((q - 1) * PageSize < r /\ r <= (q - 1) * PageSize + PageSize) => q = p
        BY <2>3, OnOnePage
    <2>6. p \in pages /\ pages \subseteq Nat \ {0}
        BY <2>3, <2>5
    <2>7. {q \in pages : e \in found[q]} = {p}
        BY <2>4, <2>5, <2>6
    <2> QED
        BY <2>7, FS_Singleton
<1> QED
    BY <1>1, HomeInvariance, PTL

=============================================================================
