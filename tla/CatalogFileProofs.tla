------------------------- MODULE CatalogFileProofs -------------------------
(***************************************************************************)
(* Proofs about CatalogFile, for any workers, URLs and categories, without *)
(* the bounds of the runs (they are guards, which only take steps away).   *)
(*                                                                         *)
(* First what the operators on catalogues do to a sequence of categories;  *)
(* then types; then UrlsUnique, which holds however requests interleave;   *)
(* then the promises of SaveConfig to a request that nobody overlaps.      *)
(***************************************************************************)
EXTENDS CatalogFile, TLAPS, SequenceTheorems, FiniteSetTheorems,
        WellFoundedInduction

-----------------------------------------------------------------------------
(* Catalogues.                                                              *)

\* A set of numbers has a first one: the intervals that end in them are ordered by
\* inclusion, which is well-founded on finite sets.
LEMMA MinIsMember ==
    ASSUME NEW S \in SUBSET Nat, S # {}
    PROVE  Min(S) \in S
<1> DEFINE T == {1 .. k : k \in S}
<1>1. T \subseteq FiniteSubsetsOf(Nat)
  <2> SUFFICES ASSUME NEW k \in S PROVE 1 .. k \in FiniteSubsetsOf(Nat)
    OBVIOUS
  <2>1. k \in Nat /\ 1 .. k \in SUBSET Nat
    OBVIOUS
  <2>2. IsFiniteSet(1 .. k)
    BY <2>1, FS_Interval
  <2>. QED
    BY <2>1, <2>2 DEF FiniteSubsetsOf
<1>2. T # {}
  OBVIOUS
<1>3. PICK x \in T : \A y \in T : ~ (<<y, x>> \in StrictSubsetOrdering(Nat))
  BY <1>1, <1>2, WFMin, FS_StrictSubsetOrderingWellFounded
<1>4. PICK k \in S : x = 1 .. k
  OBVIOUS
<1>5. ASSUME NEW j \in S, ~ (k =< j) PROVE FALSE
  <2>1. 1 .. j \in T /\ 1 .. j \in SUBSET Nat /\ x \in SUBSET Nat
    BY <1>4
  <2>2. 1 .. j \subseteq x /\ 1 .. j # x
    <3>1. j \in Nat /\ k \in Nat /\ j < k /\ 1 =< k
      BY <1>5
    <3>2. k \in 1 .. k /\ k \notin 1 .. j
      BY <3>1
    <3>. QED
      BY <1>4, <3>1, <3>2
  <2>3. <<1 .. j, x>> \in StrictSubsetOrdering(Nat)
    BY <2>1, <2>2 DEF StrictSubsetOrdering
  <2>. QED
    BY <1>3, <2>1, <2>3
<1>6. \E m \in S : \A j \in S : m =< j
  BY <1>5
<1>. QED
  BY <1>6 DEF Min

LEMMA CatalogElements ==
    ASSUME NEW c \in Catalogs
    PROVE  /\ Len(c) \in Nat
           /\ DOMAIN c = 1 .. Len(c)
           /\ \A i \in DOMAIN c : c[i].name \in Cats /\ c[i].apps \in SUBSET Urls
           /\ \A i \in DOMAIN c : c[i] = [name |-> c[i].name, apps |-> c[i].apps]
<1>1. /\ Len(c) \in Nat
      /\ DOMAIN c = 1 .. Len(c)
      /\ \A i \in DOMAIN c : c[i] \in Category
  BY LenProperties DEF Catalogs
<1>. QED
  BY <1>1 DEF Category

LEMMA FirstNamed ==
    ASSUME NEW c \in Catalogs, NEW n, Named(c, n) # {}
    PROVE  Min(Named(c, n)) \in DOMAIN c /\ c[Min(Named(c, n))].name = n
<1>1. Named(c, n) \in SUBSET Nat
  BY CatalogElements DEF Named
<1>. QED
  BY <1>1, MinIsMember DEF Named

LEMMA ReplaceCategory ==
    ASSUME NEW c \in Catalogs, NEW i \in DOMAIN c, NEW k \in Category
    PROVE  /\ [c EXCEPT ![i] = k] \in Catalogs
           /\ DOMAIN [c EXCEPT ![i] = k] = DOMAIN c
           /\ \A j \in DOMAIN c : [c EXCEPT ![i] = k][j] = IF j = i THEN k ELSE c[j]
<1>1. i \in 1 .. Len(c) /\ DOMAIN c = 1 .. Len(c)
  BY CatalogElements
<1>. QED
  BY <1>1, ExceptSeq DEF Catalogs

LEMMA AppendCategory ==
    ASSUME NEW c \in Catalogs, NEW k \in Category
    PROVE  /\ Append(c, k) \in Catalogs
           /\ DOMAIN Append(c, k) = 1 .. (Len(c) + 1)
           /\ \A j \in DOMAIN c : Append(c, k)[j] = c[j]
           /\ Append(c, k)[Len(c) + 1] = k
BY CatalogElements DEF Catalogs

LEMMA RemoveCategory ==
    ASSUME NEW c \in Catalogs, NEW i \in DOMAIN c
    PROVE  /\ RemoveAt(c, i) \in Catalogs
           /\ DOMAIN RemoveAt(c, i) = 1 .. (Len(c) - 1)
           /\ \A j \in 1 .. (Len(c) - 1) :
                 RemoveAt(c, i)[j] = IF j < i THEN c[j] ELSE c[j + 1]
<1>1. Len(c) \in Nat /\ i \in 1 .. Len(c) /\ \A j \in 1 .. Len(c) : c[j] \in Category
  BY LenProperties, CatalogElements DEF Catalogs
<1> DEFINE s == SubSeq(c, 1, i - 1)
           t == SubSeq(c, i + 1, Len(c))
<1>2. /\ s \in Seq(Category) /\ Len(s) = i - 1
      /\ \A j \in 1 .. (i - 1) : s[j] = c[j]
  BY <1>1, SubSeqProperties
<1>3. /\ t \in Seq(Category) /\ Len(t) = Len(c) - i
      /\ \A j \in 1 .. (Len(c) - i) : t[j] = c[i + j]
  BY <1>1, SubSeqProperties
<1> HIDE DEF s, t
<1>4. /\ s \o t \in Seq(Category)
      /\ Len(s \o t) = Len(s) + Len(t)
      /\ \A j \in 1 .. (Len(s) + Len(t)) :
            (s \o t)[j] = IF j <= Len(s) THEN s[j] ELSE t[j - Len(s)]
  BY <1>2, <1>3, ConcatProperties
<1>5. Len(s) + Len(t) = Len(c) - 1
  BY <1>1, <1>2, <1>3
<1>6. ASSUME NEW j \in 1 .. (Len(c) - 1)
      PROVE  (s \o t)[j] = IF j < i THEN c[j] ELSE c[j + 1]
  <2>1. CASE j < i
    <3>1. j \in 1 .. (i - 1) /\ j <= i - 1
      BY <1>1, <2>1
    <3>. QED
      BY <1>2, <1>4, <1>5, <2>1, <3>1
  <2>2. CASE ~ (j < i)
    <3>1. /\ j - (i - 1) \in 1 .. (Len(c) - i) /\ ~ (j <= i - 1)
          /\ i + (j - (i - 1)) = j + 1
      BY <1>1, <2>2
    <3>. QED
      BY <1>2, <1>3, <1>4, <1>5, <2>2, <3>1
  <2>. QED
    BY <2>1, <2>2
<1>7. RemoveAt(c, i) = s \o t
  BY DEF RemoveAt, s, t
<1>. QED
  BY <1>1, <1>4, <1>5, <1>6, <1>7, LenProperties DEF Catalogs

\* Categories that share no application.
Unique(c) == \A i, j \in DOMAIN c : i # j => c[i].apps \cap c[j].apps = {}

LEMMA RestockCategory ==
    ASSUME NEW c \in Catalogs, NEW i \in DOMAIN c, NEW S \in SUBSET Urls
    PROVE  LET d == [c EXCEPT ![i].apps = S]
           IN  /\ d \in Catalogs
               /\ DOMAIN d = DOMAIN c
               /\ \A j \in DOMAIN c : d[j].apps = IF j = i THEN S ELSE c[j].apps
<1> DEFINE k == [name |-> c[i].name, apps |-> S]
<1>1. k \in Category
  BY CatalogElements DEF Category
<1>2. [c[i] EXCEPT !.apps = S] = k
  <2>1. c[i] = [name |-> c[i].name, apps |-> c[i].apps]
    BY CatalogElements
  <2>. QED
    BY <2>1
<1>3. [c EXCEPT ![i].apps = S] = [c EXCEPT ![i] = k]
  BY <1>2
<1>. QED
  BY <1>1, <1>3, ReplaceCategory

LEMMA WithIsCatalog ==
    ASSUME NEW c \in Catalogs, NEW u \in Urls, NEW n \in Cats
    PROVE  /\ With(c, u, n) \in Catalogs
           /\ UrlsOf(With(c, u, n)) = UrlsOf(c) \cup {u}
           /\ Unique(c) /\ u \notin UrlsOf(c) => Unique(With(c, u, n))
<1>1. CASE Named(c, n) = {}
  <2> DEFINE k == [name |-> n, apps |-> {u}]
  <2>1. k \in Category /\ With(c, u, n) = Append(c, k)
    BY <1>1 DEF With, Category
  <2>2. /\ Append(c, k) \in Catalogs
        /\ DOMAIN Append(c, k) = 1 .. (Len(c) + 1)
        /\ \A j \in DOMAIN c : Append(c, k)[j] = c[j]
        /\ Append(c, k)[Len(c) + 1].apps = {u}
    BY <2>1, AppendCategory
  <2>3. Len(c) \in Nat /\ DOMAIN c = 1 .. Len(c)
    BY CatalogElements
  <2> HIDE DEF k
  <2>4. DOMAIN Append(c, k) = DOMAIN c \cup {Len(c) + 1}
    BY <2>2, <2>3
  <2>5. UrlsOf(Append(c, k)) = UrlsOf(c) \cup {u}
    BY <2>2, <2>4 DEF UrlsOf
  <2>6. ASSUME Unique(c), u \notin UrlsOf(c) PROVE Unique(Append(c, k))
    <3>1. \A j \in DOMAIN c : u \notin c[j].apps
      BY <2>6 DEF UrlsOf
    <3>. QED
      BY <2>2, <2>4, <2>6, <3>1 DEF Unique
  <2>. QED
    BY <2>1, <2>2, <2>5, <2>6
<1>2. CASE Named(c, n) # {}
  <2> DEFINE i == Min(Named(c, n))
             S == c[i].apps \cup {u}
             d == [c EXCEPT ![i].apps = S]
  <2>1. i \in DOMAIN c /\ S \in SUBSET Urls
    BY <1>2, FirstNamed, CatalogElements
  <2>2. With(c, u, n) = d
    BY <1>2 DEF With
  <2>3. /\ d \in Catalogs
        /\ DOMAIN d = DOMAIN c
        /\ \A j \in DOMAIN c : d[j].apps = IF j = i THEN S ELSE c[j].apps
    BY <2>1, RestockCategory
  <2> HIDE DEF i, d
  <2>4. UrlsOf(d) = UrlsOf(c) \cup {u}
    BY <2>1, <2>3 DEF UrlsOf
  <2>5. ASSUME Unique(c), u \notin UrlsOf(c) PROVE Unique(d)
    <3>1. \A j \in DOMAIN c : u \notin c[j].apps
      BY <2>5 DEF UrlsOf
    <3>. QED
      BY <2>1, <2>3, <2>5, <3>1 DEF Unique
  <2>. QED
    BY <2>2, <2>3, <2>4, <2>5
<1>. QED
  BY <1>1, <1>2

LEMMA RemoveKeepsOthers ==
    ASSUME NEW c \in Catalogs, NEW i \in DOMAIN c
    PROVE  /\ UrlsOf(RemoveAt(c, i)) = UNION {c[j].apps : j \in DOMAIN c \ {i}}
           /\ Unique(c) => Unique(RemoveAt(c, i))
<1> DEFINE d == RemoveAt(c, i)
           old(j) == IF j < i THEN j ELSE j + 1
<1>1. Len(c) \in Nat /\ DOMAIN c = 1 .. Len(c)
  BY CatalogElements
<1>2. DOMAIN d = 1 .. (Len(c) - 1) /\ \A j \in DOMAIN d : d[j] = c[old(j)]
  BY RemoveCategory
<1> HIDE DEF d
<1>3. \A j \in DOMAIN d : old(j) \in DOMAIN c \ {i}
  BY <1>1, <1>2
<1>4. \A j, k \in DOMAIN d : j # k => old(j) # old(k)
  BY <1>1, <1>2
<1>5. ASSUME NEW j \in DOMAIN c \ {i} PROVE \E k \in DOMAIN d : old(k) = j
  <2>1. CASE j < i
    BY <1>1, <1>2, <2>1
  <2>2. CASE ~ (j < i)
    <3>1. j - 1 \in DOMAIN d /\ old(j - 1) = j
      BY <1>1, <1>2, <2>2
    <3>. QED
      BY <3>1
  <2>. QED
    BY <2>1, <2>2
<1> HIDE DEF old
<1>6. UrlsOf(d) = UNION {c[j].apps : j \in DOMAIN c \ {i}}
  BY <1>2, <1>3, <1>5 DEF UrlsOf
<1>7. Unique(c) => Unique(d)
  BY <1>2, <1>3, <1>4 DEF Unique
<1>. QED
  BY <1>6, <1>7 DEF d

LEMMA WithoutIsCatalog ==
    ASSUME NEW c \in Catalogs, NEW u \in UrlsOf(c)
    PROVE  /\ Without(c, u) \in Catalogs
           /\ Unique(c) => Unique(Without(c, u)) /\ UrlsOf(Without(c, u)) = UrlsOf(c) \ {u}
<1> DEFINE homes == {j \in DOMAIN c : u \in c[j].apps}
           i == Min(homes)
<1>1. homes # {} /\ homes \in SUBSET Nat
  BY CatalogElements DEF UrlsOf
<1>2. i \in DOMAIN c /\ u \in c[i].apps
  <2> HIDE DEF homes
  <2>1. i \in homes
    BY <1>1, MinIsMember
  <2>. QED
    BY <2>1 DEF homes
<1>3. Unique(c) => \A j \in DOMAIN c : u \in c[j].apps => j = i
  BY <1>2 DEF Unique
<1>4. Without(c, u) = IF c[i].apps = {u} THEN RemoveAt(c, i)
                      ELSE [c EXCEPT ![i].apps = c[i].apps \ {u}]
  BY DEF Without
<1> HIDE DEF i
<1>5. CASE c[i].apps = {u}
  <2>1. Without(c, u) = RemoveAt(c, i)
    BY <1>4, <1>5
  <2>2. RemoveAt(c, i) \in Catalogs
    BY <1>2, RemoveCategory
  <2>3. /\ UrlsOf(RemoveAt(c, i)) = UNION {c[j].apps : j \in DOMAIN c \ {i}}
        /\ Unique(c) => Unique(RemoveAt(c, i))
    BY <1>2, RemoveKeepsOthers
  <2>4. Unique(c) => UrlsOf(RemoveAt(c, i)) = UrlsOf(c) \ {u}
    BY <1>2, <1>3, <1>5, <2>3 DEF UrlsOf
  <2>. QED
    BY <2>1, <2>2, <2>3, <2>4
<1>6. CASE c[i].apps # {u}
  <2> DEFINE d == [c EXCEPT ![i].apps = c[i].apps \ {u}]
  <2>1. Without(c, u) = d
    BY <1>4, <1>6
  <2>2. c[i].apps \ {u} \in SUBSET Urls
    BY <1>2, CatalogElements
  <2>3. /\ d \in Catalogs
        /\ DOMAIN d = DOMAIN c
        /\ \A j \in DOMAIN c : d[j].apps = IF j = i THEN c[i].apps \ {u} ELSE c[j].apps
    BY <1>2, <2>2, RestockCategory
  <2> HIDE DEF d
  <2>4. \A j \in DOMAIN c : d[j].apps \subseteq c[j].apps
    BY <2>3
  <2>5. Unique(c) => Unique(d)
    BY <2>3, <2>4 DEF Unique
  <2>6. Unique(c) => UrlsOf(d) = UrlsOf(c) \ {u}
    BY <1>2, <1>3, <2>3 DEF UrlsOf
  <2>. QED
    BY <2>1, <2>3, <2>5, <2>6
<1>. QED
  BY <1>5, <1>6

LEMMA MoveIsCatalog ==
    ASSUME NEW c \in Catalogs, NEW u \in UrlsOf(c), NEW v \in Urls, NEW n \in Cats
    PROVE  /\ With(Without(c, u), v, n) \in Catalogs
           /\ Unique(c) /\ (v # u => v \notin UrlsOf(c)) =>
                 /\ Unique(With(Without(c, u), v, n))
                 /\ UrlsOf(With(Without(c, u), v, n)) = (UrlsOf(c) \ {u}) \cup {v}
<1>1. /\ Without(c, u) \in Catalogs
      /\ Unique(c) => Unique(Without(c, u)) /\ UrlsOf(Without(c, u)) = UrlsOf(c) \ {u}
  BY WithoutIsCatalog
<1>. QED
  BY <1>1, WithIsCatalog

LEMMA AppendIsCatalog ==
    ASSUME NEW c \in Catalogs, NEW n \in Cats
    PROVE  /\ Append(c, [name |-> n, apps |-> {}]) \in Catalogs
           /\ UrlsOf(Append(c, [name |-> n, apps |-> {}])) = UrlsOf(c)
           /\ Unique(c) => Unique(Append(c, [name |-> n, apps |-> {}]))
<1> DEFINE k == [name |-> n, apps |-> {}]
<1>1. k \in Category
  BY DEF Category
<1>2. /\ Append(c, k) \in Catalogs
      /\ DOMAIN Append(c, k) = 1 .. (Len(c) + 1)
      /\ \A j \in DOMAIN c : Append(c, k)[j] = c[j]
      /\ Append(c, k)[Len(c) + 1].apps = {}
  BY <1>1, AppendCategory
<1>3. Len(c) \in Nat /\ DOMAIN c = 1 .. Len(c)
  BY CatalogElements
<1> HIDE DEF k
<1>4. \A j \in DOMAIN Append(c, k) : j \in DOMAIN c \/ j = Len(c) + 1
  BY <1>2, <1>3
<1>5. Unique(c) => Unique(Append(c, k))
  BY <1>2, <1>4 DEF Unique
<1>6. UrlsOf(Append(c, k)) = UrlsOf(c)
  BY <1>2, <1>3, <1>4 DEF UrlsOf
<1>. QED
  BY <1>2, <1>5, <1>6 DEF k

LEMMA RenameIsCatalog ==
    ASSUME NEW c \in Catalogs, NEW i \in DOMAIN c, NEW n \in Cats
    PROVE  /\ [c EXCEPT ![i].name = n] \in Catalogs
           /\ UrlsOf([c EXCEPT ![i].name = n]) = UrlsOf(c)
           /\ Unique(c) => Unique([c EXCEPT ![i].name = n])
<1> DEFINE k == [name |-> n, apps |-> c[i].apps]
           d == [c EXCEPT ![i].name = n]
<1>1. k \in Category
  BY CatalogElements DEF Category
<1>2. [c[i] EXCEPT !.name = n] = k
  <2>1. c[i] = [name |-> c[i].name, apps |-> c[i].apps]
    BY CatalogElements
  <2>. QED
    BY <2>1
<1>3. d = [c EXCEPT ![i] = k]
  BY <1>2
<1>4. k.apps = c[i].apps
  OBVIOUS
<1> HIDE DEF k, d
<1>5. /\ d \in Catalogs
      /\ DOMAIN d = DOMAIN c
      /\ \A j \in DOMAIN c : d[j].apps = c[j].apps
  BY <1>1, <1>3, <1>4, ReplaceCategory
<1>6. Unique(c) => Unique(d)
  BY <1>5 DEF Unique
<1>7. UrlsOf(d) = UrlsOf(c)
  BY <1>5 DEF UrlsOf
<1>. QED
  BY <1>5, <1>6, <1>7 DEF d

-----------------------------------------------------------------------------
(* Types.                                                                   *)

Held == {Nothing} \cup [catalog : Catalogs \cup {Torn}] \cup [url : Urls]
        \cup [url : Urls, on : BOOLEAN] \cup [then : {"idle", "marshal"}]
        \cup [then : {"idle", "marshal"}, maps : SUBSET Urls]

TypeInv == TypeOK /\ held \in [Workers -> Held]

\* A worker takes along something of the kind its next step reads.
Fits(label, what) ==
    /\ label \in Pcs
    /\ what \in Held
    /\ label \in {"open", "write"} => what \in [catalog : Catalogs]
    /\ label = "restore" => what \in [catalog : Catalogs \cup {Torn}]
    /\ label = "unmap" => what \in [url : Urls]
    /\ label = "mapSet" => what \in [url : Urls, on : BOOLEAN]
    /\ label = "mapSnap" => what \in [then : {"idle", "marshal"}]
    /\ label \in {"mapOpen", "mapWrite"} =>
          what \in [then : {"idle", "marshal"}, maps : SUBSET Urls]

LEMMA HeldFits == TypeInv => \A w \in Workers : Fits(pc[w], held[w])
BY DEF TypeInv, TypeOK, Fits

LEMMA GotoType ==
    ASSUME TypeInv, NEW w \in Workers, NEW label, NEW what, Fits(label, what),
           Goto(w, label, what),
           mem' \in Catalogs, maps' \subseteq Urls,
           config' \in Catalogs \cup {Torn}, tmp' \in Catalogs \cup {Torn, Absent},
           mapFile' = Torn \/ mapFile' \subseteq Urls,
           at' \in [Workers -> {"none", "tmp", "config", "gone"}],
           \A v \in Workers : IF v = w THEN at'[v] # "none" <=> label = "write"
                              ELSE at'[v] # "none" <=> at[v] # "none",
           trouble' \in Calm .. Unread
    PROVE  TypeInv'
<1>1. pc' \in [Workers -> Pcs] /\ held' \in [Workers -> Held]
  BY DEF TypeInv, TypeOK, Goto, Fits
<1>2. \A v \in Workers : Fits(pc'[v], held'[v])
  BY HeldFits DEF Goto, TypeInv, TypeOK
<1>3. \A v \in Workers : pc'[v] = "write" <=> at'[v] # "none"
  BY DEF TypeInv, TypeOK, Goto
<1>. QED
  BY <1>1, <1>2, <1>3 DEF TypeInv, TypeOK, Fits

LEMMA LevelType ==
    ASSUME trouble \in Calm .. Unread, NEW level \in Calm .. Unread
    PROVE  AtLeast(level) \in Calm .. Unread
BY DEF AtLeast, Calm, Unread

LEMMA Levels == /\ Calm \in Calm .. Unread /\ Failed \in Calm .. Unread
                /\ Overlap \in Calm .. Unread /\ Unread \in Calm .. Unread
BY DEF Calm, Failed, Overlap, Unread

LEMMA BeginGoes ==
    ASSUME TypeInv, NEW w \in Workers, NEW label, NEW what, Begin(w, label, what)
    PROVE  Goto(w, label, what) /\ trouble' \in Calm .. Unread
BY Levels, LevelType DEF Begin, TypeInv, TypeOK

\* A step that moves a worker and leaves the open files alone.
LEMMA MoveType ==
    ASSUME TypeInv, NEW w \in Workers, pc[w] # "write",
           NEW label, NEW what, Fits(label, what), label # "write",
           Goto(w, label, what), UNCHANGED <<config, tmp, at>>,
           mapFile' = Torn \/ mapFile' \subseteq Urls,
           mem' \in Catalogs, maps' \subseteq Urls, trouble' \in Calm .. Unread
    PROVE  TypeInv'
BY GotoType DEF TypeInv, TypeOK

LEMMA EditType ==
    ASSUME TypeInv, NEW w \in Workers, NEW c \in Catalogs, NEW label, NEW what,
           Fits(label, what), label # "write", Edit(w, c, label, what),
           maps' \subseteq Urls
    PROVE  TypeInv'
<1>1. Goto(w, label, what) /\ trouble' \in Calm .. Unread /\ pc[w] # "write"
  BY BeginGoes DEF Edit, Begin
<1>. QED
  BY <1>1, MoveType DEF Edit, files, TypeInv, TypeOK

LEMMA LabelsFit ==
    /\ Fits("idle", Nothing) /\ Fits("marshal", Nothing) /\ Fits("rename", Nothing)
    /\ Fits("remove", Nothing) /\ Fits("reload", Nothing)
    /\ \A t \in {"idle", "marshal"} : Fits("mapSnap", [then |-> t])
    /\ \A t \in {"idle", "marshal"}, S \in SUBSET Urls :
          Fits("mapOpen", [then |-> t, maps |-> S])
    /\ \A u \in Urls : Fits("unmap", [url |-> u])
    /\ \A u \in Urls, on \in BOOLEAN : Fits("mapSet", [url |-> u, on |-> on])
    /\ \A c \in Catalogs : Fits("open", [catalog |-> c])
    /\ \A c \in Catalogs \cup {Torn} : Fits("restore", [catalog |-> c])
BY DEF Fits, Held, Pcs

LEMMA InitTypes == Init => TypeInv
<1>1. <<>> \in Catalogs
  BY EmptySeq DEF Catalogs
<1>. QED
  BY <1>1, Levels DEF Init, TypeInv, TypeOK, Held, Pcs

LEMMA EditCategoryTypes ==
    ASSUME TypeInv, NEW w \in Workers, EditCategory(w)
    PROVE  TypeInv'
<1>0. mem \in Catalogs /\ maps \subseteq Urls
  BY DEF TypeInv, TypeOK
<1>1. ASSUME NEW n \in Cats, AddCategory(w, n) PROVE TypeInv'
  BY <1>0, <1>1, AppendIsCatalog, LabelsFit, EditType DEF AddCategory
<1>2. ASSUME NEW m \in Cats, NEW n \in Cats, RenameCategory(w, m, n) PROVE TypeInv'
  <2>1. [mem EXCEPT ![Min(Named(mem, m))].name = n] \in Catalogs
    BY <1>0, <1>2, FirstNamed, RenameIsCatalog DEF RenameCategory
  <2>. QED
    BY <1>0, <1>2, <2>1, LabelsFit, EditType DEF RenameCategory
<1>3. ASSUME NEW n \in Cats, DeleteCategory(w, n) PROVE TypeInv'
  <2>1. RemoveAt(mem, Min(Named(mem, n))) \in Catalogs
    BY <1>0, <1>3, FirstNamed, RemoveCategory DEF DeleteCategory
  <2>. QED
    BY <1>0, <1>3, <2>1, LabelsFit, EditType DEF DeleteCategory
<1>. QED
  BY <1>1, <1>2, <1>3 DEF EditCategory

LEMMA EditAppTypes ==
    ASSUME TypeInv, NEW w \in Workers, EditApp(w)
    PROVE  TypeInv'
<1>0. mem \in Catalogs /\ maps \subseteq Urls
  BY DEF TypeInv, TypeOK
<1>1. ASSUME NEW u \in Urls, NEW n \in Cats, AddApp(w, u, n) PROVE TypeInv'
  BY <1>0, <1>1, WithIsCatalog, LabelsFit, EditType DEF AddApp
<1>2. ASSUME NEW u \in Urls, NEW v \in Urls, NEW n \in Cats, MoveApp(w, u, v, n)
      PROVE  TypeInv'
  <2>1. With(Without(mem, u), v, n) \in Catalogs
    BY <1>0, <1>2, MoveIsCatalog DEF MoveApp
  <2>2. maps' \subseteq Urls
    BY <1>0, <1>2 DEF MoveApp
  <2>3. CASE v = u
    BY <1>2, <2>1, <2>2, <2>3, LabelsFit, EditType DEF MoveApp
  <2>4. CASE v # u
    BY <1>2, <2>1, <2>2, <2>4, LabelsFit, EditType DEF MoveApp
  <2>. QED
    BY <2>3, <2>4
<1>3. ASSUME NEW u \in Urls, DeleteApp(w, u) PROVE TypeInv'
  BY <1>0, <1>3, WithoutIsCatalog, LabelsFit, EditType DEF DeleteApp
<1>. QED
  BY <1>1, <1>2, <1>3 DEF EditApp

LEMMA MappingTypes ==
    ASSUME TypeInv, NEW w \in Workers,
           \/ Unmap(w) \/ MapSet(w) \/ SaveMappings(w)
           \/ \E u \in Urls, on \in BOOLEAN : MapBegin(w, u, on)
    PROVE  TypeInv'
<1>0. /\ mem \in Catalogs /\ maps \subseteq Urls /\ trouble \in Calm .. Unread
      /\ mapFile = Torn \/ mapFile \subseteq Urls
      /\ AtLeast(Failed) \in Calm .. Unread
  BY Levels, LevelType DEF TypeInv, TypeOK
<1>1. ASSUME Unmap(w) PROVE TypeInv'
  BY <1>0, <1>1, LabelsFit, MoveType DEF Unmap, files
<1>2. ASSUME MapSet(w) PROVE TypeInv'
  <2>1. held[w] \in [url : Urls, on : BOOLEAN]
    BY <1>2 DEF MapSet, TypeInv, TypeOK
  <2>2. maps' \subseteq Urls
    BY <1>0, <1>2, <2>1 DEF MapSet
  <2>. QED
    BY <1>0, <1>2, <2>2, LabelsFit, MoveType DEF MapSet, files
<1>3. ASSUME NEW u \in Urls, NEW on \in BOOLEAN, MapBegin(w, u, on) PROVE TypeInv'
  <2>1. Goto(w, "mapSet", [url |-> u, on |-> on]) /\ trouble' \in Calm .. Unread
    BY <1>3, BeginGoes DEF MapBegin
  <2>. QED
    BY <1>0, <1>3, <2>1, LabelsFit, MoveType DEF MapBegin, Begin, files
<1>4. ASSUME MapSnapshot(w) PROVE TypeInv'
  <2>1. held[w].then \in {"idle", "marshal"}
    BY <1>4 DEF MapSnapshot, TypeInv, TypeOK
  <2>. QED
    BY <1>0, <1>4, <2>1, LabelsFit, MoveType DEF MapSnapshot, files
<1>5. ASSUME MapDone(w), pc[w] \in {"mapOpen", "mapWrite"}, UNCHANGED <<mem, maps, config, tmp, at>>,
             mapFile' = Torn \/ mapFile' \subseteq Urls, trouble' \in Calm .. Unread
      PROVE  TypeInv'
  <2>1. CASE held[w].then = "idle"
    BY <1>0, <1>5, <2>1, LabelsFit, MoveType DEF MapDone, Answer
  <2>2. CASE held[w].then # "idle"
    BY <1>0, <1>5, <2>2, LabelsFit, MoveType DEF MapDone
  <2>. QED
    BY <2>1, <2>2
<1>6. ASSUME MapOpen(w) PROVE TypeInv'
  <2>1. Fits("mapWrite", held[w])
    BY <1>6 DEF MapOpen, TypeInv, TypeOK, Fits, Pcs
  <2>2. CASE mapFile' = Torn /\ Goto(w, "mapWrite", held[w]) /\ UNCHANGED trouble
    BY <1>0, <1>6, <2>1, <2>2, MoveType DEF MapOpen
  <2>3. CASE MapFails(w) /\ UNCHANGED mapFile
    BY <1>0, <1>5, <1>6, <2>3 DEF MapOpen, MapFails
  <2>. QED
    BY <1>6, <2>2, <2>3 DEF MapOpen
<1>7. ASSUME MapWrite(w) PROVE TypeInv'
  <2>1. held[w].maps \subseteq Urls
    BY <1>7 DEF MapWrite, TypeInv, TypeOK
  <2>2. CASE mapFile' \in Over(mapFile, held[w].maps) /\ MapDone(w) /\ UNCHANGED trouble
    BY <1>0, <1>5, <1>7, <2>1, <2>2 DEF MapWrite, Over
  <2>3. CASE MapFails(w) /\ UNCHANGED mapFile
    BY <1>0, <1>5, <1>7, <2>3 DEF MapWrite, MapFails
  <2>. QED
    BY <1>7, <2>2, <2>3 DEF MapWrite
<1>. QED
  BY <1>1, <1>2, <1>3, <1>4, <1>6, <1>7 DEF SaveMappings

LEMMA SaveTypes ==
    ASSUME TypeInv, NEW w \in Workers, SaveConfig(w)
    PROVE  TypeInv'
<1>0. /\ mem \in Catalogs /\ maps \subseteq Urls /\ trouble \in Calm .. Unread
      /\ config \in Catalogs \cup {Torn} /\ tmp \in Catalogs \cup {Torn, Absent}
      /\ mapFile = Torn \/ mapFile \subseteq Urls
      /\ at \in [Workers -> {"none", "tmp", "config", "gone"}]
      /\ \A v \in Workers : pc[v] = "write" <=> at[v] # "none"
      /\ AtLeast(Failed) \in Calm .. Unread /\ AtLeast(Unread) \in Calm .. Unread
  BY Levels, LevelType DEF TypeInv, TypeOK
<1>1. ASSUME Marshal(w) PROVE TypeInv'
  BY <1>0, <1>1, LabelsFit, MoveType DEF Marshal, files
<1>2. ASSUME SaveFails(w), UNCHANGED <<mem, maps, mapFile, config, tmp>>,
             at' = [at EXCEPT ![w] = "none"]
      PROVE  TypeInv'
  BY <1>0, <1>2, LabelsFit, GotoType DEF SaveFails
<1>3. ASSUME Open(w) PROVE TypeInv'
  <2>1. CASE tmp' = Torn /\ at' = [at EXCEPT ![w] = "tmp"] /\ Goto(w, "write", held[w])
             /\ UNCHANGED trouble
    <3>1. Fits("write", held[w])
      BY <1>3 DEF Open, TypeInv, TypeOK, Fits, Pcs
    <3>. QED
      BY <1>0, <1>3, <2>1, <3>1, GotoType DEF Open
  <2>2. CASE SaveFails(w) /\ UNCHANGED <<tmp, at>>
    <3>1. at' = [at EXCEPT ![w] = "none"]
      BY <1>0, <1>3, <2>2 DEF Open
    <3>. QED
      BY <1>2, <1>3, <2>2, <3>1 DEF Open
  <2>. QED
    BY <1>3, <2>1, <2>2 DEF Open
<1>4. ASSUME Write(w) PROVE TypeInv'
  <2>1. held[w].catalog \in Catalogs
    BY <1>4 DEF Write, TypeInv, TypeOK
  <2>2. CASE Goto(w, "rename", Nothing) /\ UNCHANGED trouble
    <3>1. config' \in Catalogs \cup {Torn} /\ tmp' \in Catalogs \cup {Torn, Absent}
      BY <1>0, <1>4, <2>1 DEF Write, Over
    <3>. QED
      BY <1>0, <1>4, <2>2, <3>1, LabelsFit, GotoType DEF Write
  <2>3. CASE SaveFails(w) /\ UNCHANGED <<tmp, config>>
    BY <1>2, <1>4, <2>3 DEF Write
  <2>. QED
    BY <1>4, <2>2, <2>3 DEF Write
<1>5. ASSUME Rename(w) PROVE TypeInv'
  <2>1. CASE tmp # Absent /\ config' = tmp /\ tmp' = Absent /\ Answer(w) /\ UNCHANGED trouble
             /\ at' = [v \in Workers |-> CASE at[v] = "tmp" -> "config"
                                           [] at[v] = "config" -> "gone"
                                           [] OTHER -> at[v]]
    <3>1. /\ at' \in [Workers -> {"none", "tmp", "config", "gone"}]
          /\ \A v \in Workers : at'[v] # "none" <=> at[v] # "none"
      BY <1>0, <2>1
    <3>2. at[w] = "none"
      BY <1>0, <1>5 DEF Rename
    <3>. QED
      BY <1>0, <1>5, <2>1, <3>1, <3>2, LabelsFit, GotoType DEF Rename, Answer
  <2>2. CASE SaveFails(w) /\ UNCHANGED <<config, tmp, at>>
    <3>1. at' = [at EXCEPT ![w] = "none"]
      BY <1>0, <1>5, <2>2 DEF Rename
    <3>. QED
      BY <1>2, <1>5, <2>2, <3>1 DEF Rename
  <2>. QED
    BY <1>5, <2>1, <2>2 DEF Rename
<1>6. ASSUME RemoveTmp(w) PROVE TypeInv'
  <2>1. /\ at' \in [Workers -> {"none", "tmp", "config", "gone"}]
        /\ \A v \in Workers : at'[v] # "none" <=> at[v] # "none"
        /\ at[w] = "none"
    BY <1>0, <1>6 DEF RemoveTmp
  <2>2. tmp' \in Catalogs \cup {Torn, Absent}
    BY <1>0, <1>6 DEF RemoveTmp
  <2>. QED
    BY <1>0, <1>6, <2>1, <2>2, LabelsFit, GotoType DEF RemoveTmp
<1>7. ASSUME Reload(w) PROVE TypeInv'
  <2>1. CASE Goto(w, "restore", [catalog |-> config]) /\ UNCHANGED trouble
    BY <1>0, <1>7, <2>1, LabelsFit, MoveType DEF Reload, files
  <2>2. CASE Answer(w) /\ trouble' = AtLeast(Unread)
    BY <1>0, <1>7, <2>2, LabelsFit, MoveType DEF Reload, Answer, files
  <2>. QED
    BY <1>7, <2>1, <2>2 DEF Reload
<1>8. ASSUME Restore(w) PROVE TypeInv'
  <2>1. held[w].catalog \in Catalogs \cup {Torn} /\ Fragment \in Catalogs
    BY <1>8, EmptySeq DEF Restore, TypeInv, TypeOK, Fragment, Catalogs
  <2>2. mem' \in Catalogs /\ trouble' \in Calm .. Unread
    BY <1>0, <1>8, <2>1 DEF Restore
  <2>. QED
    BY <1>0, <1>8, <2>2, LabelsFit, MoveType DEF Restore, Answer, files
<1>. QED
  BY <1>1, <1>3, <1>4, <1>5, <1>6, <1>7, <1>8 DEF SaveConfig

LEMMA RestartTypes == TypeInv /\ Restart => TypeInv'
<1> SUFFICES ASSUME TypeInv, Restart PROVE TypeInv'
  OBVIOUS
<1>1. trouble' \in Calm .. Unread
  BY Levels, LevelType DEF Restart, TypeInv, TypeOK
<1>2. mem' \in Catalogs /\ maps' \subseteq Urls
  BY EmptySeq DEF Restart, TypeInv, TypeOK, Fragment, Catalogs
<1>. QED
  BY <1>1, <1>2 DEF Restart, TypeInv, TypeOK, Held, Pcs

LEMMA StepTypes == TypeInv /\ [Next]_vars => TypeInv'
<1> SUFFICES ASSUME TypeInv, [Next]_vars PROVE TypeInv'
  OBVIOUS
<1>1. CASE UNCHANGED vars
  BY <1>1 DEF vars, TypeInv, TypeOK
<1>. QED
  BY <1>1, EditCategoryTypes, EditAppTypes, MappingTypes, SaveTypes, RestartTypes DEF Next

LEMMA TypesHold == Spec => []TypeInv
<1>. QED
  BY InitTypes, StepTypes, PTL DEF Spec

\* Every variable keeps to its type, and a worker holds what its next step reads: no
\* step takes a catalogue from a goroutine that has none.
THEOREM CatalogTypes == Spec => []TypeOK
<1>1. TypeInv => TypeOK
  BY DEF TypeInv
<1>. QED
  BY <1>1, TypesHold, PTL

-----------------------------------------------------------------------------
(* A URL names one application.  Every copy of a catalogue, in memory, in a *)
(* file or in a goroutine, came from memory at some time.                   *)

UniqueInv ==
    /\ Unique(mem)
    /\ config # Torn => Unique(config)
    /\ tmp \notin {Torn, Absent} => Unique(tmp)
    /\ \A w \in Workers :
          pc[w] \in {"open", "write", "restore"} /\ held[w].catalog # Torn =>
              Unique(held[w].catalog)

LEMMA UniqueGoes ==
    ASSUME TypeInv, UniqueInv, NEW w \in Workers, NEW label, NEW what,
           Goto(w, label, what), Unique(mem'),
           config' # Torn => Unique(config'),
           tmp' \notin {Torn, Absent} => Unique(tmp'),
           label \in {"open", "write", "restore"} /\ what.catalog # Torn =>
               Unique(what.catalog)
    PROVE  UniqueInv'
BY DEF TypeInv, TypeOK, UniqueInv, Goto

LEMMA UniqueEdit ==
    ASSUME TypeInv, UniqueInv, NEW w \in Workers, NEW c, Unique(c),
           NEW label, NEW what, label \in {"marshal", "unmap", "mapSnap"},
           Edit(w, c, label, what)
    PROVE  UniqueInv'
<1>1. Goto(w, label, what)
  BY BeginGoes DEF Edit
<1>. QED
  BY <1>1, UniqueGoes DEF Edit, files, UniqueInv

LEMMA EditUnique ==
    ASSUME TypeInv, UniqueInv, NEW w \in Workers, EditCategory(w) \/ EditApp(w)
    PROVE  UniqueInv'
<1>0. mem \in Catalogs /\ Unique(mem)
  BY DEF TypeInv, TypeOK, UniqueInv
<1>1. ASSUME NEW n \in Cats, AddCategory(w, n) PROVE UniqueInv'
  BY <1>0, <1>1, AppendIsCatalog, UniqueEdit DEF AddCategory
<1>2. ASSUME NEW m \in Cats, NEW n \in Cats, RenameCategory(w, m, n) PROVE UniqueInv'
  <2>1. Unique([mem EXCEPT ![Min(Named(mem, m))].name = n])
    BY <1>0, <1>2, FirstNamed, RenameIsCatalog DEF RenameCategory
  <2>. QED
    BY <1>2, <2>1, UniqueEdit DEF RenameCategory
<1>3. ASSUME NEW n \in Cats, DeleteCategory(w, n) PROVE UniqueInv'
  <2>1. Unique(RemoveAt(mem, Min(Named(mem, n))))
    BY <1>0, <1>3, FirstNamed, RemoveKeepsOthers DEF DeleteCategory
  <2>. QED
    BY <1>3, <2>1, UniqueEdit DEF DeleteCategory
<1>4. ASSUME NEW u \in Urls, NEW n \in Cats, AddApp(w, u, n) PROVE UniqueInv'
  BY <1>0, <1>4, WithIsCatalog, UniqueEdit DEF AddApp
<1>5. ASSUME NEW u \in Urls, NEW v \in Urls, NEW n \in Cats, MoveApp(w, u, v, n)
      PROVE  UniqueInv'
  <2>1. Unique(With(Without(mem, u), v, n))
    BY <1>0, <1>5, MoveIsCatalog DEF MoveApp
  <2>. QED
    BY <1>5, <2>1, UniqueEdit DEF MoveApp
<1>6. ASSUME NEW u \in Urls, DeleteApp(w, u) PROVE UniqueInv'
  BY <1>0, <1>6, WithoutIsCatalog, UniqueEdit DEF DeleteApp
<1>. QED
  BY <1>1, <1>2, <1>3, <1>4, <1>5, <1>6 DEF EditCategory, EditApp

LEMMA MappingUnique ==
    ASSUME TypeInv, UniqueInv, NEW w \in Workers,
           \/ Unmap(w) \/ MapSet(w) \/ SaveMappings(w)
           \/ \E u \in Urls, on \in BOOLEAN : MapBegin(w, u, on)
    PROVE  UniqueInv'
<1>1. ASSUME MapDone(w), UNCHANGED <<mem, config, tmp>> PROVE UniqueInv'
  BY <1>1, UniqueGoes DEF MapDone, Answer, UniqueInv
<1>2. ASSUME NEW label, NEW what, label \in {"mapSet", "mapSnap", "mapOpen", "mapWrite"},
             Goto(w, label, what), UNCHANGED <<mem, config, tmp>>
      PROVE  UniqueInv'
  BY <1>2, UniqueGoes DEF UniqueInv
<1>3. ASSUME NEW u \in Urls, NEW on \in BOOLEAN, MapBegin(w, u, on) PROVE UniqueInv'
  BY <1>2, <1>3, BeginGoes DEF MapBegin, files
<1>4. ASSUME Unmap(w) \/ MapSet(w) \/ MapSnapshot(w) PROVE UniqueInv'
  BY <1>2, <1>4 DEF Unmap, MapSet, MapSnapshot, files
<1>5. ASSUME MapOpen(w) \/ MapWrite(w) PROVE UniqueInv'
  BY <1>1, <1>2, <1>5 DEF MapOpen, MapWrite, MapFails
<1>. QED
  BY <1>3, <1>4, <1>5 DEF SaveMappings

LEMMA SaveUnique ==
    ASSUME TypeInv, UniqueInv, NEW w \in Workers, SaveConfig(w)
    PROVE  UniqueInv'
<1>0. Unique(<<>>)
  BY DEF Unique
<1>1. ASSUME NEW label, NEW what, label \in {"idle", "rename", "remove", "reload"},
             Goto(w, label, what), Unique(mem'),
             config' \in {config, tmp, Torn}, config' # Absent,
             tmp' \in {tmp, Torn, Absent}
      PROVE  UniqueInv'
  BY <1>1, UniqueGoes DEF UniqueInv
<1>2. ASSUME Marshal(w) PROVE UniqueInv'
  BY <1>2, UniqueGoes DEF Marshal, files, UniqueInv
<1>3. ASSUME Open(w) PROVE UniqueInv'
  <2>1. pc[w] = "open" /\ UNCHANGED <<mem, config>> /\ config # Absent
    BY <1>3, CatalogConstants DEF Open, TypeInv, TypeOK
  <2>2. CASE tmp' = Torn /\ Goto(w, "write", held[w])
    BY <2>1, <2>2, UniqueGoes DEF UniqueInv
  <2>3. CASE SaveFails(w) /\ UNCHANGED tmp
    BY <1>1, <2>1, <2>3 DEF SaveFails, UniqueInv
  <2>. QED
    BY <1>3, <2>2, <2>3 DEF Open
<1>4. ASSUME Write(w) PROVE UniqueInv'
  <2>1. /\ pc[w] = "write" /\ UNCHANGED mem /\ config # Absent
        /\ held[w].catalog # Torn
    BY <1>4, CatalogConstants DEF Write, TypeInv, TypeOK
  <2>2. CASE Goto(w, "rename", Nothing)
    <3>1. /\ config' \in {config, held[w].catalog, Torn}
          /\ tmp' \in {tmp, held[w].catalog, Torn}
      BY <1>4, <2>2 DEF Write, Over, SaveFails, Goto
    <3>. QED
      BY <2>1, <2>2, <3>1, UniqueGoes DEF UniqueInv
  <2>3. CASE SaveFails(w) /\ UNCHANGED <<tmp, config>>
    BY <1>1, <2>1, <2>3 DEF SaveFails, UniqueInv
  <2>. QED
    BY <1>4, <2>2, <2>3 DEF Write
<1>5. ASSUME Rename(w) PROVE UniqueInv'
  BY <1>1, <1>5, CatalogConstants DEF Rename, SaveFails, Answer, UniqueInv, TypeInv, TypeOK
<1>6. ASSUME RemoveTmp(w) PROVE UniqueInv'
  BY <1>1, <1>6, CatalogConstants DEF RemoveTmp, UniqueInv, TypeInv, TypeOK
<1>7. ASSUME Reload(w) PROVE UniqueInv'
  BY <1>7, UniqueGoes DEF Reload, Answer, files, UniqueInv
<1>8. ASSUME Restore(w) PROVE UniqueInv'
  <2>1. Unique(mem')
    BY <1>0, <1>8 DEF Restore, Fragment, UniqueInv
  <2>. QED
    BY <1>1, <1>8, <2>1, CatalogConstants DEF Restore, Answer, files, TypeInv, TypeOK
<1>. QED
  BY <1>2, <1>3, <1>4, <1>5, <1>6, <1>7, <1>8 DEF SaveConfig

LEMMA StepUnique == TypeInv /\ UniqueInv /\ [Next]_vars => UniqueInv'
<1> SUFFICES ASSUME TypeInv, UniqueInv, [Next]_vars PROVE UniqueInv'
  OBVIOUS
<1>1. CASE UNCHANGED vars
  BY <1>1 DEF vars, UniqueInv
<1>2. ASSUME Restart PROVE UniqueInv'
  BY <1>2 DEF Restart, Fragment, Unique, UniqueInv
<1>. QED
  BY <1>1, <1>2, EditUnique, MappingUnique, SaveUnique DEF Next

LEMMA UniqueHolds == Spec => []UniqueInv
<1>1. Init => UniqueInv
  BY DEF Init, UniqueInv, Unique
<1>. QED
  BY <1>1, StepUnique, TypesHold, PTL DEF Spec

\* A URL names one application, however many requests overlap, whatever fails and
\* wherever the process dies.
THEOREM CatalogUrlsUnique == Spec => []UrlsUnique
<1>1. UniqueInv => UrlsUnique
  BY DEF UniqueInv, Unique, UrlsUnique
<1>. QED
  BY <1>1, UniqueHolds, PTL

-----------------------------------------------------------------------------
(* A request that nobody overlaps.  Its goroutine is the only one that      *)
(* moves, so what it took from memory is still there when it writes, the    *)
(* temporary file has what it wrote, and memory and file differ only        *)
(* between its edit and its rename or reload.                               *)

\* Memory m, config.yaml c and temporary file t of a request at a label.
Settled(label, what, m, c, t) ==
    /\ label \in {"idle", "mapSet"} => c = m
    /\ label \in {"mapSnap", "mapOpen", "mapWrite"} /\ what.then = "idle" => c = m
    /\ label \in {"open", "write"} => what.catalog = m
    /\ label = "write" => t = Torn
    /\ label = "rename" => t = m
    /\ label = "restore" => what.catalog = c

Alone ==
    /\ \A v, w \in Workers : pc[v] # "idle" /\ pc[w] # "idle" => v = w
    /\ config # Torn
    /\ AllIdle => config = mem
    /\ \A w \in Workers :
          /\ at[w] \in {"none", "tmp"}
          /\ pc[w] # "idle" => Settled(pc[w], held[w], mem, config, tmp)

AloneInv == trouble < Overlap => Alone

LEMMA Rises ==
    ASSUME trouble \in Calm .. Unread, NEW level \in Calm .. Unread,
           trouble' = AtLeast(level)
    PROVE  trouble' >= trouble /\ trouble' >= level
BY DEF AtLeast, Calm, Unread

\* Requests that overlapped once did so for good, and a torn file is worse.
LEMMA OverlapStays ==
    ASSUME trouble \in Calm .. Unread
    PROVE  /\ trouble' = AtLeast(Failed) => (trouble' < Overlap => trouble < Overlap)
           /\ trouble' = AtLeast(Unread) => ~(trouble' < Overlap)
BY DEF AtLeast, Calm, Failed, Overlap, Unread

\* The step of the one request there is.
LEMMA AloneGoes ==
    ASSUME TypeInv, AloneInv, trouble' < Overlap => trouble < Overlap,
           NEW w \in Workers, pc[w] # "idle",
           NEW label, NEW what, Goto(w, label, what),
           trouble < Overlap =>
               /\ config' # Torn
               /\ at' \in [Workers -> {"none", "tmp"}]
               /\ Settled(label, what, mem', config', tmp')
    PROVE  AloneInv'
<1> SUFFICES ASSUME trouble' < Overlap PROVE Alone'
  BY DEF AloneInv
<1>1. Alone /\ trouble < Overlap
  BY DEF AloneInv
<1>2. \A v \in Workers : v # w => pc'[v] = "idle"
  BY <1>1 DEF Alone, Goto, TypeInv, TypeOK
<1>3. pc'[w] = label /\ held'[w] = what
  BY DEF Goto, TypeInv, TypeOK
<1>4. AllIdle' => config' = mem'
  BY <1>1, <1>3 DEF AllIdle, Settled
<1>. QED
  BY <1>1, <1>2, <1>3, <1>4 DEF Alone

\* The first step of a request.
LEMMA AloneBegins ==
    ASSUME TypeInv, AloneInv, NEW w \in Workers, NEW label, NEW what,
           Begin(w, label, what), UNCHANGED files,
           config = mem => Settled(label, what, mem', config, tmp),
           label # "idle"
    PROVE  AloneInv'
<1> SUFFICES ASSUME trouble' < Overlap PROVE Alone'
  BY DEF AloneInv
<1>1. Goto(w, label, what)
  BY DEF Begin
<1>2. AllIdle /\ trouble < Overlap
  <2>1. trouble \in Calm .. Unread
    BY DEF TypeInv, TypeOK
  <2>2. ~AllIdle => trouble' >= Overlap
    BY <2>1, Levels, Rises DEF Begin
  <2>3. AllIdle => trouble' >= trouble
    BY <2>1, Levels, Rises DEF Begin
  <2>. QED
    BY <2>1, <2>2, <2>3 DEF Overlap, Calm, Unread, AtLeast, Begin
<1>3. Alone
  BY <1>2 DEF AloneInv
<1>4. \A v \in Workers : v # w => pc'[v] = "idle"
  BY <1>1, <1>2 DEF AllIdle, Goto, TypeInv, TypeOK
<1>5. pc'[w] = label /\ held'[w] = what
  BY <1>1 DEF Goto, TypeInv, TypeOK
<1>6. config = mem
  BY <1>2, <1>3 DEF Alone
<1>. QED
  BY <1>3, <1>4, <1>5, <1>6 DEF Alone, AllIdle, files

LEMMA EditAlone ==
    ASSUME TypeInv, AloneInv, NEW w \in Workers, EditCategory(w) \/ EditApp(w)
    PROVE  AloneInv'
<1>1. ASSUME NEW c, NEW label, NEW what, Edit(w, c, label, what),
             \/ label \in {"marshal", "unmap"}
             \/ label = "mapSnap" /\ what.then = "marshal"
      PROVE  AloneInv'
  BY <1>1, AloneBegins DEF Edit, Settled
<1>2. ASSUME NEW m \in Cats, NEW n \in Cats,
             AddCategory(w, n) \/ RenameCategory(w, m, n) \/ DeleteCategory(w, n)
      PROVE  AloneInv'
  BY <1>1, <1>2 DEF AddCategory, RenameCategory, DeleteCategory
<1>3. ASSUME NEW u \in Urls, NEW n \in Cats, AddApp(w, u, n) \/ DeleteApp(w, u)
      PROVE  AloneInv'
  BY <1>1, <1>3 DEF AddApp, DeleteApp
<1>4. ASSUME NEW u \in Urls, NEW v \in Urls, NEW n \in Cats, MoveApp(w, u, v, n)
      PROVE  AloneInv'
  <2>1. CASE v = u
    BY <1>1, <1>4, <2>1 DEF MoveApp
  <2>2. CASE v # u
    BY <1>1, <1>4, <2>2 DEF MoveApp
  <2>. QED
    BY <2>1, <2>2
<1>. QED
  BY <1>2, <1>3, <1>4 DEF EditCategory, EditApp

\* What a worker in the middle of a request that nobody overlaps may rely on.
LEMMA AloneReads ==
    ASSUME TypeInv, AloneInv, trouble < Overlap, NEW w \in Workers, pc[w] # "idle"
    PROVE  /\ Settled(pc[w], held[w], mem, config, tmp)
           /\ config # Torn
           /\ at \in [Workers -> {"none", "tmp"}]
BY DEF AloneInv, Alone, TypeInv, TypeOK

LEMMA MappingAlone ==
    ASSUME TypeInv, AloneInv, NEW w \in Workers,
           \/ Unmap(w) \/ MapSet(w) \/ SaveMappings(w)
           \/ \E u \in Urls, on \in BOOLEAN : MapBegin(w, u, on)
    PROVE  AloneInv'
<1>0. /\ trouble \in Calm .. Unread
      /\ trouble' = AtLeast(Failed) => (trouble' < Overlap => trouble < Overlap)
  BY OverlapStays DEF TypeInv, TypeOK
<1>1. ASSUME NEW u \in Urls, NEW on \in BOOLEAN, MapBegin(w, u, on) PROVE AloneInv'
  BY <1>1, AloneBegins DEF MapBegin, Settled
<1>2. ASSUME pc[w] # "idle", NEW label, NEW what, Goto(w, label, what),
             UNCHANGED <<mem, config, tmp, at>>, trouble' < Overlap => trouble < Overlap,
             trouble < Overlap => Settled(label, what, mem, config, tmp)
      PROVE  AloneInv'
  BY <1>2, AloneReads, AloneGoes
<1>3. ASSUME Unmap(w) PROVE AloneInv'
  BY <1>2, <1>3 DEF Unmap, files, Settled
<1>4. ASSUME MapSet(w) PROVE AloneInv'
  BY <1>2, <1>4, AloneReads DEF MapSet, files, Settled
<1>5. ASSUME MapSnapshot(w) PROVE AloneInv'
  BY <1>2, <1>5, AloneReads DEF MapSnapshot, files, Settled
<1>6. ASSUME MapDone(w), pc[w] \in {"mapOpen", "mapWrite"},
             UNCHANGED <<mem, config, tmp, at>>, trouble' < Overlap => trouble < Overlap
      PROVE  AloneInv'
  <2>1. CASE held[w].then = "idle"
    BY <1>2, <1>6, <2>1, AloneReads DEF MapDone, Answer, Settled
  <2>2. CASE held[w].then # "idle"
    BY <1>2, <1>6, <2>2 DEF MapDone, Settled
  <2>. QED
    BY <2>1, <2>2
<1>7. ASSUME MapOpen(w) PROVE AloneInv'
  <2>1. CASE Goto(w, "mapWrite", held[w]) /\ UNCHANGED trouble
    BY <1>2, <1>7, <2>1, AloneReads DEF MapOpen, Settled
  <2>2. CASE MapFails(w)
    BY <1>0, <1>6, <1>7, <2>2 DEF MapOpen, MapFails
  <2>. QED
    BY <1>7, <2>1, <2>2 DEF MapOpen
<1>8. ASSUME MapWrite(w) PROVE AloneInv'
  BY <1>0, <1>6, <1>8 DEF MapWrite, MapFails
<1>. QED
  BY <1>1, <1>3, <1>4, <1>5, <1>7, <1>8 DEF SaveMappings

LEMMA SaveAlone ==
    ASSUME TypeInv, AloneInv, NEW w \in Workers, SaveConfig(w)
    PROVE  AloneInv'
<1>0. /\ trouble \in Calm .. Unread
      /\ trouble' = AtLeast(Failed) => (trouble' < Overlap => trouble < Overlap)
  BY OverlapStays DEF TypeInv, TypeOK
<1>1. pc[w] # "idle"
  BY DEF SaveConfig, Marshal, Open, Write, Rename, RemoveTmp, Reload, Restore
<1>2. trouble < Overlap => /\ Settled(pc[w], held[w], mem, config, tmp)
                           /\ config # Torn
                           /\ at \in [Workers -> {"none", "tmp"}]
  BY <1>1, AloneReads
<1>3. ASSUME SaveFails(w), UNCHANGED config, at' = at \/ at' = [at EXCEPT ![w] = "none"]
      PROVE  AloneInv'
  BY <1>0, <1>1, <1>2, <1>3, AloneGoes DEF SaveFails, Settled
<1>4. ASSUME Marshal(w) PROVE AloneInv'
  BY <1>1, <1>2, <1>4, AloneGoes DEF Marshal, files, Settled
<1>5. ASSUME Open(w) PROVE AloneInv'
  <2>1. CASE tmp' = Torn /\ at' = [at EXCEPT ![w] = "tmp"] /\ Goto(w, "write", held[w])
             /\ UNCHANGED trouble
    BY <1>1, <1>2, <1>5, <2>1, AloneGoes DEF Open, Settled
  <2>2. CASE SaveFails(w) /\ UNCHANGED <<tmp, at>>
    BY <1>3, <1>5, <2>2 DEF Open
  <2>. QED
    BY <1>5, <2>1, <2>2 DEF Open
<1>6. ASSUME Write(w) PROVE AloneInv'
  <2>1. CASE /\ Goto(w, "rename", Nothing) /\ UNCHANGED trouble
             /\ \/ at[w] = "tmp" /\ tmp' \in Over(tmp, held[w].catalog) /\ UNCHANGED config
                \/ at[w] = "config" /\ config' \in Over(config, held[w].catalog) /\ UNCHANGED tmp
                \/ at[w] = "gone" /\ UNCHANGED <<tmp, config>>
    <3>1. pc[w] = "write" /\ at[w] # "none"
      BY <1>6 DEF Write, TypeInv, TypeOK
    <3>2. trouble < Overlap => /\ at[w] = "tmp" /\ tmp = Torn /\ held[w].catalog = mem
      BY <1>2, <3>1 DEF Settled
    <3>3. trouble < Overlap => tmp' = mem /\ UNCHANGED config
      BY <2>1, <3>2 DEF Over
    <3>4. UNCHANGED mem /\ at' = [at EXCEPT ![w] = "none"]
      BY <1>6 DEF Write
    <3>. QED
      BY <1>1, <1>2, <2>1, <3>3, <3>4, AloneGoes DEF Settled
  <2>2. CASE SaveFails(w) /\ UNCHANGED <<tmp, config>>
    BY <1>3, <1>6, <2>2 DEF Write
  <2>. QED
    BY <1>6, <2>1, <2>2 DEF Write
<1>7. ASSUME Rename(w) PROVE AloneInv'
  <2>1. CASE config' = tmp /\ Answer(w) /\ UNCHANGED trouble
             /\ at' = [v \in Workers |-> CASE at[v] = "tmp" -> "config"
                                           [] at[v] = "config" -> "gone"
                                           [] OTHER -> at[v]]
    <3>1. trouble < Overlap => at' \in [Workers -> {"none", "tmp"}]
      <4>1. trouble < Overlap => \A v \in Workers : at[v] = "none"
        BY <1>1, <1>7 DEF Rename, AloneInv, Alone, TypeInv, TypeOK
      <4>. QED
        BY <2>1, <4>1
    <3>2. trouble < Overlap => config' = mem /\ UNCHANGED mem /\ mem # Torn
      BY <1>2, <1>7, <2>1, CatalogConstants DEF Rename, Settled, TypeInv, TypeOK
    <3>. QED
      BY <1>1, <2>1, <3>1, <3>2, AloneGoes DEF Answer, Settled
  <2>2. CASE SaveFails(w) /\ UNCHANGED <<config, tmp, at>>
    BY <1>3, <1>7, <2>2 DEF Rename
  <2>. QED
    BY <1>7, <2>1, <2>2 DEF Rename
<1>8. ASSUME RemoveTmp(w) PROVE AloneInv'
  <2>1. trouble < Overlap => at' \in [Workers -> {"none", "tmp"}]
    <3>1. trouble < Overlap => \A v \in Workers : at[v] = "none"
      BY <1>1, <1>8 DEF RemoveTmp, AloneInv, Alone, TypeInv, TypeOK
    <3>. QED
      BY <1>2, <1>8, <3>1 DEF RemoveTmp
  <2>. QED
    BY <1>1, <1>2, <1>8, <2>1, AloneGoes DEF RemoveTmp, Settled
<1>9. ASSUME Reload(w) PROVE AloneInv'
  <2>1. CASE Goto(w, "restore", [catalog |-> config]) /\ UNCHANGED trouble
    BY <1>1, <1>2, <1>9, <2>1, AloneGoes DEF Reload, files, Settled
  <2>2. CASE trouble' = AtLeast(Unread)
    BY <1>0, <2>2, OverlapStays DEF AloneInv
  <2>. QED
    BY <1>9, <2>1, <2>2 DEF Reload
<1>10. ASSUME Restore(w) PROVE AloneInv'
  <2>1. trouble < Overlap => mem' = config /\ UNCHANGED <<config, at, trouble>>
    BY <1>2, <1>10 DEF Restore, files, Settled
  <2>2. trouble' < Overlap => trouble < Overlap
    <3>1. UNCHANGED trouble \/ trouble' = AtLeast(Unread)
      BY <1>10 DEF Restore
    <3>. QED
      BY <1>0, <3>1, OverlapStays
  <2>. QED
    BY <1>1, <1>2, <1>10, <2>1, <2>2, AloneGoes DEF Restore, Answer, Settled
<1>. QED
  BY <1>4, <1>5, <1>6, <1>7, <1>8, <1>9, <1>10 DEF SaveConfig

LEMMA RestartAlone ==
    ASSUME TypeInv, AloneInv, Restart
    PROVE  AloneInv'
<1> SUFFICES ASSUME trouble' < Overlap PROVE Alone'
  BY DEF AloneInv
<1>1. config # Torn
  <2>1. config = Torn => trouble' = AtLeast(Unread)
    BY DEF Restart
  <2>. QED
    BY <2>1, OverlapStays DEF TypeInv, TypeOK
<1>. QED
  BY <1>1 DEF Restart, Alone

LEMMA StepAlone == TypeInv /\ AloneInv /\ [Next]_vars => AloneInv'
<1> SUFFICES ASSUME TypeInv, AloneInv, [Next]_vars PROVE AloneInv'
  OBVIOUS
<1>1. CASE UNCHANGED vars
  BY <1>1 DEF vars, AloneInv, Alone, AllIdle
<1>. QED
  BY <1>1, EditAlone, MappingAlone, SaveAlone, RestartAlone DEF Next

LEMMA AloneHolds == Spec => []AloneInv
<1>1. Init => AloneInv
  <2>1. <<>> # Torn
    BY CatalogConstants, EmptySeq DEF Catalogs
  <2>. QED
    BY <2>1 DEF Init, AloneInv, Alone
<1>. QED
  BY <1>1, StepAlone, TypesHold, PTL DEF Spec

\* Without overlapping requests config.yaml is whole at every moment, whatever call
\* fails and wherever the process dies: SaveConfig renames only what it wrote whole.
THEOREM CatalogFileIsWhole == Spec => []FileIsWhole
<1>1. AloneInv => FileIsWhole
  BY DEF AloneInv, Alone, FileIsWhole
<1>. QED
  BY <1>1, AloneHolds, PTL

\* Without overlapping requests file and memory agree once every request was answered,
\* also after a save that failed at any of its calls, and after a crash.
THEOREM CatalogFileIsMemory == Spec => []FileIsMemory
<1>1. AloneInv => FileIsMemory
  BY DEF AloneInv, Alone, FileIsMemory
<1>. QED
  BY <1>1, AloneHolds, PTL

-----------------------------------------------------------------------------
(* Categories.                                                              *)

LEMMA EditKeepsApps ==
    ASSUME TypeInv, NEW w \in Workers, EditCategory(w)
    PROVE  UrlsOf(mem') = UrlsOf(mem)
<1>0. mem \in Catalogs
  BY DEF TypeInv, TypeOK
<1>1. ASSUME NEW n \in Cats, AddCategory(w, n) PROVE UrlsOf(mem') = UrlsOf(mem)
  BY <1>0, <1>1, AppendIsCatalog DEF AddCategory, Edit
<1>2. ASSUME NEW m \in Cats, NEW n \in Cats, RenameCategory(w, m, n)
      PROVE  UrlsOf(mem') = UrlsOf(mem)
  <2>1. Min(Named(mem, m)) \in DOMAIN mem
    BY <1>0, <1>2, FirstNamed DEF RenameCategory
  <2>. QED
    BY <1>0, <1>2, <2>1, RenameIsCatalog DEF RenameCategory, Edit
<1>3. ASSUME NEW n \in Cats, DeleteCategory(w, n) PROVE UrlsOf(mem') = UrlsOf(mem)
  <2> DEFINE i == Min(Named(mem, n))
  <2>1. i \in DOMAIN mem /\ mem[i].apps = {} /\ mem' = RemoveAt(mem, i)
    BY <1>0, <1>3, FirstNamed DEF DeleteCategory, Edit
  <2> HIDE DEF i
  <2>2. UrlsOf(mem') = UNION {mem[j].apps : j \in DOMAIN mem \ {i}}
    BY <1>0, <2>1, RemoveKeepsOthers
  <2>. QED
    BY <2>1, <2>2 DEF UrlsOf
<1>. QED
  BY <1>1, <1>2, <1>3 DEF EditCategory

\* Adding, renaming or deleting a category keeps every application, though another
\* category may have the same name.
THEOREM CatalogCategoriesKeepApps == Spec => CategoriesKeepApps
<1>1. TypeInv =>
        [(\E w \in Workers : EditCategory(w)) => UrlsOf(mem') = UrlsOf(mem)]_vars
  BY EditKeepsApps
<1>. QED
  BY <1>1, TypesHold, PTL DEF CategoriesKeepApps

-----------------------------------------------------------------------------
(* Mappings, while nothing went wrong: between its edit and its answer a    *)
(* request leaves memory and file of mappings as its next step needs them.  *)

\* Memory m, mappings ms and their file f at a label of a request.
Tidy(label, what, m, ms, f) ==
    /\ label \notin {"remove", "reload", "restore"}
    /\ ms \subseteq IF label = "unmap" THEN UrlsOf(m) \cup {what.url} ELSE UrlsOf(m)
    /\ label \notin {"mapSnap", "mapOpen", "mapWrite"} => f = ms
    /\ label = "mapSet" => what.url \in UrlsOf(m)
    /\ label \in {"mapOpen", "mapWrite"} => what.maps = ms
    /\ label = "mapWrite" => f = Torn

CalmInv ==
    trouble = Calm =>
        /\ AllIdle => mapFile = maps /\ maps \subseteq UrlsOf(mem)
        /\ \A w \in Workers : pc[w] # "idle" => Tidy(pc[w], held[w], mem, maps, mapFile)

\* What the invariants above give while nothing went wrong.
LEMMA CalmIsAlone ==
    ASSUME TypeInv, AloneInv, trouble = Calm
    PROVE  Alone
BY DEF AloneInv, Calm, Overlap

\* Calm never comes back.
LEMMA CalmEnds ==
    ASSUME trouble \in Calm .. Unread
    PROVE  /\ \A level \in {Failed, Overlap, Unread} :
                trouble' = AtLeast(level) => trouble' # Calm
           /\ trouble' = AtLeast(Calm) => (trouble' = Calm => trouble = Calm)
BY DEF AtLeast, Calm, Failed, Overlap, Unread

LEMMA CalmGoes ==
    ASSUME TypeInv, AloneInv, CalmInv, trouble' = Calm => trouble = Calm,
           NEW w \in Workers, pc[w] # "idle",
           NEW label, NEW what, Goto(w, label, what),
           trouble = Calm => Tidy(label, what, mem', maps', mapFile')
    PROVE  CalmInv'
<1> SUFFICES ASSUME trouble' = Calm, trouble = Calm
             PROVE  /\ AllIdle' => mapFile' = maps' /\ maps' \subseteq UrlsOf(mem')
                    /\ \A v \in Workers : pc'[v] # "idle" =>
                          Tidy(pc'[v], held'[v], mem', maps', mapFile')
  BY DEF CalmInv
<1>1. \A v \in Workers : v # w => pc'[v] = "idle"
  BY CalmIsAlone DEF Alone, Goto, TypeInv, TypeOK
<1>2. pc'[w] = label /\ held'[w] = what
  BY DEF Goto, TypeInv, TypeOK
<1>3. AllIdle' => mapFile' = maps' /\ maps' \subseteq UrlsOf(mem')
  BY <1>2 DEF AllIdle, Tidy
<1>. QED
  BY <1>1, <1>2, <1>3

LEMMA CalmBegins ==
    ASSUME TypeInv, AloneInv, CalmInv, NEW w \in Workers, NEW label, NEW what,
           Begin(w, label, what), label # "idle",
           mapFile = maps /\ maps \subseteq UrlsOf(mem) =>
               Tidy(label, what, mem', maps', mapFile')
    PROVE  CalmInv'
<1> SUFFICES ASSUME trouble' = Calm
             PROVE  /\ AllIdle' => mapFile' = maps' /\ maps' \subseteq UrlsOf(mem')
                    /\ \A v \in Workers : pc'[v] # "idle" =>
                          Tidy(pc'[v], held'[v], mem', maps', mapFile')
  BY DEF CalmInv
<1>1. Goto(w, label, what)
  BY DEF Begin
<1>2. AllIdle /\ trouble = Calm
  BY CalmEnds DEF Begin, TypeInv, TypeOK
<1>3. pc'[w] = label /\ held'[w] = what /\ \A v \in Workers : v # w => pc'[v] = "idle"
  BY <1>1, <1>2 DEF AllIdle, Goto, TypeInv, TypeOK
<1>4. mapFile = maps /\ maps \subseteq UrlsOf(mem)
  BY <1>2 DEF CalmInv
<1>. QED
  BY <1>3, <1>4 DEF AllIdle

LEMMA EditCalm ==
    ASSUME TypeInv, AloneInv, UniqueInv, CalmInv, NEW w \in Workers,
           EditCategory(w) \/ EditApp(w)
    PROVE  CalmInv'
<1>0. mem \in Catalogs /\ Unique(mem)
  BY DEF TypeInv, TypeOK, UniqueInv
<1>1. ASSUME EditCategory(w) PROVE CalmInv'
  <2>1. UrlsOf(mem') = UrlsOf(mem) /\ UNCHANGED <<maps, mapFile>>
    BY <1>1, EditKeepsApps DEF EditCategory, AddCategory, RenameCategory, DeleteCategory, Edit, files
  <2>2. Begin(w, "marshal", Nothing)
    BY <1>1 DEF EditCategory, AddCategory, RenameCategory, DeleteCategory, Edit
  <2>. QED
    BY <2>1, <2>2, CalmBegins DEF Tidy
<1>2. ASSUME NEW u \in Urls, NEW n \in Cats, AddApp(w, u, n) PROVE CalmInv'
  <2>1. UrlsOf(mem') = UrlsOf(mem) \cup {u}
    BY <1>0, <1>2, WithIsCatalog DEF AddApp, Edit
  <2>. QED
    BY <1>2, <2>1, CalmBegins DEF AddApp, Edit, files, Tidy
<1>3. ASSUME NEW u \in Urls, DeleteApp(w, u) PROVE CalmInv'
  <2>1. UrlsOf(mem') = UrlsOf(mem) \ {u}
    BY <1>0, <1>3, WithoutIsCatalog DEF DeleteApp, Edit
  <2>. QED
    BY <1>3, <2>1, CalmBegins DEF DeleteApp, Edit, files, Tidy
<1>4. ASSUME NEW u \in Urls, NEW v \in Urls, NEW n \in Cats, MoveApp(w, u, v, n)
      PROVE  CalmInv'
  <2>1. UrlsOf(mem') = (UrlsOf(mem) \ {u}) \cup {v} /\ u \in UrlsOf(mem)
    BY <1>0, <1>4, MoveIsCatalog DEF MoveApp, Edit
  <2>2. maps \subseteq UrlsOf(mem) => maps' \subseteq UrlsOf(mem')
    BY <1>4, <2>1 DEF MoveApp
  <2>3. CASE v = u
    BY <1>4, <2>2, <2>3, CalmBegins DEF MoveApp, Edit, files, Tidy
  <2>4. CASE v # u
    BY <1>4, <2>2, <2>4, CalmBegins DEF MoveApp, Edit, files, Tidy
  <2>. QED
    BY <2>3, <2>4
<1>. QED
  BY <1>1, <1>2, <1>3, <1>4 DEF EditApp

LEMMA MappingCalm ==
    ASSUME TypeInv, AloneInv, CalmInv, NEW w \in Workers,
           \/ Unmap(w) \/ MapSet(w) \/ SaveMappings(w)
           \/ \E u \in Urls, on \in BOOLEAN : MapBegin(w, u, on)
    PROVE  CalmInv'
<1>0. /\ trouble \in Calm .. Unread
      /\ trouble' = AtLeast(Failed) => trouble' # Calm
  BY CalmEnds DEF TypeInv, TypeOK
<1>1. ASSUME NEW u \in Urls, NEW on \in BOOLEAN, MapBegin(w, u, on) PROVE CalmInv'
  BY <1>1, CalmBegins DEF MapBegin, files, Tidy
<1>2. trouble = Calm /\ pc[w] # "idle" => Tidy(pc[w], held[w], mem, maps, mapFile)
  BY DEF CalmInv
<1>3. ASSUME Unmap(w) PROVE CalmInv'
  BY <1>2, <1>3, CalmGoes DEF Unmap, files, Tidy
<1>4. ASSUME MapSet(w) PROVE CalmInv'
  BY <1>2, <1>4, CalmGoes DEF MapSet, files, Tidy
<1>5. ASSUME MapSnapshot(w) PROVE CalmInv'
  BY <1>2, <1>5, CalmGoes DEF MapSnapshot, files, Tidy
<1>6. ASSUME MapDone(w), pc[w] # "idle", trouble' = Calm => trouble = Calm,
             \A label \in {"idle", "marshal"} :
                 trouble = Calm => Tidy(label, Nothing, mem', maps', mapFile')
      PROVE  CalmInv'
  BY <1>6, CalmGoes DEF MapDone, Answer
<1>7. ASSUME MapFails(w) PROVE CalmInv'
  BY <1>0, <1>7 DEF MapFails, CalmInv
<1>8. ASSUME MapOpen(w) PROVE CalmInv'
  BY <1>2, <1>7, <1>8, CalmGoes DEF MapOpen, Tidy
<1>9. ASSUME MapWrite(w) PROVE CalmInv'
  <2>1. CASE mapFile' \in Over(mapFile, held[w].maps) /\ MapDone(w) /\ UNCHANGED trouble
    <3>1. trouble = Calm => mapFile' = maps /\ maps \subseteq UrlsOf(mem)
      BY <1>2, <1>9, <2>1 DEF MapWrite, Over, Tidy
    <3>. QED
      BY <1>6, <1>9, <2>1, <3>1 DEF MapWrite, Tidy
  <2>. QED
    BY <1>7, <1>9, <2>1 DEF MapWrite
<1>. QED
  BY <1>1, <1>3, <1>4, <1>5, <1>8, <1>9 DEF SaveMappings

LEMMA SaveCalm ==
    ASSUME TypeInv, AloneInv, CalmInv, NEW w \in Workers, SaveConfig(w)
    PROVE  CalmInv'
<1>0. /\ trouble \in Calm .. Unread
      /\ \A level \in {Failed, Unread} : trouble' = AtLeast(level) => trouble' # Calm
  BY CalmEnds DEF TypeInv, TypeOK
<1>1. pc[w] # "idle" /\ UNCHANGED <<maps, mapFile>>
  BY DEF SaveConfig, Marshal, Open, Write, Rename, RemoveTmp, Reload, Restore, files
<1>2. trouble = Calm => Tidy(pc[w], held[w], mem, maps, mapFile)
  BY <1>1 DEF CalmInv
<1>3. ASSUME SaveFails(w) PROVE CalmInv'
  BY <1>0, <1>3 DEF SaveFails, CalmInv
<1>4. ASSUME UNCHANGED <<mem, trouble>>, pc[w] \in {"marshal", "open", "write", "rename"},
             NEW what, NEW label \in {"open", "write", "rename", "idle"},
             Goto(w, label, what)
      PROVE  CalmInv'
  BY <1>1, <1>2, <1>4, CalmGoes DEF Tidy
<1>5. ASSUME Marshal(w) \/ Open(w) \/ Write(w) \/ Rename(w) PROVE CalmInv'
  BY <1>3, <1>4, <1>5 DEF Marshal, Open, Write, Rename, Answer
<1>6. ASSUME RemoveTmp(w) \/ Reload(w) \/ Restore(w) PROVE CalmInv'
  <2>1. trouble # Calm /\ (UNCHANGED trouble \/ trouble' = AtLeast(Unread))
    BY <1>2, <1>6 DEF RemoveTmp, Reload, Restore, Tidy
  <2>. QED
    BY <1>0, <2>1 DEF CalmInv
<1>. QED
  BY <1>5, <1>6 DEF SaveConfig

LEMMA RestartCalm ==
    ASSUME TypeInv, AloneInv, CalmInv, Restart
    PROVE  CalmInv'
<1> SUFFICES ASSUME trouble' = Calm PROVE CalmInv'
  BY DEF CalmInv
<1>1. config # Torn /\ AllIdle /\ trouble = Calm
  BY CalmEnds DEF Restart, TypeInv, TypeOK
<1>2. config = mem
  BY <1>1, CalmIsAlone DEF Alone
<1>3. mapFile = maps /\ maps \subseteq UrlsOf(mem)
  BY <1>1 DEF CalmInv
<1>4. maps # Torn
  BY CatalogConstants DEF TypeInv, TypeOK
<1>. QED
  BY <1>1, <1>2, <1>3, <1>4 DEF Restart, CalmInv

LEMMA StepCalm == TypeInv /\ AloneInv /\ UniqueInv /\ CalmInv /\ [Next]_vars => CalmInv'
<1> SUFFICES ASSUME TypeInv, AloneInv, UniqueInv, CalmInv, [Next]_vars PROVE CalmInv'
  OBVIOUS
<1>1. CASE UNCHANGED vars
  BY <1>1 DEF vars, files, CalmInv, AllIdle
<1>. QED
  BY <1>1, EditCalm, MappingCalm, SaveCalm, RestartCalm DEF Next

\* The mappings follow an application to its new URL and go with it, in memory and in
\* their file, once every request was answered and nothing went wrong.
THEOREM CatalogMappingsFollow == Spec => []MappingsFollow
<1>1. Init => CalmInv
  BY DEF Init, CalmInv
<1>2. CalmInv => MappingsFollow
  BY DEF CalmInv, MappingsFollow
<1>. QED
  BY <1>1, <1>2, StepCalm, TypesHold, AloneHolds, UniqueHolds, PTL DEF Spec
=============================================================================
