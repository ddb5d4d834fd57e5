--------------------------- MODULE RestPagingProofs ---------------------------
(***************************************************************************)
(* What one REST fetch returns, for any exchange, range, page size, number *)
(* of retries and failures: a page is the oldest part of what is left, so  *)
(* everything before the cursor has been collected.  A page repeated by a  *)
(* cache can only end a fetch of candles; one of trades goes on from where *)
(* the repeated page ends, and has its trades in the list twice.           *)
(***************************************************************************)
EXTENDS RestPaging, FiniteSetTheorems, SharedFacts

Items == {Candle(t) : t \in Candles} \cup Trades

----------------------------------------------------------------------------
(* The order of the items, and the ends of a set of them.                  *)

LEMMA CandleIsItem == \A t \in Nat : Candle(t) \in Item /\ Candle(t).time = t /\ Candle(t).id = t
BY DEF Candle, Item

LEMMA ItemsFinite == Items \in SUBSET Item /\ IsFiniteSet(Items)
<1> DEFINE C == {Candle(t) : t \in Candles}
           f == [t \in Candles |-> Candle(t)]
<1>1. f \in Surjection(Candles, C)
  BY DEF Surjection
<1>2. IsFiniteSet(C)
  BY <1>1, FS_Surjection, PagingAssumption
<1>3. C \in SUBSET Item
  BY CandleIsItem, PagingAssumption
<1>4. IsFiniteSet(Items)
  BY <1>2, FS_Union, PagingAssumption DEF Items
<1> QED BY <1>3, <1>4, PagingAssumption DEF Items

LEMMA EarlierFacts ==
  ASSUME NEW a \in Item, NEW b \in Item
  PROVE  /\ ~Earlier(a, a)
         /\ Earlier(a, b) => ~Earlier(b, a) /\ a.time <= b.time
         /\ a.time < b.time => Earlier(a, b)
         /\ a # b => Earlier(a, b) \/ Earlier(b, a)
         /\ \A c \in Item : Earlier(a, b) /\ Earlier(b, c) => Earlier(a, c)
<1>1. a.time \in Nat /\ a.id \in Nat /\ b.time \in Nat /\ b.id \in Nat
  BY DEF Item
<1>2. a.time = b.time /\ a.id = b.id => a = b
  BY DEF Item
<1>3. \A c \in Item : c.time \in Nat /\ c.id \in Nat
  BY DEF Item
<1> QED BY <1>1, <1>2, <1>3 DEF Earlier

LEMMA EarliestItem ==
  ASSUME NEW S \in SUBSET Item, S # {}
  PROVE  \E x \in S : \A y \in S \ {x} : Earlier(x, y)
<1> DEFINE T == {x.time : x \in S}
<1>1. T \in SUBSET Nat /\ T # {}
  BY DEF Item
<1>2. PICK m \in T : \A y \in T : m <= y
  BY <1>1, LeastNatural
<1> DEFINE I == {x.id : x \in {y \in S : y.time = m}}
<1>3. I \in SUBSET Nat /\ I # {}
  BY <1>2 DEF Item
<1>4. PICK k \in I : \A y \in I : k <= y
  BY <1>3, LeastNatural
<1>5. PICK x \in S : x.time = m /\ x.id = k
  BY <1>4
<1>6. ASSUME NEW y \in S, y # x PROVE Earlier(x, y)
  <2>1. x \in Item /\ y \in Item /\ m <= y.time /\ (y.time = m => k <= y.id)
    BY <1>2, <1>4
  <2> QED BY <1>5, <1>6, <2>1, EarlierFacts DEF Earlier, Item
<1> QED BY <1>5, <1>6

LEMMA LatestItem ==
  ASSUME NEW S \in SUBSET Item, S # {}, NEW u \in Nat, \A x \in S : x.time <= u /\ x.id <= u
  PROVE  \E x \in S : \A y \in S \ {x} : Earlier(y, x)
<1> DEFINE T == {x.time : x \in S}
<1>1. T \in SUBSET Nat /\ T # {} /\ \A y \in T : y <= u
  BY DEF Item
<1>2. PICK m \in T : \A y \in T : y <= m
  BY <1>1, GreatestNatural
<1> DEFINE I == {x.id : x \in {y \in S : y.time = m}}
<1>3. I \in SUBSET Nat /\ I # {} /\ \A y \in I : y <= u
  BY <1>2 DEF Item
<1>4. PICK k \in I : \A y \in I : y <= k
  BY <1>3, GreatestNatural
<1>5. PICK x \in S : x.time = m /\ x.id = k
  BY <1>4
<1>6. ASSUME NEW y \in S, y # x PROVE Earlier(y, x)
  <2>1. x \in Item /\ y \in Item /\ y.time <= m /\ (y.time = m => y.id <= k)
    BY <1>2, <1>4
  <2> QED BY <1>5, <1>6, <2>1, EarlierFacts DEF Earlier, Item
<1> QED BY <1>5, <1>6

(* What LastTime gives. *)
LEMMA LastTimeFacts ==
  ASSUME NEW S \in SUBSET Item, S # {}, NEW u \in Nat, \A x \in S : x.time <= u
  PROVE  /\ LastTime(S) \in Nat
         /\ \E x \in S : x.time = LastTime(S)
         /\ \A x \in S : x.time <= LastTime(S)
<1> DEFINE T == {x.time : x \in S}
<1>1. T \in SUBSET Nat /\ T # {} /\ \A y \in T : y <= u
  BY DEF Item
<1>2. \E t \in T : \A x \in T : x <= t
  BY <1>1, GreatestNatural
<1>3. \E t \in T : \A x \in S : x.time <= t
  BY <1>2
<1>4. LastTime(S) \in T /\ \A x \in S : x.time <= LastTime(S)
  BY <1>3 DEF LastTime
<1> QED BY <1>1, <1>4

----------------------------------------------------------------------------
(* A page: the oldest items of a set are closed under going back in time,  *)
(* and there are as many as asked for unless they are all.                 *)

LEMMA OldestIsClosed ==
  ASSUME NEW S \in SUBSET Item, IsFiniteSet(S), NEW n \in Nat,
         NEW x \in Oldest(n, S), NEW y \in S, Earlier(y, x)
  PROVE  y \in Oldest(n, S)
<1> DEFINE B(z) == {w \in S : Earlier(w, z)}
<1>1. x \in S /\ Cardinality(B(x)) < n
  BY DEF Oldest
<1>2. B(y) \in SUBSET B(x)
  BY <1>1, EarlierFacts
<1>3. IsFiniteSet(B(x)) /\ IsFiniteSet(B(y))
  BY FS_Subset
<1>4. Cardinality(B(y)) <= Cardinality(B(x))
  BY <1>2, <1>3, FS_Subset
<1>5. Cardinality(B(x)) \in Nat /\ Cardinality(B(y)) \in Nat
  BY <1>3, FS_CardinalityType
<1>6. Cardinality(B(y)) < n
  BY <1>1, <1>4, <1>5
<1> QED BY <1>6 DEF Oldest

LEMMA NewestIsClosed ==
  ASSUME NEW S \in SUBSET Item, IsFiniteSet(S), NEW n \in Nat,
         NEW x \in Newest(n, S), NEW y \in S, Earlier(x, y)
  PROVE  y \in Newest(n, S)
<1> DEFINE B(z) == {w \in S : Earlier(z, w)}
<1>1. x \in S /\ Cardinality(B(x)) < n
  BY DEF Newest
<1>2. B(y) \in SUBSET B(x)
  BY <1>1, EarlierFacts
<1>3. IsFiniteSet(B(x)) /\ IsFiniteSet(B(y))
  BY FS_Subset
<1>4. Cardinality(B(y)) <= Cardinality(B(x))
  BY <1>2, <1>3, FS_Subset
<1>5. Cardinality(B(x)) \in Nat /\ Cardinality(B(y)) \in Nat
  BY <1>3, FS_CardinalityType
<1>6. Cardinality(B(y)) < n
  BY <1>1, <1>4, <1>5
<1> QED BY <1>6 DEF Newest

LEMMA ShortIsAll ==
  ASSUME NEW S \in SUBSET Item, IsFiniteSet(S), NEW n \in Nat, Cardinality(Oldest(n, S)) < n
  PROVE  Oldest(n, S) = S
<1> DEFINE R == S \ Oldest(n, S)
           B(z) == {w \in S : Earlier(w, z)}
<1>1. SUFFICES ASSUME R # {} PROVE FALSE
  BY DEF Oldest
<1>2. R \in SUBSET Item
  OBVIOUS
<1>3. PICK x \in R : \A y \in R \ {x} : Earlier(x, y)
  BY <1>1, <1>2, EarliestItem
<1>4. B(x) \in SUBSET Oldest(n, S)
  <2> SUFFICES ASSUME NEW y \in S, Earlier(y, x), y \notin Oldest(n, S) PROVE FALSE
    OBVIOUS
  <2>1. y \in R /\ y \in Item /\ x \in Item
    OBVIOUS
  <2>2. y # x
    BY <2>1, EarlierFacts
  <2> QED BY <1>3, <2>1, <2>2, EarlierFacts
<1>5. ~(Cardinality(B(x)) < n)
  BY <1>3 DEF Oldest
<1>6. Oldest(n, S) \in SUBSET S
  BY DEF Oldest
<1>7. IsFiniteSet(Oldest(n, S)) /\ IsFiniteSet(B(x))
  BY <1>6, FS_Subset
<1>8. Cardinality(B(x)) <= Cardinality(Oldest(n, S))
  BY <1>4, <1>7, FS_Subset
<1>9. Cardinality(B(x)) \in Nat /\ Cardinality(Oldest(n, S)) \in Nat
  BY <1>7, FS_CardinalityType
<1> QED BY <1>5, <1>8, <1>9

LEMMA OldestExists ==
  ASSUME NEW S \in SUBSET Item, IsFiniteSet(S), NEW n \in Nat \ {0}, S # {}
  PROVE  Oldest(n, S) # {}
<1>1. Oldest(n, S) = {} => Cardinality(Oldest(n, S)) = 0
  BY FS_EmptySet
<1>2. Oldest(n, S) = {} => Cardinality(Oldest(n, S)) < n
  BY <1>1
<1> QED BY <1>2, ShortIsAll

LEMMA OldestBound ==
  ASSUME NEW S \in SUBSET Item, IsFiniteSet(S), NEW n \in Nat,
         NEW u \in Nat, \A x \in S : x.time <= u /\ x.id <= u
  PROVE  Cardinality(Oldest(n, S)) <= n
<1> DEFINE O == Oldest(n, S)
           B(z) == {w \in S : Earlier(w, z)}
<1>1. O \in SUBSET S /\ IsFiniteSet(O)
  BY FS_Subset DEF Oldest
<1>2. CASE O = {}
  BY <1>2, FS_EmptySet
<1>3. CASE O # {}
  <2>1. O \in SUBSET Item /\ \A x \in O : x.time <= u /\ x.id <= u
    BY <1>1
  <2>2. PICK x \in O : \A y \in O \ {x} : Earlier(y, x)
    BY <1>3, <2>1, LatestItem
  <2>3. Cardinality(B(x)) < n
    BY <2>2 DEF Oldest
  <2>4. IsFiniteSet(B(x)) /\ x \notin B(x)
    BY <1>1, FS_Subset, EarlierFacts
  <2>5. Cardinality(B(x) \cup {x}) = Cardinality(B(x)) + 1 /\ IsFiniteSet(B(x) \cup {x})
    BY <2>4, FS_AddElement
  <2>6. O \in SUBSET (B(x) \cup {x})
    BY <1>1, <2>2
  <2>7. Cardinality(O) <= Cardinality(B(x) \cup {x})
    BY <2>5, <2>6, FS_Subset
  <2>8. Cardinality(B(x)) \in Nat /\ Cardinality(O) \in Nat
    BY <1>1, <2>4, FS_CardinalityType
  <2> QED BY <2>3, <2>5, <2>7, <2>8
<1> QED BY <1>2, <1>3

----------------------------------------------------------------------------
(* Candles do not overlap, so a range holds no more of them than fit in.   *)

LEMMA Quotients ==
  ASSUME NEW a \in Nat, NEW s \in Nat \ {0}
  PROVE  /\ a \div s \in Nat
         /\ (a \div s) * s <= a /\ a < (a \div s) * s + s
         /\ \A n \in Nat : a < n * s => a \div s < n
         /\ \A b \in Nat : a + s <= b => a \div s < b \div s
<1>1. \A c \in Nat : c \div s \in Nat /\ (c \div s) * s <= c /\ c < (c \div s) * s + s
  OBVIOUS
<1>2. ASSUME NEW m \in Nat, NEW n \in Nat, m * s < n * s PROVE m < n
  <2>1. n <= m => n * s <= m * s
    OBVIOUS
  <2> QED BY <1>2, <2>1
<1>3. ASSUME NEW n \in Nat, a < n * s PROVE a \div s < n
  BY <1>1, <1>2, <1>3
<1>4. ASSUME NEW b \in Nat, a + s <= b PROVE a \div s < b \div s
  <2>1. PICK x \in Nat, y \in Nat : x = a \div s /\ y = b \div s
    BY <1>1
  <2>2. x * s <= a /\ b < y * s + s
    BY <1>1, <2>1
  <2>3. x * s + s < y * s + s /\ x * s \in Nat /\ y * s \in Nat
    BY <1>4, <2>2
  <2> QED BY <1>2, <2>1, <2>3
<1> QED BY <1>1, <1>3, <1>4

LEMMA SpacedCount ==
  ASSUME NEW S \in SUBSET {Candle(t) : t \in Candles}, NEW lo \in Nat, NEW n \in Nat,
         \A x \in S : lo <= x.time /\ x.time - lo < n * Step
  PROVE  IsFiniteSet(S) /\ Cardinality(S) <= n
<1> DEFINE f == [x \in S |-> ((x.time - lo) \div Step) + 1]
<1>1. Step \in Nat \ {0}
  BY PagingAssumption
<1>2. \A x \in S : x.time \in Candles /\ x.time \in Nat /\ x = Candle(x.time)
  BY CandleIsItem, PagingAssumption
<1>3. \A x \in S : x.time - lo \in Nat
  BY <1>2
<1>4. \A x \in S : (x.time - lo) \div Step \in Nat /\ (x.time - lo) \div Step < n
  BY <1>1, <1>3, Quotients
<1>5. f \in [S -> 1..n]
  BY <1>4
<1>6. ASSUME NEW x \in S, NEW y \in S, x.time < y.time PROVE f[x] # f[y]
  <2>1. x.time + Step <= y.time
    BY <1>2, <1>6, PagingAssumption
  <2>2. (x.time - lo) + Step <= y.time - lo
    BY <1>1, <1>2, <2>1
  <2>3. (x.time - lo) \div Step < (y.time - lo) \div Step
    BY <1>1, <1>3, <2>2, Quotients
  <2> QED BY <1>4, <2>3
<1>7. ASSUME NEW x \in S, NEW y \in S, f[x] = f[y] PROVE x = y
  <2>1. ~(x.time < y.time) /\ ~(y.time < x.time)
    BY <1>6, <1>7
  <2>2. x.time = y.time
    BY <1>2, <2>1
  <2> QED BY <1>2, <2>2
<1>8. f \in Injection(S, 1..n)
  BY <1>5, <1>7 DEF Injection, IsInjective
<1>9. IsFiniteSet(1..n) /\ Cardinality(1..n) = n
  BY FS_Interval
<1> QED BY <1>8, <1>9, FS_Injection

(* As many candles as a range is asked for cover it. *)
LEMMA RangeFits ==
  ASSUME NEW d \in Nat
  PROVE  /\ (d + Step - 1) \div Step \in Nat
         /\ d <= ((d + Step - 1) \div Step) * Step
<1>1. Step \in Nat \ {0} /\ d + Step - 1 \in Nat
  BY PagingAssumption
<1>2. PICK q \in Nat : q = (d + Step - 1) \div Step /\ d + Step - 1 < q * Step + Step
  BY <1>1, Quotients
<1>3. q * Step \in Nat
  BY <1>1
<1> QED BY <1>1, <1>2, <1>3

----------------------------------------------------------------------------
(* Types.                                                                  *)

LEMMA Assumed ==
  /\ Nil \notin Nat /\ Nil \notin Requests
  /\ Step \in Nat \ {0} /\ Cap \in Nat \ {0} /\ MaxRetries \in Nat /\ LastNow \in Nat
  /\ Candles \in SUBSET Nat /\ Requests \in SUBSET Request
BY PagingAssumption

LEMMA ReqFacts ==
  ASSUME PTypeOK, req # Nil
  PROVE  /\ req \in Request /\ req.kind \in Kinds /\ req.include \in BOOLEAN
         /\ req.start \in Nat \cup {Nil} /\ req.end \in Nat \cup {Nil}
         /\ req.max \in (Nat \ {0}) \cup {Nil} /\ req.shape \in Shapes
         /\ req.kind = "public" => req.max = Nil /\ req.start # Nil
         /\ req.kind = "trades" => Nil \notin {req.start, req.end}
         /\ req.end = Nil => req.max # Nil
<1>1. req \in Requests
  BY DEF PTypeOK
<1>2. req \in Request
  BY <1>1, Assumed
<1> QED BY <1>1, <1>2, PagingAssumption DEF Request

LEMMA SmallerFacts ==
  ASSUME NEW a \in Nat \ {0}, NEW b \in (Nat \ {0}) \cup {Nil}
  PROVE  Smaller(a, b) \in Nat \ {0} /\ Smaller(a, b) <= a
BY Assumed DEF Smaller

LEMMA LimitFacts ==
  ASSUME PTypeOK, req # Nil, req.max # Nil => len < req.max
  PROVE  Limit \in Nat \ {0}
<1>1. PerPage \in Nat \ {0}
  BY Assumed, ReqFacts, SmallerFacts DEF PerPage
<1>2. len \in Nat
  BY DEF PTypeOK
<1>3. (IF req.max = Nil THEN Nil ELSE req.max - len) \in (Nat \ {0}) \cup {Nil}
  BY <1>2, ReqFacts
<1> QED BY <1>1, <1>3, SmallerFacts DEF Limit

(* The exchange answers with items it has. *)
LEMMA AskedFacts ==
  ASSUME PTypeOK, NEW start, NEW end
  PROVE  LET asked == {i \in Available : InRange(i.time, start, end)} IN
           /\ asked \in SUBSET Items /\ asked \in SUBSET Item /\ IsFiniteSet(asked)
           /\ \A i \in asked : i.time <= now
<1>1. Available \in SUBSET Items /\ \A i \in Available : i.time <= now
  BY CandleIsItem, Assumed DEF Available, Items
<1> DEFINE asked == {i \in Available : InRange(i.time, start, end)}
<1>2. asked \in SUBSET Items /\ \A i \in asked : i.time <= now
  BY <1>1
<1>3. IsFiniteSet(asked) /\ asked \in SUBSET Item
  BY <1>2, ItemsFinite, FS_Subset
<1> QED BY <1>2, <1>3

LEMMA AnswerFacts ==
  ASSUME PTypeOK, NEW start, NEW end, NEW limit
  PROVE  /\ AnswerTo(start, end, limit) \in SUBSET Items
         /\ \A i \in AnswerTo(start, end, limit) :
              i.time <= now /\ i \in Available /\ InRange(i.time, start, end)
BY AskedFacts DEF AnswerTo, Oldest, Newest

LEMMA PageFacts ==
  ASSUME PTypeOK, NEW p \in SUBSET Items
  PROVE  /\ Page(p) \in SUBSET p /\ Page(p) \in SUBSET Item /\ p \in SUBSET Item
         /\ IsFiniteSet(p) /\ IsFiniteSet(Page(p)) /\ IsFiniteSet(out)
         /\ Cardinality(Page(p)) \in Nat /\ Cardinality(p) \in Nat
         /\ Cardinality(out) \in Nat
<1>1. Page(p) \in SUBSET p /\ out \in SUBSET Items
  BY DEF Page, PTypeOK, Items
<1>2. IsFiniteSet(p) /\ IsFiniteSet(Page(p)) /\ IsFiniteSet(out)
  BY <1>1, ItemsFinite, FS_Subset
<1> QED BY <1>1, <1>2, ItemsFinite, FS_CardinalityType

LEMMA CursorFacts ==
  ASSUME PTypeOK, NEW page \in SUBSET Item, page # {}, NEW u \in Nat, \A i \in page : i.time <= u
  PROVE  /\ NextCursor(page) \in Nat
         /\ \A i \in page : i.time < NextCursor(page)
         /\ req.kind = "bars" => /\ \E i \in page : NextCursor(page) = i.time + Step
                                /\ \A i \in page : i.time + Step <= NextCursor(page)
         /\ req.kind # "bars" => \E i \in page : NextCursor(page) = i.time + 1
<1>1. PICK m \in Nat : m = LastTime(page)
  BY LastTimeFacts
<1>2. (\E x \in page : x.time = m) /\ \A x \in page : x.time <= m /\ x.time \in Nat
  BY <1>1, LastTimeFacts DEF Item
<1>3. NextCursor(page) = IF req.kind = "bars" THEN m + Step ELSE m + 1
  BY <1>1, Assumed DEF NextCursor, next_open_time, close_time
<1> QED BY <1>2, <1>3, Assumed

(* What a page does, whatever it holds. *)
LEMMA TakeType ==
  ASSUME PTypeOK, NEW p \in SUBSET Items, NEW u \in Nat, \A i \in Page(p) : i.time <= u,
         Take(p), repeats' \in 0..2
  PROVE  PTypeOK'
<1>1. PICK page : page = Page(p)
  OBVIOUS
<1>2. /\ page \in SUBSET p /\ page \in SUBSET Item /\ IsFiniteSet(page) /\ IsFiniteSet(out)
      /\ Cardinality(page) \in Nat /\ Cardinality(out) \in Nat
  BY <1>1, PageFacts
<1>3. /\ payload' = p /\ out' = out \cup page
      /\ len' = IF req.max = Nil THEN Cardinality(out') ELSE len + Cardinality(page)
      /\ began' = began /\ now' = now /\ req' = req /\ server_time' = server_time
  BY <1>1 DEF Take, Ended
<1>4. Cardinality(out') <= Cardinality(out) + Cardinality(page)
  <2>1. Cardinality(out') = Cardinality(out) + Cardinality(page) - Cardinality(out \cap page)
    BY <1>2, <1>3, FS_Union
  <2>2. IsFiniteSet(out \cap page)
    BY <1>2, FS_Intersection
  <2>3. Cardinality(out \cap page) \in Nat
    BY <2>2, FS_CardinalityType
  <2> QED BY <1>2, <2>1, <2>3
<1>5. len' \in Nat /\ len' >= Cardinality(out')
  <2>1. IsFiniteSet(out')
    BY <1>2, <1>3, FS_Union
  <2>2. Cardinality(out') \in Nat
    BY <2>1, FS_CardinalityType
  <2> QED BY <1>2, <1>3, <1>4, <2>2 DEF PTypeOK
<1>6. out' \cup payload' \subseteq Items
  BY <1>2, <1>3 DEF PTypeOK, Items
<1>7. /\ phase' \in {"idle", "time", "page"} /\ attempt' \in 0..MaxRetries
      /\ outcome' # Nil => outcome'.status \in Statuses
      /\ cursor' \in Nat \cup {Nil}
  <2>1. ASSUME NEW st \in Statuses, NEW o, Ended(st, o)
        PROVE  /\ phase' \in {"idle", "time", "page"} /\ attempt' \in 0..MaxRetries
               /\ outcome' # Nil => outcome'.status \in Statuses
               /\ cursor' \in Nat \cup {Nil}
    BY <2>1, Assumed DEF Ended, PTypeOK
  <2>2. ASSUME page # {}, cursor' = NextCursor(page), attempt' = 0, phase' = phase,
               outcome' = outcome
        PROVE  /\ phase' \in {"idle", "time", "page"} /\ attempt' \in 0..MaxRetries
               /\ outcome' # Nil => outcome'.status \in Statuses
               /\ cursor' \in Nat \cup {Nil}
    BY <1>1, <1>2, <2>2, Assumed, CursorFacts DEF PTypeOK
  <2> QED BY <1>1, <2>1, <2>2 DEF Take, Statuses
<1> QED BY <1>3, <1>5, <1>6, <1>7 DEF PTypeOK, Items

----------------------------------------------------------------------------
(* The invariant.                                                          *)

PhaseInv ==
  /\ req = Nil => /\ phase = "idle" /\ outcome = Nil
                  /\ out = {} /\ payload = {} /\ len = 0
  /\ phase # "idle" => req # Nil /\ outcome = Nil
  /\ req # Nil => began \in Nat /\ began <= now
  /\ phase = "time" => /\ req.kind = "bars" /\ out = {} /\ payload = {}
                       /\ len = 0 /\ cursor = req.start
  /\ phase = "page" /\ req.kind = "bars" => server_time \in Nat /\ server_time <= now
  /\ phase = "page" => /\ req.kind # "trades" \/ repeats = 0 => len = Cardinality(out)
                       /\ req.max # Nil => len < req.max
                       /\ req.start # Nil => cursor # Nil /\ req.start <= cursor

(* Candle c lies behind the first one that is to be returned. *)
Reached(c, o) == IF req.start = Nil THEN \E i \in o : i.time <= c ELSE req.start <= c

(* The final candles before k, or all of them, have been collected. *)
CoversBefore(o, k) ==
  \A c \in Candles :
    IsFinal(c) /\ Reached(c, o) /\ InRange(c, Nil, req.end) /\ c < k => Candle(c) \in o
CoversAll(o) ==
  \A c \in Candles :
    IsFinal(c) /\ Reached(c, o) /\ InRange(c, Nil, req.end) => Candle(c) \in o

Wanted(o) ==
  /\ o \subseteq {Candle(t) : t \in Candles}
  /\ \A i \in o : Kept(i) /\ InRange(i.time, req.start, req.end)

BarsInv ==
  phase = "page" /\ req.kind = "bars" =>
    /\ Wanted(out)
    /\ cursor = Nil => out = {} /\ payload = {}
    /\ \A i \in out : i.time + Step <= cursor
    /\ cursor # Nil => CoversBefore(out, cursor)
    /\ payload # {} =>
         /\ Page(payload) # {}
         /\ Cardinality(payload) >= Limit
         /\ payload \subseteq {Candle(t) : t \in Candles}
         /\ \A i \in Page(payload) : i.time + Step <= cursor
         /\ \A i \in payload : InRange(i.time, req.start, req.end)

(* Trades before t that had happened when the fetch began: collected, or   *)
(* of the same millisecond as one that is.                                 *)
TradesBefore(o, k) ==
  \A d \in Trades : InRange(d.time, req.start, req.end) /\ d.time <= began /\ d.time < k =>
    d \in o \/ \E e \in o : e.time = d.time

TradesInv ==
  phase = "page" /\ req.kind = "trades" =>
    /\ out \subseteq Trades
    /\ repeats = 0 => \A i \in out : i.time < cursor
    /\ TradesBefore(out, cursor)
    /\ payload # {} =>
         /\ payload \subseteq Trades
         /\ Cardinality(payload) >= Limit
         /\ \A i \in payload : InRange(i.time, req.start, req.end) /\ i.time < cursor

Outcomes ==
  /\ BarsAreComplete /\ StallsAreReal
  /\ OnlySplitMillisecondsLoseTrades /\ PublicPageIsEnough

RInv == PTypeOK /\ PhaseInv /\ BarsInv /\ TradesInv /\ Outcomes

----------------------------------------------------------------------------
(* A page of candles.                                                      *)

LEMMA FinalFacts ==
  ASSUME server_time \in Nat, NEW c \in Nat, IsFinal(c)
  PROVE  /\ c <= server_time
         /\ Kept(Candle(c))
         /\ \A t \in Nat : t <= c => IsFinal(t)
BY Assumed, CandleIsItem DEF IsFinal, close_time, Kept

LEMMA AskedCandles ==
  ASSUME PTypeOK, req # Nil, req.kind # "trades"
  PROVE  Available = {Candle(t) : t \in {c \in Candles : c <= now}}
BY DEF Available

(* Every final candle that the loop has reached is collected: if the page  *)
(* is short or brings nothing, all of them, else those up to its end.      *)
LEMMA BarsPage ==
  ASSUME RInv, phase = "page", req.kind = "bars",
         NEW p, p = AnswerTo(cursor, req.end, Limit)
  PROVE  /\ p \subseteq {Candle(t) : t \in Candles}
         /\ \A i \in p : InRange(i.time, req.start, req.end)
         /\ Page(p) = {i \in p : Kept(i)} /\ Wanted(out \cup Page(p))
         /\ Page(p) \cap out = {}
         /\ \A i \in Page(p) : cursor # Nil => cursor <= i.time
         /\ Cardinality(p) < Limit \/ Page(p) = {} => CoversAll(out \cup Page(p))
         /\ \A x \in Page(p) : CoversBefore(out \cup Page(p), x.time + Step)
<1> USE DEF RInv
<1> DEFINE asked == {i \in Available : InRange(i.time, cursor, req.end)}
           page == Page(p)
<1>0. /\ req # Nil /\ server_time \in Nat /\ server_time <= now /\ now \in Nat
      /\ cursor \in Nat \cup {Nil} /\ Limit \in Nat \ {0}
      /\ req.start \in Nat \cup {Nil} /\ req.end \in Nat \cup {Nil}
      /\ Step \in Nat \ {0} /\ Nil \notin Nat
  BY LimitFacts, ReqFacts, Assumed DEF PhaseInv, PTypeOK
<1>1. asked \in SUBSET Item /\ IsFiniteSet(asked)
  BY AskedFacts
<1>2. p \in SUBSET asked /\ (cursor = Nil => p = Newest(Limit, asked))
      /\ (cursor # Nil => p = Oldest(Limit, asked))
  BY DEF AnswerTo, Oldest, Newest
<1>3. /\ asked \subseteq {Candle(t) : t \in Candles}
      /\ \A c \in Candles : c <= now /\ InRange(c, cursor, req.end) => Candle(c) \in asked
  BY AskedCandles, <1>0, CandleIsItem, Assumed
<1>4. \A i \in asked : i.time \in Candles /\ i.time \in Nat /\ i = Candle(i.time)
  BY <1>3, CandleIsItem, Assumed
<1>5. \A i \in p : InRange(i.time, req.start, req.end)
  <2>1. \A i \in p : InRange(i.time, cursor, req.end) /\ i.time \in Nat
    BY <1>2, <1>4
  <2>2. req.start # Nil => cursor # Nil /\ req.start <= cursor
    BY DEF PhaseInv
  <2> QED BY <1>0, <2>1, <2>2 DEF InRange
<1>6. page = {i \in p : Kept(i)}
  BY <1>5 DEF Page
<1>7. p \subseteq {Candle(t) : t \in Candles}
  BY <1>2, <1>3
<1>8. Wanted(out \cup page)
  BY <1>5, <1>6, <1>7 DEF Wanted, BarsInv
<1>9. \A i \in page : cursor # Nil => cursor <= i.time
  BY <1>2, <1>6 DEF InRange
<1>10. page \cap out = {}
  <2> SUFFICES ASSUME NEW i \in page, i \in out PROVE FALSE
    OBVIOUS
  <2>1. cursor # Nil /\ i.time + Step <= cursor
    BY DEF BarsInv
  <2>2. cursor <= i.time /\ i.time \in Nat
    BY <1>2, <1>4, <1>6, <1>9, <2>1
  <2> QED BY <1>0, <2>1, <2>2
(* What is left to show of a candle: that it is in the page. *)
<1>11. ASSUME NEW c \in Candles, IsFinal(c), Reached(c, out \cup page), InRange(c, Nil, req.end),
              cursor # Nil /\ cursor <= c => Candle(c) \in p
       PROVE  Candle(c) \in out \cup page
  <2>1. c \in Nat /\ Kept(Candle(c)) /\ c <= now /\ c <= server_time
    BY <1>0, <1>11, Assumed, FinalFacts
  <2>2. CASE cursor # Nil /\ cursor <= c
    BY <1>6, <1>11, <2>1, <2>2
  <2>3. CASE cursor # Nil /\ c < cursor
    <3>1. Reached(c, out)
      <4>1. CASE req.start = Nil
        <5>1. PICK i \in out \cup page : i.time <= c
          BY <1>11, <4>1 DEF Reached
        <5>2. i \notin page
          <6> SUFFICES ASSUME i \in page PROVE FALSE
            OBVIOUS
          <6>1. cursor <= i.time /\ i.time \in Nat
            BY <1>2, <1>4, <1>6, <1>9, <2>3
          <6> QED BY <1>0, <2>1, <2>3, <5>1, <6>1
        <5> QED BY <4>1, <5>1, <5>2 DEF Reached
      <4> QED BY <1>11, <4>1 DEF Reached
    <3> QED BY <1>11, <2>3, <3>1 DEF BarsInv, CoversBefore
  <2>4. CASE cursor = Nil
    <3>1. out = {} /\ req.start = Nil
      BY <2>4 DEF BarsInv, PhaseInv
    <3>2. PICK i \in page : i.time <= c
      BY <1>11, <3>1 DEF Reached
    <3>3. i \in p /\ i \in asked /\ i = Candle(i.time)
      BY <1>2, <1>4, <1>6, <3>2
    <3>4. Candle(c) \in asked
      BY <1>0, <1>3, <1>11, <2>1, <2>4 DEF InRange
    <3>5. Candle(c) \in p
      <4>1. CASE i.time = c
        BY <3>3, <4>1
      <4>2. CASE i.time < c
        <5>1. Earlier(i, Candle(c))
          BY <4>2, CandleIsItem, <2>1 DEF Earlier
        <5> QED BY <1>0, <1>1, <1>2, <2>4, <3>3, <3>4, <5>1, NewestIsClosed
      <4>3. i.time \in Nat
        BY <1>4, <3>3
      <4> QED BY <2>1, <3>2, <4>1, <4>2, <4>3
    <3> QED BY <1>6, <2>1, <3>5
  <2> QED BY <1>0, <2>1, <2>2, <2>3, <2>4
(* Candles from the cursor on that are not in the page are later than it.  *)
<1>12. ASSUME NEW c \in Candles, IsFinal(c), InRange(c, Nil, req.end), cursor # Nil, cursor <= c,
              Candle(c) \notin p
       PROVE  Candle(c) \in asked /\ \A y \in p : y.time < c
  <2>1. c \in Nat /\ c <= now
    BY <1>0, <1>12, Assumed, FinalFacts
  <2>2. Candle(c) \in asked
    BY <1>3, <1>12, <2>1 DEF InRange
  <2>3. ASSUME NEW y \in p, ~(y.time < c) PROVE FALSE
    <3>1. y \in asked /\ y.time \in Nat /\ y = Candle(y.time) /\ y # Candle(c)
      BY <1>2, <1>4, <1>12
    <3>2. c < y.time
      BY <2>1, <2>3, <3>1
    <3>3. Earlier(Candle(c), y)
      BY <3>2, <2>1, CandleIsItem DEF Earlier
    <3> QED BY <1>0, <1>1, <1>2, <1>12, <2>2, <3>1, <3>3, OldestIsClosed
  <2> QED BY <2>2, <2>3
<1>13. ASSUME Cardinality(p) < Limit \/ page = {} PROVE CoversAll(out \cup page)
  <2> SUFFICES ASSUME NEW c \in Candles, IsFinal(c), Reached(c, out \cup page),
                      InRange(c, Nil, req.end), cursor # Nil, cursor <= c, Candle(c) \notin p
               PROVE  FALSE
    BY <1>11 DEF CoversAll
  <2>1. Candle(c) \in asked /\ \A y \in p : y.time < c
    BY <1>12
  <2>2. p = Oldest(Limit, asked)
    BY <1>2
  <2>3. ~(Cardinality(p) < Limit)
    BY <1>0, <1>1, <2>1, <2>2, ShortIsAll
  <2>4. page = {}
    BY <1>13, <2>3
  <2>5. PICK y \in p : TRUE
    BY <1>0, <1>1, <2>1, <2>2, OldestExists
  <2>6. y.time \in Nat /\ y.time < c /\ c \in Nat /\ y = Candle(y.time)
    BY <1>2, <1>4, <2>1, Assumed
  <2>7. IsFinal(y.time)
    BY <1>0, <2>6, FinalFacts
  <2>8. Kept(y)
    BY <1>0, <2>6, <2>7, FinalFacts
  <2> QED BY <1>6, <2>4, <2>5, <2>8
<1>14. ASSUME NEW x \in page PROVE CoversBefore(out \cup page, x.time + Step)
  <2> SUFFICES ASSUME NEW c \in Candles, IsFinal(c), Reached(c, out \cup page),
                      InRange(c, Nil, req.end), c < x.time + Step,
                      cursor # Nil, cursor <= c, Candle(c) \notin p
               PROVE  FALSE
    BY <1>11 DEF CoversBefore
  <2>1. x \in p /\ x.time \in Candles /\ x.time \in Nat /\ c \in Nat
    BY <1>2, <1>4, <1>6, Assumed
  <2>2. x.time < c
    BY <1>12, <2>1
  <2>3. x.time + Step <= c
    BY <2>1, <2>2, PagingAssumption
  <2> QED BY <1>0, <2>1, <2>3
<1> QED BY <1>5, <1>6, <1>7, <1>8, <1>9, <1>10, <1>13, <1>14

----------------------------------------------------------------------------
(* What is returned: the first max_bars of what was collected.             *)

CompleteOf(r, server, final) ==
  LET over == {i \in final : close_time(i.time) <= server}
      lo == IF r.start = Nil /\ final # {}
              THEN (CHOOSE i \in final : i \in Oldest(1, final)).time ELSE r.start
      due == {Candle(t) : t \in {c \in Candles :
                                   close_time(c) <= server /\ InRange(c, lo, r.end)}}
  IN /\ lo # Nil => over = IF r.max = Nil THEN due ELSE Oldest(r.max, due)
     /\ ~r.include => final = over
     /\ r.max # Nil => Cardinality(final) <= r.max

Complete(final) == CompleteOf(req, server_time, final)

LEMMA FirstFacts ==
  ASSUME NEW S \in SUBSET Item, IsFiniteSet(S), S # {}
  PROVE  LET f == CHOOSE i \in S : i \in Oldest(1, S) IN
           f \in S /\ \A y \in S : f.time <= y.time
<1>1. \E i \in S : i \in Oldest(1, S)
  BY OldestExists DEF Oldest
<1>2. PICK f \in S : f = (CHOOSE i \in S : i \in Oldest(1, S)) /\ f \in Oldest(1, S)
  BY <1>1
<1> DEFINE B == {y \in S : Earlier(y, f)}
<1>3. IsFiniteSet(B) /\ Cardinality(B) < 1
  BY <1>2, FS_Subset DEF Oldest
<1>4. Cardinality(B) = 0
  BY <1>3, FS_CardinalityType
<1>5. B = {}
  BY <1>3, <1>4, FS_EmptySet
<1>6. \A y \in S : y = f \/ Earlier(f, y)
  BY <1>5, EarlierFacts
<1>7. \A y \in S : f.time <= y.time
  BY <1>6, EarlierFacts DEF Item
<1> QED BY <1>2, <1>7

LEMMA BarsEnd ==
  ASSUME PTypeOK, req # Nil, req.kind = "bars", server_time \in Nat,
         NEW o, Wanted(o), NEW u \in Nat, \A i \in o : i.time <= u,
         \/ CoversAll(o)
         \/ /\ req.max # Nil /\ Cardinality(o) >= req.max
            /\ \E k \in Nat : CoversBefore(o, k) /\ \A i \in o : i.time < k
  PROVE  Complete(Final(o))
<1> DEFINE fin == Final(o)
           over == {i \in fin : IsFinal(i.time)}
           lo == IF req.start = Nil /\ fin # {}
                   THEN (CHOOSE i \in fin : i \in Oldest(1, fin)).time ELSE req.start
           due == {Candle(t) : t \in {c \in Candles : IsFinal(c) /\ InRange(c, lo, req.end)}}
<1>0. /\ req.start \in Nat \cup {Nil} /\ req.end \in Nat \cup {Nil}
      /\ req.max \in (Nat \ {0}) \cup {Nil} /\ Nil \notin Nat /\ Candles \in SUBSET Nat
  BY ReqFacts, Assumed
<1>1. /\ o \in SUBSET Items /\ o \in SUBSET Item /\ IsFiniteSet(o)
      /\ \A i \in o : i.time \in Candles /\ i.time \in Nat /\ i = Candle(i.time) /\ i.id = i.time
  <2>1. o \in SUBSET Items
    BY DEF Wanted, Items
  <2>2. o \in SUBSET Item /\ IsFiniteSet(o)
    BY <2>1, ItemsFinite, FS_Subset
  <2> QED BY <2>1, <2>2, <1>0, CandleIsItem DEF Wanted
<1>2. fin = IF req.max # Nil THEN Oldest(req.max, o) ELSE o
  BY DEF Final
<1>3. fin \in SUBSET o /\ (o # {} => fin # {}) /\ IsFiniteSet(fin)
  BY <1>0, <1>1, <1>2, OldestExists, FS_Subset DEF Oldest
<1>4. req.max # Nil => Cardinality(fin) <= req.max
  BY <1>0, <1>1, <1>2, OldestBound
<1>5. ~req.include => fin = over
  <2>1. ~req.include => \A i \in o : IsFinal(i.time)
    BY DEF Wanted, Kept
  <2> QED BY <1>3, <2>1
(* The range begins where the first returned candle does. *)
<1>6. ASSUME lo # Nil
      PROVE  /\ lo \in Nat /\ \A i \in o : lo <= i.time
             /\ \A c \in Candles : lo <= c => Reached(c, o)
  <2>1. CASE req.start # Nil
    BY <1>0, <2>1 DEF Wanted, InRange, Reached
  <2>2. CASE req.start = Nil
    <3>1. fin # {} /\ lo = (CHOOSE i \in fin : i \in Oldest(1, fin)).time
      BY <1>6, <2>2
    <3>2. PICK f \in fin : lo = f.time /\ \A y \in fin : f.time <= y.time
      BY <1>1, <1>3, <3>1, FirstFacts
    <3>3. ASSUME NEW i \in o, i.time < f.time PROVE FALSE
      <4>1. Earlier(i, f)
        BY <3>3 DEF Earlier
      <4>2. i \in fin
        BY <1>0, <1>1, <1>2, <1>3, <4>1, OldestIsClosed
      <4> QED BY <1>1, <1>3, <3>2, <3>3, <4>2
    <3>4. f \in o /\ f.time \in Nat
      BY <1>1, <1>3
    <3>5. lo \in Nat /\ lo = f.time
      BY <3>2, <3>4
    <3>6. ASSUME NEW i \in o PROVE lo <= i.time
      <4>1. ~(i.time < f.time) /\ i.time \in Nat
        BY <1>1, <3>3
      <4> QED BY <3>4, <3>5, <4>1
    <3>7. \A c \in Candles : lo <= c => Reached(c, o)
      BY <2>2, <3>4, <3>5 DEF Reached
    <3> HIDE DEF lo
    <3> QED BY <3>5, <3>6, <3>7
  <2> QED BY <2>1, <2>2
<1> DEFINE done == {i \in o : IsFinal(i.time)}
<1>7. ASSUME lo # Nil PROVE done \in SUBSET due
  <2> SUFFICES ASSUME NEW i \in done PROVE i \in due
    OBVIOUS
  <2>1. i = Candle(i.time) /\ i.time \in Candles /\ IsFinal(i.time)
    BY <1>1
  <2>2. InRange(i.time, lo, req.end)
    BY <1>1, <1>6, <1>7 DEF Wanted, InRange
  <2> QED BY <2>1, <2>2
<1>8. \A d \in due : /\ d = Candle(d.time) /\ d.time \in Candles /\ d.time \in Nat /\ IsFinal(d.time)
                     /\ InRange(d.time, lo, req.end) /\ d \in Item
  BY <1>0, CandleIsItem
<1>9. ASSUME lo # Nil, NEW d \in due PROVE Reached(d.time, o) /\ InRange(d.time, Nil, req.end)
  BY <1>6, <1>8, <1>9 DEF InRange
<1>10. CASE CoversAll(o)
  <2> SUFFICES ASSUME lo # Nil PROVE over = IF req.max = Nil THEN due ELSE Oldest(req.max, due)
    BY <1>4, <1>5 DEF Complete, CompleteOf, IsFinal
  <2>1. due \in SUBSET o
    <3> SUFFICES ASSUME NEW d \in due PROVE d \in o
      OBVIOUS
    <3> QED BY <1>8, <1>9, <1>10 DEF CoversAll
  <2>2. due = done
    BY <1>7, <1>8, <2>1
  <2>3. CASE req.max = Nil
    BY <1>2, <2>2, <2>3
  <2>4. CASE req.max # Nil
    <3>1. \A i \in done : {y \in o : Earlier(y, i)} = {y \in due : Earlier(y, i)}
      <4> SUFFICES ASSUME NEW i \in done, NEW y \in o, Earlier(y, i) PROVE y \in done
        BY <2>1, <2>2
      <4>1. y.time <= i.time /\ y.time \in Nat /\ i.time \in Nat
        BY <1>1, EarlierFacts
      <4> QED BY <4>1, FinalFacts
    <3>2. over = {i \in done : Cardinality({y \in o : Earlier(y, i)}) < req.max}
      BY <1>2, <2>4 DEF Oldest
    <3> QED BY <2>2, <2>4, <3>1, <3>2 DEF Oldest
  <2> QED BY <2>3, <2>4
<1>11. CASE /\ req.max # Nil /\ Cardinality(o) >= req.max
            /\ \E k \in Nat : CoversBefore(o, k) /\ \A i \in o : i.time < k
  <2> SUFFICES ASSUME lo # Nil PROVE over = Oldest(req.max, due)
    BY <1>4, <1>5, <1>11 DEF Complete, CompleteOf, IsFinal
  <2>1. PICK k \in Nat : CoversBefore(o, k) /\ \A i \in o : i.time < k
    BY <1>11
  <2>2. ASSUME NEW d \in due, d.time < k PROVE d \in done
    BY <1>8, <1>9, <2>1, <2>2 DEF CoversBefore
  <2>3. ASSUME NEW i \in done
        PROVE  {y \in o : Earlier(y, i)} = {y \in due : Earlier(y, i)}
    <3>1. ASSUME NEW y \in o, Earlier(y, i) PROVE y \in due
      <4>1. y.time <= i.time /\ y.time \in Nat /\ i.time \in Nat
        BY <1>1, <3>1, EarlierFacts
      <4> QED BY <1>7, <4>1, FinalFacts
    <3>2. ASSUME NEW y \in due, Earlier(y, i) PROVE y \in o
      <4>1. y.time <= i.time /\ y.time \in Nat /\ i.time \in Nat /\ i.time < k
        BY <1>1, <1>8, <2>1, <3>2, EarlierFacts
      <4> QED BY <2>2, <4>1
    <3> QED BY <3>1, <3>2
  <2>4. ASSUME NEW d \in Oldest(req.max, due) PROVE d \in done
    <3> SUFFICES ASSUME ~(d.time < k) PROVE FALSE
      BY <2>2 DEF Oldest
    <3>1. d \in due /\ d.time \in Nat /\ IsFinal(d.time) /\ d \in Item
      BY <1>8 DEF Oldest
    <3>2. \A i \in o : i.time < d.time /\ i.time \in Nat
      BY <1>1, <2>1, <3>1
    <3>3. o \in SUBSET {y \in due : Earlier(y, d)}
      <4> SUFFICES ASSUME NEW i \in o PROVE i \in due /\ Earlier(i, d)
        OBVIOUS
      <4>1. IsFinal(i.time)
        BY <3>1, <3>2, FinalFacts
      <4> QED BY <1>7, <3>2, <4>1 DEF Earlier
    <3>4. due \in SUBSET Items
      BY DEF Items
    <3>5. IsFiniteSet({y \in due : Earlier(y, d)})
      BY <3>4, ItemsFinite, FS_Subset
    <3>6. Cardinality(o) <= Cardinality({y \in due : Earlier(y, d)})
      BY <3>3, <3>5, FS_Subset
    <3>7. Cardinality({y \in due : Earlier(y, d)}) < req.max
      BY DEF Oldest
    <3>8. Cardinality(o) \in Nat /\ Cardinality({y \in due : Earlier(y, d)}) \in Nat
      BY <1>1, <3>5, FS_CardinalityType
    <3> QED BY <1>0, <1>11, <3>6, <3>7, <3>8
  <2>5. over = {i \in done : Cardinality({y \in o : Earlier(y, i)}) < req.max}
    BY <1>2, <1>11 DEF Oldest
  <2> QED BY <1>7, <2>3, <2>4, <2>5 DEF Oldest
<1> QED BY <1>10, <1>11

----------------------------------------------------------------------------
(* How a fetch ends.                                                       *)

TradesDone(got, again, n) ==
  \A d \in Trades \ got :
    InRange(d.time, req.start, req.end) /\ d.time <= began =>
      \/ /\ req.max # Nil
         /\ Cardinality(got) >= req.max \/ (again > 0 /\ n >= req.max)
      \/ \E e \in got : e.time = d.time

PublicDone(got) ==
  LET due == {Candle(t) : t \in {c \in Candles :
                                   c <= began /\ InRange(c, req.start, req.end)}}
      fits == /\ req.end - req.start <= Cap * Step
              /\ req.shape = "size" => \A t \in Candles : t <= now => t < req.end
  IN fits => due \subseteq got

LEMMA EndsWell ==
  ASSUME RInv, PTypeOK', phase # "idle", NEW st, NEW o, Ended(st, o), began' = began,
         st = "ok" /\ req.kind = "bars" => Complete(Final(o)),
         st = "MDPaginationStalled" => repeats' > 0,
         st = "ok" /\ req.kind = "trades" => TradesDone(Final(o), repeats', len'),
         st = "ok" /\ req.kind = "public" => PublicDone(Final(o))
  PROVE  RInv'
<1> USE DEF RInv
<1>0. /\ phase' = "idle" /\ outcome' = [status |-> st, final |-> Final(o)]
      /\ now' = now /\ req' = req /\ server_time' = server_time /\ cursor' = cursor
  BY DEF Ended
<1>1. req # Nil
  BY DEF PhaseInv
<1>2. PhaseInv' /\ BarsInv' /\ TradesInv'
  BY <1>0, <1>1 DEF PhaseInv, BarsInv, TradesInv
<1>3. outcome'.status = st /\ outcome'.final = Final(o)
  BY <1>0
<1>4. PICK fin, again, n : fin = Final(o) /\ again = repeats' /\ n = len'
  OBVIOUS
<1>5. Complete(fin) => CompleteOf(req', server_time', fin)
  BY <1>0 DEF Complete
<1>6. /\ TradesDone(fin, again, n) => TradesDone(fin, again, n)'
      /\ PublicDone(fin) => PublicDone(fin)'
  BY <1>0 DEF TradesDone, PublicDone, InRange, Candle
<1>7. Returned' => st = "ok"
  BY <1>3 DEF Returned
<1>8. StallsAreReal'
  BY <1>3 DEF StallsAreReal
<1>9. outcome'.final = fin
  BY <1>3, <1>4
<1>10. BarsAreComplete'
  <2> SUFFICES ASSUME Returned', req'.kind = "bars" PROVE CompleteOf(req', server_time', fin)
    BY <1>9 DEF BarsAreComplete, CompleteOf, IsFinal
  <2> QED BY <1>0, <1>4, <1>5, <1>7
<1>11. OnlySplitMillisecondsLoseTrades'
  <2> SUFFICES ASSUME Returned', req'.kind = "trades" PROVE TradesDone(fin, again, n)'
    BY <1>4, <1>9 DEF OnlySplitMillisecondsLoseTrades, TradesDone
  <2> QED BY <1>0, <1>4, <1>6, <1>7
<1>12. PublicPageIsEnough'
  <2> SUFFICES ASSUME Returned', req'.kind = "public" PROVE PublicDone(fin)'
    BY <1>9 DEF PublicPageIsEnough, PublicDone
  <2> QED BY <1>0, <1>4, <1>6, <1>7
<1> QED BY <1>2, <1>8, <1>10, <1>11, <1>12 DEF Outcomes

(* While a fetch goes on it has no outcome. *)
LEMMA NoOutcome ==
  ASSUME outcome' = Nil
  PROVE  Outcomes'
BY DEF Outcomes, BarsAreComplete, StallsAreReal, OnlySplitMillisecondsLoseTrades,
       PublicPageIsEnough, Returned

(* The collected list and the page are apart, so the list has no item      *)
(* twice.                                                                  *)
LEMMA Grows ==
  ASSUME PTypeOK, len = Cardinality(out), NEW p \in SUBSET Items, Take(p),
         Page(p) \cap out = {}
  PROVE  len' = Cardinality(out') /\ len' \in Nat /\ len <= len'
<1>1. /\ IsFiniteSet(out) /\ IsFiniteSet(Page(p)) /\ Cardinality(Page(p)) \in Nat
      /\ Cardinality(out) \in Nat
  BY PageFacts
<1>2. /\ out' = out \cup Page(p)
      /\ len' = IF req.max = Nil THEN Cardinality(out') ELSE len + Cardinality(Page(p))
  BY DEF Take
<1>3. Cardinality(out') = Cardinality(out) + Cardinality(Page(p)) - Cardinality(out \cap Page(p))
  BY <1>1, <1>2, FS_Union
<1>4. Cardinality(out \cap Page(p)) = 0
  <2>1. out \cap Page(p) = {}
    OBVIOUS
  <2> QED BY <2>1, FS_EmptySet
<1>5. PICK m \in Nat : m = Cardinality(Page(p))
  BY <1>1
<1>6. len' = len + m /\ Cardinality(out') = len + m /\ len \in Nat
  BY <1>1, <1>2, <1>3, <1>4, <1>5
<1> QED BY <1>6

(* The four ways out of a page. *)
LEMMA TakeCases ==
  ASSUME NEW p, Take(p)
  PROVE  LET page == Page(p)
             last == page = {} \/ ShortPage(p, page)
             c == NextCursor(page)
         IN \/ last /\ Ended("ok", out')
            \/ ~last /\ Stalled(c) /\ Ended("MDPaginationStalled", {})
            \/ ~last /\ ~Stalled(c) /\ Enough(c) /\ Ended("ok", out')
            \/ /\ ~last /\ ~Stalled(c) /\ ~Enough(c) /\ cursor' = c
               /\ UNCHANGED <<now, phase, req, server_time, outcome>>
BY DEF Take

(* The limit of a page only shrinks while a fetch goes on. *)
LEMMA LimitShrinks ==
  ASSUME PTypeOK, req # Nil, req' = req, len' \in Nat,
         req.max # Nil => len <= len' /\ len < req.max /\ len' < req.max
  PROVE  Limit' <= Limit /\ Limit' \in Nat
<1>1. PerPage \in Nat \ {0} /\ len \in Nat /\ PerPage' = PerPage
  BY Assumed, ReqFacts, SmallerFacts DEF PerPage, PTypeOK, Smaller
<1>2. PICK n \in Nat : n = PerPage
  BY <1>1
<1>3. CASE req.max = Nil
  BY <1>1, <1>2, <1>3 DEF Limit, Smaller
<1>4. CASE req.max # Nil
  <2>1. req.max \in Nat
    BY <1>4, ReqFacts
  <2>2. PICK a \in Nat, b \in Nat : a = req.max - len /\ b = req.max - len' /\ b <= a
    BY <1>1, <1>4, <2>1
  <2>3. Limit = Smaller(n, a) /\ Limit' = Smaller(n, b)
    BY <1>1, <1>2, <1>4, <2>2 DEF Limit, Smaller
  <2>4. a # Nil /\ b # Nil
    BY <2>2, Assumed
  <2> QED BY <1>2, <2>2, <2>3, <2>4 DEF Smaller
<1> QED BY <1>3, <1>4

LEMMA ReadBarsInv ==
  ASSUME RInv, ReadPage, req.kind = "bars"
  PROVE  RInv'
<1> USE DEF RInv
<1>1. /\ phase = "page" /\ repeats' = repeats /\ phase # "idle" /\ req # Nil
      /\ Take(AnswerTo(cursor, req.end, Limit))
  BY DEF ReadPage, PhaseInv
<1>2. PICK p : p = AnswerTo(cursor, req.end, Limit)
  OBVIOUS
<1>3. PICK page : page = Page(p)
  OBVIOUS
<1>4. /\ Take(p) /\ p \in SUBSET Items /\ \A i \in p : i.time <= now
  BY <1>1, <1>2, AnswerFacts
<1>5. /\ p \subseteq {Candle(t) : t \in Candles}
      /\ \A i \in p : InRange(i.time, req.start, req.end)
      /\ page = {i \in p : Kept(i)} /\ Wanted(out \cup page)
      /\ page \cap out = {}
      /\ \A i \in page : cursor # Nil => cursor <= i.time
      /\ Cardinality(p) < Limit \/ page = {} => CoversAll(out \cup page)
      /\ \A x \in page : CoversBefore(out \cup page, x.time + Step)
  BY <1>1, <1>2, <1>3, BarsPage
<1>6. /\ page \in SUBSET p /\ page \in SUBSET Item /\ \A i \in page : i.time <= now
      /\ IsFiniteSet(p) /\ Cardinality(p) \in Nat
  BY <1>3, <1>4, PageFacts
<1>7. /\ now \in Nat /\ server_time \in Nat /\ cursor \in Nat \cup {Nil} /\ Nil \notin Nat
      /\ Step \in Nat \ {0} /\ req.start \in Nat \cup {Nil} /\ req.end \in Nat \cup {Nil}
      /\ req.max \in (Nat \ {0}) \cup {Nil} /\ Limit \in Nat \ {0}
  BY <1>1, ReqFacts, Assumed, LimitFacts DEF PTypeOK, PhaseInv
<1>8. out' = out \cup page /\ payload' = p /\ began' = began
  BY <1>3, <1>4 DEF Take
<1>9. PTypeOK'
  <2>1. repeats' \in 0..2
    BY <1>1 DEF PTypeOK
  <2> QED BY <1>3, <1>4, <1>6, <1>7, <2>1, TakeType
<1>10. len' = Cardinality(out') /\ len' \in Nat
  BY <1>1, <1>3, <1>4, <1>5, Grows DEF PhaseInv
<1>11. PICK c : c = NextCursor(page)
  OBVIOUS
<1>12. page # {} => /\ c \in Nat /\ (\A i \in page : i.time < c)
                   /\ (\E x \in page : c = x.time + Step)
                   /\ \A i \in page : i.time + Step <= c
  BY <1>6, <1>7, <1>11, CursorFacts
<1>13. page # {} => CoversBefore(out', c)
  BY <1>5, <1>8, <1>12
<1>14. \A i \in page : i.time \in Nat
  BY <1>6 DEF Item
<1>15. \A i \in out : i.time + Step <= cursor /\ cursor # Nil /\ i.time \in Nat
  <2>1. out \in SUBSET Item
    BY ItemsFinite DEF PTypeOK, Items
  <2> QED BY <1>1, <2>1 DEF BarsInv, Item
<1>16. page # {} => \A i \in out' : i.time < c
  <2> SUFFICES ASSUME page # {}, NEW i \in out PROVE i.time < c
    BY <1>8, <1>12
  <2>1. PICK x \in page : c = x.time + Step
    BY <1>12
  <2>2. cursor \in Nat /\ cursor <= x.time /\ x.time \in Nat
    BY <1>5, <1>7, <1>14, <1>15
  <2> QED BY <1>7, <1>15, <2>1, <2>2
<1>17. Wanted(out')
  BY <1>5, <1>8
<1>18. PICK u \in Nat : \A i \in out' : i.time <= u
  <2>1. CASE cursor = Nil
    BY <1>6, <1>7, <1>8, <1>15, <2>1
  <2>2. CASE cursor # Nil
    <3>1. cursor + now \in Nat
      BY <1>7, <2>2
    <3>2. \A i \in page : i.time <= cursor + now
      BY <1>6, <1>7, <1>14, <2>2
    <3>3. \A i \in out : i.time <= cursor + now
      BY <1>7, <1>15, <2>2
    <3> QED BY <1>8, <3>1, <3>2, <3>3
  <2> QED BY <2>1, <2>2
<1>19. ASSUME NEW o, o = out', Ended("ok", o),
              \/ CoversAll(o)
              \/ /\ req.max # Nil /\ Cardinality(o) >= req.max
                 /\ \E k \in Nat : CoversBefore(o, k) /\ \A i \in o : i.time < k
       PROVE  RInv'
  <2>1. Complete(Final(o))
    BY <1>1, <1>7, <1>17, <1>18, <1>19, BarsEnd
  <2> QED BY <1>1, <1>8, <1>9, <1>19, <2>1, EndsWell
<1>20. CASE (page = {} \/ ShortPage(p, page)) /\ Ended("ok", out')
  <2>1. ShortPage(p, page) => Cardinality(p) < Limit
    BY DEF ShortPage
  <2>2. CoversAll(out')
    BY <1>5, <1>8, <1>20, <2>1
  <2>3. PICK o : o = out'
    OBVIOUS
  <2>4. CoversAll(o) /\ Ended("ok", o)
    BY <1>20, <2>2, <2>3
  <2> HIDE DEF RInv
  <2> QED BY <1>19, <2>3, <2>4
<1>21. CASE page # {} /\ Stalled(c)
  <2>1. PICK x \in page : c = x.time + Step
    BY <1>12, <1>21
  <2>2. cursor \in Nat /\ c <= cursor /\ cursor <= x.time /\ x.time \in Nat
    BY <1>5, <1>7, <1>14, <1>21 DEF Stalled
  <2> QED BY <1>7, <2>1, <2>2
<1>22. CASE page # {} /\ Enough(c) /\ Ended("ok", out')
  <2>1. CASE req.end # Nil /\ c >= req.end
    <3>1. CoversAll(out')
      <4> SUFFICES ASSUME NEW k \in Candles, IsFinal(k), Reached(k, out'), InRange(k, Nil, req.end)
                   PROVE  k < c
        BY <1>13, <1>22 DEF CoversAll, CoversBefore
      <4>1. k \in Nat /\ k < req.end
        BY <2>1, Assumed DEF InRange
      <4> QED BY <1>7, <1>12, <1>22, <2>1, <4>1
    <3>2. PICK o : o = out'
      OBVIOUS
    <3>3. CoversAll(o) /\ Ended("ok", o)
      BY <1>22, <3>1, <3>2
    <3> HIDE DEF RInv
    <3> QED BY <1>19, <3>2, <3>3
  <2>2. CASE req.max # Nil /\ len' >= req.max
    <3>1. PICK o : o = out'
      OBVIOUS
    <3>2. /\ req.max # Nil /\ Cardinality(o) >= req.max /\ Ended("ok", o)
          /\ \E k \in Nat : CoversBefore(o, k) /\ \A i \in o : i.time < k
      BY <1>10, <1>12, <1>13, <1>16, <1>22, <2>2, <3>1
    <3> HIDE DEF RInv
    <3> QED BY <1>19, <3>1, <3>2
  <2> QED BY <1>22, <2>1, <2>2 DEF Enough
<1>23. CASE /\ page # {} /\ ~ShortPage(p, page) /\ ~Enough(c) /\ cursor' = c
            /\ UNCHANGED <<now, phase, req, server_time, outcome>>
  <2>0. now' = now /\ phase' = phase /\ req' = req /\ server_time' = server_time
        /\ outcome' = outcome
    BY <1>23
  <2>1. Outcomes' /\ TradesInv'
    <3>1. outcome = Nil
      BY <1>1 DEF PhaseInv
    <3> QED BY <1>1, <2>0, <3>1
        DEF Outcomes, BarsAreComplete, StallsAreReal, OnlySplitMillisecondsLoseTrades,
            PublicPageIsEnough, Returned, TradesInv
  <2>2. PhaseInv'
    <3>1. req.max # Nil => len' < req.max
      BY <1>7, <1>10, <1>23 DEF Enough
    <3>2. req.start # Nil => req.start <= c
      <4> SUFFICES ASSUME req.start # Nil PROVE req.start <= c
        OBVIOUS
      <4>1. PICK x \in page : c = x.time + Step
        BY <1>12, <1>23
      <4>2. req.start <= x.time /\ x.time \in Nat
        BY <1>5, <1>6, <1>14 DEF InRange
      <4> QED BY <1>7, <4>1, <4>2
    <3>3. c # Nil
      BY <1>7, <1>12, <1>23
    <3> QED BY <1>1, <1>8, <1>10, <1>23, <2>0, <3>1, <3>2, <3>3 DEF PhaseInv
  <2>3. BarsInv'
    <3>1. Wanted(out)'
      BY <1>17, <2>0 DEF Wanted, Kept, IsFinal
    <3>2. \A i \in out' : i.time + Step <= c
      <4> SUFFICES ASSUME NEW i \in out PROVE i.time + Step <= c
        BY <1>8, <1>12, <1>23
      <4>1. PICK x \in page : c = x.time + Step
        BY <1>12, <1>23
      <4>2. i.time + Step <= cursor /\ cursor \in Nat /\ cursor <= x.time /\ x.time \in Nat
            /\ i.time \in Nat
        BY <1>5, <1>7, <1>14, <1>15
      <4> QED BY <1>7, <4>1, <4>2
    <3>3. CoversBefore(out, cursor)'
      BY <1>13, <1>23, <2>0 DEF CoversBefore, IsFinal, Reached
    <3>4. Page(p)' = page
      BY <1>3, <2>0 DEF Page, Kept, IsFinal
    <3>5. (Cardinality(p) >= Limit)'
      <4>1. Cardinality(p) >= Limit
        BY <1>1, <1>6, <1>7, <1>23 DEF ShortPage
      <4>2. len <= len' /\ len \in Nat
        BY <1>1, <1>3, <1>4, <1>5, Grows DEF PTypeOK, PhaseInv
      <4>3. req.max # Nil => len <= len' /\ len' < req.max /\ len < req.max
        BY <1>1, <2>2, <2>0, <4>2 DEF PhaseInv
      <4>4. Limit' <= Limit /\ Limit' \in Nat
        BY <1>10, <2>0, <4>3, <1>1, LimitShrinks
      <4> QED BY <1>6, <1>7, <4>1, <4>4
    <3>6. c # Nil
      BY <1>7, <1>12, <1>23
    <3>7. payload' = p /\ cursor' = c /\ (\A i \in page : i.time + Step <= c)
      BY <1>8, <1>12, <1>23
    <3> QED BY <1>5, <1>23, <2>0, <3>1, <3>2, <3>3, <3>4, <3>5, <3>6, <3>7 DEF BarsInv
  <2> QED BY <1>9, <2>1, <2>2, <2>3
<1> QED BY <1>3, <1>4, <1>11, <1>20, <1>21, <1>22, <1>23, TakeCases

----------------------------------------------------------------------------
(* A page of trades.                                                       *)

LEMMA TradesPage ==
  ASSUME RInv, phase = "page", req.kind = "trades",
         NEW p, p = AnswerTo(cursor, req.end, Limit)
  PROVE  /\ p \subseteq Trades /\ Page(p) = p /\ (repeats = 0 => p \cap out = {})
         /\ \A i \in p : cursor <= i.time /\ InRange(i.time, req.start, req.end)
         /\ Cardinality(p) < Limit \/ p = {} => \A k \in Nat : TradesBefore(out \cup p, k)
         /\ \A x \in p : TradesBefore(out \cup p, x.time + 1)
<1> USE DEF RInv
<1> DEFINE asked == {i \in Available : InRange(i.time, cursor, req.end)}
<1>0. /\ req # Nil /\ now \in Nat /\ cursor \in Nat /\ Limit \in Nat \ {0} /\ began \in Nat
      /\ began <= now /\ req.start \in Nat /\ req.end \in Nat /\ req.start <= cursor /\ Nil \notin Nat
  BY LimitFacts, ReqFacts, Assumed DEF PhaseInv, PTypeOK
<1>1. asked \in SUBSET Item /\ IsFiniteSet(asked)
  BY AskedFacts
<1>2. p = Oldest(Limit, asked) /\ p \in SUBSET asked
  BY <1>0 DEF AnswerTo, Oldest
<1>3. asked = {d \in Trades : d.time <= now /\ InRange(d.time, cursor, req.end)}
  BY DEF Available
<1>4. \A i \in asked : i.time \in Nat /\ cursor <= i.time /\ i.time < req.end
  BY <1>0, <1>1, <1>3 DEF InRange, Item
<1>5. Page(p) = p
  BY <1>0, <1>2, <1>4 DEF Page, Kept, InRange
<1>6. repeats = 0 => p \cap out = {}
  <2> SUFFICES ASSUME repeats = 0, NEW i \in p, i \in out PROVE FALSE
    OBVIOUS
  <2>1. i.time < cursor
    BY DEF TradesInv
  <2> QED BY <1>0, <1>2, <1>4, <2>1
<1>7. \A d \in Trades : d.time \in Nat
  BY PagingAssumption DEF Item
<1>8. ASSUME NEW d \in Trades, InRange(d.time, req.start, req.end), d.time <= began
      PROVE  d \in asked \/ d \in out \/ \E e \in out : e.time = d.time
  <2>1. CASE d.time < cursor
    BY <1>8, <2>1 DEF TradesInv, TradesBefore
  <2>2. CASE ~(d.time < cursor)
    BY <1>0, <1>3, <1>7, <1>8, <2>2 DEF InRange
  <2> QED BY <2>1, <2>2
<1>9. ASSUME Cardinality(p) < Limit \/ p = {}, NEW k \in Nat PROVE TradesBefore(out \cup p, k)
  <2>1. p = asked
    BY <1>0, <1>1, <1>2, <1>9, ShortIsAll, OldestExists
  <2> QED BY <1>8, <2>1 DEF TradesBefore
<1>10. ASSUME NEW x \in p PROVE TradesBefore(out \cup p, x.time + 1)
  <2> SUFFICES ASSUME NEW d \in asked, d.time <= began, d.time < x.time + 1
               PROVE  d \in p \/ d.time = x.time
    BY <1>8 DEF TradesBefore
  <2>1. x \in asked /\ x \in Item /\ d \in Item /\ x.time \in Nat /\ d.time \in Nat
    BY <1>1, <1>2, <1>4
  <2>2. CASE d.time < x.time
    <3>1. Earlier(d, x)
      BY <2>2 DEF Earlier
    <3> QED BY <1>0, <1>1, <1>2, <3>1, OldestIsClosed
  <2> QED BY <2>1, <2>2
<1>11. \A i \in p : InRange(i.time, req.start, req.end)
  BY <1>5 DEF Page
<1> QED BY <1>2, <1>3, <1>4, <1>5, <1>6, <1>9, <1>10, <1>11

(* A fetch that has enough trades has those before its end, or max_trades  *)
(* of them, counting those that were repeated.                             *)
LEMMA TradesEnough ==
  ASSUME PTypeOK, PTypeOK', req # Nil, req.kind = "trades", NEW c \in Nat, Enough(c),
         NEW o, TradesBefore(o, c), repeats' = 0 => len' = Cardinality(o)
  PROVE  TradesDone(o, repeats', len')
<1>1. req.end \in Nat /\ Nil \notin Nat
  BY ReqFacts, Assumed
<1>2. CASE c >= req.end
  <2> SUFFICES ASSUME NEW d \in Trades \ o, InRange(d.time, req.start, req.end), d.time <= began
               PROVE  \E e \in o : e.time = d.time
    BY DEF TradesDone
  <2>1. d.time \in Nat /\ d.time < req.end
    BY <1>1, PagingAssumption DEF Item, InRange
  <2>2. d.time < c
    BY <1>1, <1>2, <2>1
  <2> QED BY <2>2 DEF TradesBefore
<1>3. CASE req.max # Nil /\ len' >= req.max
  <2>1. repeats' = 0 \/ repeats' > 0
    BY DEF PTypeOK
  <2> QED BY <1>3, <2>1 DEF TradesDone
<1> QED BY <1>2, <1>3 DEF Enough

(* What goes on after a full page of trades, a new one or a repeated one.  *)
LEMMA TradesGoOn ==
  ASSUME RInv, PTypeOK', phase = "page", req.kind = "trades",
         NEW p \in SUBSET Trades, p # {}, Cardinality(p) >= Limit,
         \A i \in p : InRange(i.time, req.start, req.end), Page(p) = p,
         NEW c \in Nat, \E x \in p : c = x.time + 1, \A i \in p : i.time < c,
         TradesBefore(out \cup p, c),
         repeats' = 0 => /\ len' = Cardinality(out') /\ \A i \in out : i.time < c,
         Take(p), ~Enough(c), cursor' = c,
         UNCHANGED <<now, phase, req, server_time, outcome>>
  PROVE  RInv'
<1> USE DEF RInv
<1>1. /\ now' = now /\ phase' = phase /\ req' = req /\ server_time' = server_time
      /\ outcome' = outcome /\ req # Nil /\ outcome = Nil
      /\ out' = out \cup p /\ payload' = p /\ began' = began
      /\ len' = IF req.max = Nil THEN Cardinality(out') ELSE len + Cardinality(p)
  BY DEF Take, PhaseInv
<1>2. /\ Nil \notin Nat /\ req.start \in Nat /\ req.end \in Nat
      /\ req.max \in (Nat \ {0}) \cup {Nil} /\ Limit \in Nat \ {0}
      /\ len \in Nat /\ len' \in Nat
  BY <1>1, ReqFacts, LimitFacts, Assumed DEF PTypeOK, PhaseInv
<1>3. Cardinality(p) \in Nat
  <2>1. p \in SUBSET Items
    BY DEF Items
  <2> QED BY <2>1, PageFacts
<1>4. BarsInv'
  BY <1>1 DEF BarsInv
<1>5. req.max # Nil => len <= len' /\ len < req.max /\ len' < req.max
  BY <1>1, <1>2, <1>3 DEF Enough, PhaseInv
<1>6. PhaseInv'
  <2>1. PICK x \in p : c = x.time + 1
    OBVIOUS
  <2>2. x.time \in Nat /\ req.start <= x.time
    BY <1>2, PagingAssumption DEF Item, InRange
  <2>3. req.start <= c /\ c # Nil
    BY <1>2, <2>1, <2>2
  <2> QED BY <1>1, <1>5, <2>3 DEF PhaseInv
<1>7. TradesInv'
  <2>1. (Cardinality(p) >= Limit)'
    <3>1. Limit' <= Limit /\ Limit' \in Nat
      BY <1>1, <1>2, <1>5, LimitShrinks
    <3> QED BY <1>2, <1>3, <3>1
  <2>2. TradesBefore(out, cursor)'
    BY <1>1 DEF TradesBefore, InRange
  <2>3. out' \subseteq Trades
    BY <1>1 DEF TradesInv
  <2>4. repeats' = 0 => \A i \in out' : i.time < c
    BY <1>1
  <2> QED BY <1>1, <2>1, <2>2, <2>3, <2>4 DEF TradesInv, InRange
<1> QED BY <1>1, <1>4, <1>6, <1>7, NoOutcome

LEMMA ReadTradesInv ==
  ASSUME RInv, ReadPage, req.kind = "trades"
  PROVE  RInv'
<1> USE DEF RInv
<1>1. /\ phase = "page" /\ repeats' = repeats /\ phase # "idle" /\ req # Nil
      /\ Take(AnswerTo(cursor, req.end, Limit))
  BY DEF ReadPage, PhaseInv
<1>2. PICK p : p = AnswerTo(cursor, req.end, Limit)
  OBVIOUS
<1>3. /\ Take(p) /\ p \in SUBSET Items /\ \A i \in p : i.time <= now
  BY <1>1, <1>2, AnswerFacts
<1>4. /\ p \subseteq Trades /\ Page(p) = p /\ (repeats = 0 => p \cap out = {})
      /\ \A i \in p : cursor <= i.time /\ InRange(i.time, req.start, req.end)
      /\ Cardinality(p) < Limit \/ p = {} => \A k \in Nat : TradesBefore(out \cup p, k)
      /\ \A x \in p : TradesBefore(out \cup p, x.time + 1)
  BY <1>1, <1>2, TradesPage
<1>5. /\ now \in Nat /\ cursor \in Nat /\ Nil \notin Nat /\ req.start \in Nat
      /\ req.end \in Nat /\ req.start <= cursor /\ p \in SUBSET Item
      /\ req.max \in (Nat \ {0}) \cup {Nil}
  BY <1>1, <1>3, ReqFacts, Assumed, ItemsFinite DEF PTypeOK, PhaseInv
<1>6. out' = out \cup p /\ payload' = p /\ began' = began
  BY <1>3, <1>4 DEF Take
<1>7. PTypeOK'
  <2>1. repeats' \in 0..2
    BY <1>1 DEF PTypeOK
  <2> QED BY <1>3, <1>4, <1>5, <2>1, TakeType
<1>8. repeats = 0 => len' = Cardinality(out') /\ len' \in Nat
  BY <1>1, <1>3, <1>4, Grows DEF PhaseInv
<1>9. PICK c : c = NextCursor(p)
  OBVIOUS
<1>10. p # {} => /\ c \in Nat /\ (\A i \in p : i.time < c)
                 /\ \E x \in p : c = x.time + 1
  BY <1>1, <1>3, <1>5, <1>9, CursorFacts
<1>11. p # {} => TradesBefore(out', c)
  BY <1>4, <1>6, <1>10
<1>12. ASSUME NEW o, o = out', Ended("ok", o), TradesDone(o, repeats', len') PROVE RInv'
  <2>1. Final(o) = o
    BY <1>1, <1>12 DEF ReadPage, Final
  <2> QED BY <1>1, <1>6, <1>7, <1>12, <2>1, EndsWell
<1>13. CASE (p = {} \/ ShortPage(p, p)) /\ Ended("ok", out')
  <2>1. Cardinality(p) < Limit \/ p = {}
    BY <1>13 DEF ShortPage
  <2>2. PICK o : o = out'
    OBVIOUS
  <2>3. TradesDone(o, repeats', len')
    <3> SUFFICES ASSUME NEW d \in Trades \ o, InRange(d.time, req.start, req.end), d.time <= began
                 PROVE  \E e \in o : e.time = d.time
      BY DEF TradesDone
    <3>1. d.time \in Nat
      BY PagingAssumption DEF Item
    <3>2. PICK k \in Nat : d.time < k
      <4>1. d.time + 1 \in Nat /\ d.time < d.time + 1
        BY <3>1
      <4> QED BY <4>1
    <3>3. TradesBefore(out \cup p, k)
      BY <1>4, <2>1, <3>2
    <3>4. o = out \cup p
      BY <1>6, <2>2
    <3> QED BY <3>2, <3>3, <3>4 DEF TradesBefore
  <2>4. Ended("ok", o)
    BY <1>13, <2>2
  <2> HIDE DEF RInv
  <2> QED BY <1>12, <2>2, <2>3, <2>4
<1>14. CASE p # {} /\ Enough(c) /\ Ended("ok", out')
  <2>1. PICK o : o = out'
    OBVIOUS
  <2>2. repeats' = 0 => len' = Cardinality(o)
    BY <1>1, <1>8, <2>1
  <2>3. TradesDone(o, repeats', len')
    BY <1>1, <1>7, <1>10, <1>11, <1>14, <2>1, <2>2, TradesEnough
  <2>4. Ended("ok", o)
    BY <1>14, <2>1
  <2> HIDE DEF RInv
  <2> QED BY <1>12, <2>1, <2>3, <2>4
<1>15. CASE /\ p # {} /\ ~ShortPage(p, p) /\ ~Enough(c) /\ cursor' = c
            /\ UNCHANGED <<now, phase, req, server_time, outcome>>
  <2>1. Cardinality(p) >= Limit
    <3>1. Limit \in Nat /\ Cardinality(p) \in Nat
      BY <1>1, <1>3, LimitFacts, PageFacts DEF PhaseInv
    <3> QED BY <1>15, <3>1 DEF ShortPage
  <2>2. repeats' = 0 => len' = Cardinality(out') /\ \A i \in out : i.time < c
    <3> SUFFICES ASSUME repeats' = 0, NEW i \in out PROVE i.time < c
      BY <1>1, <1>8
    <3>1. i.time < cursor /\ i.time \in Nat
      BY <1>1, PagingAssumption DEF TradesInv, Item
    <3>2. PICK x \in p : c = x.time + 1
      BY <1>10, <1>15
    <3>3. cursor <= x.time /\ x.time \in Nat
      BY <1>4, <1>5 DEF Item
    <3> QED BY <1>5, <3>1, <3>2, <3>3
  <2>3. TradesBefore(out \cup p, c)
    BY <1>6, <1>11, <1>15
  <2> HIDE DEF RInv
  <2> QED BY <1>1, <1>3, <1>4, <1>7, <1>10, <1>15, <2>1, <2>2, <2>3, TradesGoOn
<1>16. ~Stalled(c)
  BY DEF Stalled
<1> QED BY <1>3, <1>4, <1>9, <1>13, <1>14, <1>15, <1>16, TakeCases

----------------------------------------------------------------------------
(* A repeated page.                                                        *)

(* The trades of a repeated page lie before the cursor, and so does the    *)
(* place the fetch goes on from.                                           *)
LEMMA RepeatTradesInv ==
  ASSUME RInv, RepeatPage, req.kind = "trades"
  PROVE  RInv'
<1> USE DEF RInv
<1>1. /\ phase = "page" /\ phase # "idle" /\ payload # {} /\ req # Nil
      /\ Take(Oldest(Limit, payload)) /\ repeats' \in 1..2
  BY DEF RepeatPage, PhaseInv, PTypeOK
<1>2. PICK p : p = Oldest(Limit, payload)
  OBVIOUS
<1>3. /\ cursor \in Nat /\ Nil \notin Nat /\ Limit \in Nat \ {0} /\ req.end \in Nat
      /\ req.max \in (Nat \ {0}) \cup {Nil}
  BY <1>1, ReqFacts, Assumed, LimitFacts DEF PTypeOK, PhaseInv
<1>4. /\ payload \subseteq Trades /\ Cardinality(payload) >= Limit
      /\ \A i \in payload : InRange(i.time, req.start, req.end) /\ i.time < cursor
  BY <1>1 DEF TradesInv
<1>5. payload \in SUBSET Items /\ payload \in SUBSET Item /\ IsFiniteSet(payload)
  <2>1. payload \in SUBSET Items
    BY <1>4 DEF Items
  <2> QED BY <2>1, ItemsFinite, FS_Subset
<1>6. p \in SUBSET payload /\ p \in SUBSET Items /\ p \in SUBSET Item /\ p \in SUBSET Trades
      /\ p # {} /\ IsFiniteSet(p)
  BY <1>1, <1>2, <1>3, <1>4, <1>5, OldestExists, FS_Subset DEF Oldest
<1>7. Cardinality(p) >= Limit
  <2>1. Cardinality(p) \in Nat /\ Cardinality(payload) \in Nat
    BY <1>5, <1>6, FS_CardinalityType
  <2>2. ~(Cardinality(p) < Limit)
    BY <1>2, <1>3, <1>4, <1>5, <2>1, ShortIsAll
  <2> QED BY <1>3, <2>1, <2>2
<1>8. Page(p) = p /\ \A i \in p : i.time \in Nat /\ i.time < cursor
                                /\ InRange(i.time, req.start, req.end)
  BY <1>4, <1>6 DEF Page, Kept, Item
<1>9. ~ShortPage(p, p)
  <2>1. Cardinality(p) \in Nat
    BY <1>6, FS_CardinalityType
  <2> QED BY <1>3, <1>7, <2>1 DEF ShortPage
<1>10. Take(p) /\ out' = out \cup p /\ began' = began
  BY <1>1, <1>2, <1>8 DEF Take
<1>11. PTypeOK'
  <2>1. \A i \in Page(p) : i.time <= cursor
    BY <1>3, <1>8
  <2>2. repeats' \in 0..2
    BY <1>1
  <2> QED BY <1>3, <1>6, <1>10, <2>1, <2>2, TakeType
<1>12. PICK c : c = NextCursor(p)
  OBVIOUS
<1>13. c \in Nat /\ (\A i \in p : i.time < c) /\ \E x \in p : c = x.time + 1
  <2>1. \A i \in p : i.time <= cursor
    BY <1>3, <1>8
  <2> QED BY <1>3, <1>6, <1>12, <2>1, CursorFacts
<1>14. c <= cursor
  BY <1>3, <1>8, <1>13
<1>15. TradesBefore(out \cup p, c)
  <2> SUFFICES ASSUME NEW d \in Trades, InRange(d.time, req.start, req.end), d.time <= began,
                      d.time < c
               PROVE  d \in out \/ \E e \in out : e.time = d.time
    BY DEF TradesBefore
  <2>1. d.time \in Nat
    BY PagingAssumption DEF Item
  <2>2. d.time < cursor
    BY <1>3, <1>13, <1>14, <2>1
  <2> QED BY <1>1, <2>2 DEF TradesInv, TradesBefore
<1>16. repeats' > 0 /\ repeats' # 0
  BY <1>1
<1>17. CASE Enough(c) /\ Ended("ok", out')
  <2>1. PICK o : o = out'
    OBVIOUS
  <2>2. TradesBefore(o, c)
    BY <1>10, <1>15, <2>1
  <2>3. TradesDone(o, repeats', len')
    BY <1>1, <1>11, <1>13, <1>16, <1>17, <2>2, TradesEnough
  <2>4. Ended("ok", o) /\ Final(o) = o
    BY <1>17, <2>1 DEF Final
  <2> QED BY <1>1, <1>10, <1>11, <2>3, <2>4, EndsWell
<1>18. CASE /\ ~Enough(c) /\ cursor' = c
            /\ UNCHANGED <<now, phase, req, server_time, outcome>>
  <2> HIDE DEF RInv
  <2> QED BY <1>1, <1>6, <1>7, <1>8, <1>10, <1>11, <1>13, <1>15, <1>16, <1>18, TradesGoOn
<1>19. ~Stalled(c)
  BY DEF Stalled
<1> QED BY <1>6, <1>8, <1>9, <1>10, <1>12, <1>17, <1>18, <1>19, TakeCases

(* A repeated page of candles brings nothing past the cursor, is not short *)
(* and not empty: it can only end the fetch.                               *)
LEMMA RepeatBarsInv ==
  ASSUME RInv, RepeatPage, req.kind = "bars"
  PROVE  RInv'
<1> USE DEF RInv
<1>1. /\ phase = "page" /\ phase # "idle" /\ req.kind = "bars" /\ payload # {}
      /\ Take(Oldest(Limit, payload)) /\ req # Nil /\ repeats' \in 1..2
  BY DEF RepeatPage, PhaseInv, PTypeOK
<1>2. PICK p : p = Oldest(Limit, payload)
  OBVIOUS
<1>3. PICK page : page = Page(p)
  OBVIOUS
<1>4. PICK c : c = NextCursor(page)
  OBVIOUS
<1>5. /\ now \in Nat /\ server_time \in Nat /\ cursor \in Nat /\ Nil \notin Nat
      /\ Step \in Nat \ {0} /\ Limit \in Nat \ {0}
  BY <1>1, ReqFacts, Assumed, LimitFacts DEF PTypeOK, PhaseInv, BarsInv
<1>6. /\ payload \in SUBSET Items /\ payload \in SUBSET Item /\ IsFiniteSet(payload)
      /\ \A i \in payload : i.time \in Nat /\ i = Candle(i.time)
  <2>1. payload \in SUBSET Items /\ payload \subseteq {Candle(t) : t \in Candles}
    BY <1>1 DEF BarsInv, Items
  <2> QED BY <2>1, ItemsFinite, FS_Subset, CandleIsItem, Assumed
<1>7. p \in SUBSET payload /\ p \in SUBSET Items /\ p # {}
  BY <1>1, <1>2, <1>5, <1>6, OldestExists DEF Oldest
<1>8. Cardinality(payload) >= Limit /\ Cardinality(payload) \in Nat /\ Cardinality(p) \in Nat
  <2>1. IsFiniteSet(p)
    BY <1>6, <1>7, FS_Subset
  <2> QED BY <1>1, <1>6, <2>1, FS_CardinalityType DEF BarsInv
<1>9. ~ShortPage(p, page)
  <2>1. ~(Cardinality(p) < Limit)
    BY <1>2, <1>5, <1>6, <1>8, ShortIsAll
  <2> QED BY <1>1, <2>1 DEF ShortPage
<1>10. \A i \in page : i \in payload /\ i.time + Step <= cursor /\ i.time \in Nat
  <2>1. \A i \in page : i \in Page(payload)
    BY <1>3, <1>7 DEF Page
  <2> QED BY <1>1, <1>6, <2>1 DEF BarsInv, Page
<1>11. page # {}
  <2>1. PICK j \in p : TRUE
    BY <1>7
  <2>2. PICK x \in Page(payload) : TRUE
    BY <1>1 DEF BarsInv
  <2>3. x \in payload /\ Kept(x) /\ j \in payload
    BY <1>7, <2>2 DEF Page
  <2>4. ASSUME NEW i \in p, Kept(i) PROVE page # {}
    BY <1>1, <1>3, <1>7, <2>4 DEF Page, BarsInv
  <2>5. CASE x \in p
    BY <2>3, <2>4, <2>5
  <2>6. CASE x \notin p
    <3>1. ~Earlier(x, j)
      BY <1>2, <1>5, <1>6, <2>3, <2>6, OldestIsClosed
    <3>2. j.time <= x.time
      BY <1>6, <2>3, <3>1, EarlierFacts
    <3>3. Kept(j)
      BY <1>5, <1>6, <2>3, <3>2, FinalFacts DEF Kept
    <3> QED BY <2>4, <3>3
  <2> QED BY <2>5, <2>6
<1>12. c \in Nat /\ \E x \in page : c = x.time + Step
  <2>1. page \in SUBSET Item /\ \A i \in page : i.time <= cursor
    BY <1>5, <1>6, <1>10
  <2> QED BY <1>1, <1>4, <1>5, <1>11, <2>1, CursorFacts
<1>13. Stalled(c)
  BY <1>1, <1>5, <1>10, <1>12 DEF Stalled
<1>14. Take(p) /\ began' = began
  BY <1>1, <1>2 DEF Take
<1>15. Ended("MDPaginationStalled", {})
  BY <1>3, <1>4, <1>9, <1>11, <1>13, <1>14, TakeCases
<1>16. PTypeOK'
  <2>1. repeats' \in 0..2 /\ \A i \in Page(p) : i.time <= cursor
    BY <1>1, <1>3, <1>5, <1>10
  <2> QED BY <1>5, <1>7, <1>14, <2>1, TakeType
<1>17. repeats' > 0
  BY <1>1
<1> QED BY <1>1, <1>14, <1>15, <1>16, <1>17, EndsWell

----------------------------------------------------------------------------
(* The page of a public exchange.                                          *)

(* Beside candle x there is room for n - 1 others in n candles' time. *)
LEMMA Crowd ==
  ASSUME NEW S \in SUBSET {Candle(t) : t \in Candles}, NEW x \in S, NEW B \in SUBSET (S \ {x}),
         NEW lo \in Nat, NEW n \in Nat,
         \A y \in B \cup {x} : lo <= y.time /\ y.time - lo < n * Step
  PROVE  Cardinality(B) < n
<1>1. B \cup {x} \in SUBSET {Candle(t) : t \in Candles}
  OBVIOUS
<1>2. IsFiniteSet(B \cup {x}) /\ Cardinality(B \cup {x}) <= n
  BY <1>1, SpacedCount
<1>3. IsFiniteSet(B) /\ x \notin B
  BY <1>2, FS_Subset
<1>4. Cardinality(B \cup {x}) = Cardinality(B) + 1 /\ Cardinality(B) \in Nat
  BY <1>3, FS_AddElement, FS_CardinalityType
<1> QED BY <1>2, <1>4

LEMMA PublicPageIsDone ==
  ASSUME PTypeOK, PhaseInv, phase = "page", req.kind = "public",
         NEW p, p = AnswerTo(PublicRequest.lo, PublicRequest.hi, PublicRequest.limit)
  PROVE  PublicDone(PublicPage(p))
<1>0. /\ req # Nil /\ now \in Nat /\ began \in Nat /\ began <= now /\ Nil \notin Nat
      /\ req.start \in Nat /\ req.end \in Nat /\ req.shape \in Shapes
      /\ Step \in Nat \ {0} /\ Cap \in Nat \ {0}
  BY ReqFacts, Assumed DEF PhaseInv, PTypeOK
<1> DEFINE all == {Candle(t) : t \in {c \in Candles : c <= now}}
<1>1. Available = all
  BY <1>0, AskedCandles
<1> SUFFICES ASSUME req.end - req.start <= Cap * Step,
                    req.shape = "size" => \A t \in Candles : t <= now => t < req.end,
                    NEW c \in Candles, c <= began, InRange(c, req.start, req.end)
             PROVE  Candle(c) \in p
  <2>1. \A t \in Candles : Candle(t).time = t
    BY CandleIsItem, Assumed
  <2> QED BY <2>1 DEF PublicDone, PublicPage
<1>2. PICK x : x = Candle(c)
  OBVIOUS
<1>3. /\ c \in Nat /\ x.time = c /\ x \in all /\ req.start <= c /\ c < req.end
      /\ req.end - req.start \in Nat
  BY <1>0, <1>2, CandleIsItem, Assumed DEF InRange
<1>4. \A y \in all : y \in Item /\ y.time \in Candles /\ y.time \in Nat /\ y.time <= now
  BY CandleIsItem, Assumed
<1>5. x \in Item
  BY <1>3, <1>4
<1>6. ASSUME NEW n \in Nat, req.end - req.start <= n * Step, NEW B \in SUBSET (all \ {x}),
             \A y \in B : req.start <= y.time /\ y.time < req.end
      PROVE  Cardinality(B) < n
  <2>1. n * Step \in Nat
    BY <1>0
  <2>2. \A y \in B \cup {x} : req.start <= y.time /\ y.time - req.start < n * Step
    BY <1>0, <1>3, <1>4, <1>6, <2>1
  <2>3. all \in SUBSET {Candle(t) : t \in Candles}
    OBVIOUS
  <2> QED BY <1>0, <1>3, <2>2, <2>3, Crowd
<1>7. CASE req.shape \in {"range", "start"}
  <2>1. PICK hi : hi = PublicRequest.hi
    OBVIOUS
  <2> DEFINE asked == {i \in Available : InRange(i.time, req.start, hi)}
             B == {y \in asked : Earlier(y, x)}
  <2>2. p = Oldest(Cap, asked)
    BY <1>0, <1>7, <2>1 DEF PublicRequest, AnswerTo
  <2>3. x \in asked
    BY <1>0, <1>1, <1>3, <2>1 DEF PublicRequest, InRange
  <2>4. \A y \in B : y \in all \ {x} /\ req.start <= y.time /\ y.time <= x.time /\ y.time \in Nat
    BY <1>0, <1>1, <1>4, <1>5, EarlierFacts DEF InRange
  <2>5. B \in SUBSET (all \ {x}) /\ \A y \in B : req.start <= y.time /\ y.time < req.end
    BY <1>0, <1>3, <2>4
  <2>6. Cardinality(B) < Cap
    BY <1>0, <1>6, <2>5
  <2> QED BY <1>2, <2>2, <2>3, <2>6 DEF Oldest
<1>8. CASE req.shape \in {"end", "size"}
  <2>1. PICK hi : hi = PublicRequest.hi
    OBVIOUS
  <2>2. PICK n \in Nat : n = PublicRequest.limit /\ req.end - req.start <= n * Step
    <3>1. CASE req.shape = "end"
      BY <1>0, <3>1 DEF PublicRequest
    <3>2. CASE req.shape = "size"
      <4>1. PICK d \in Nat : d = req.end - req.start
        BY <1>3
      <4>2. PICK k \in Nat : k = (d + Step - 1) \div Step /\ d <= k * Step
        BY RangeFits
      <4>3. RequestedLimit = Smaller(Cap, k)
        BY <4>1, <4>2 DEF RequestedLimit
      <4>4. PublicRequest.limit = Smaller(Cap, k)
        BY <3>2, <4>3 DEF PublicRequest
      <4>5. Smaller(Cap, k) \in {Cap, k}
        BY DEF Smaller
      <4> QED BY <1>0, <4>1, <4>2, <4>4, <4>5
    <3> QED BY <1>8, <3>1, <3>2
  <2> DEFINE asked == {i \in Available : InRange(i.time, Nil, hi)}
             B == {y \in asked : Earlier(x, y)}
  <2>3. p = Newest(n, asked)
    BY <1>0, <1>8, <2>1, <2>2 DEF PublicRequest, AnswerTo
  <2>4. x \in asked
    BY <1>0, <1>1, <1>3, <1>8, <2>1 DEF PublicRequest, InRange
  <2>5. \A y \in asked : y.time < req.end
    <3>1. CASE req.shape = "end"
      BY <1>0, <1>1, <2>1, <3>1 DEF PublicRequest, InRange
    <3>2. CASE req.shape = "size"
      BY <1>1, <1>4, <3>2
    <3> QED BY <1>8, <3>1, <3>2
  <2>6. \A y \in B : y \in all \ {x} /\ x.time <= y.time /\ y.time \in Nat
    BY <1>1, <1>4, <1>5, EarlierFacts
  <2>7. B \in SUBSET (all \ {x}) /\ \A y \in B : req.start <= y.time /\ y.time < req.end
    BY <1>0, <1>3, <2>5, <2>6
  <2>8. Cardinality(B) < n
    BY <1>6, <2>2, <2>7
  <2> QED BY <1>2, <2>3, <2>4, <2>8 DEF Newest
<1> QED BY <1>0, <1>7, <1>8 DEF Shapes

LEMMA ReadPublicInv ==
  ASSUME RInv, ReadPublic
  PROVE  RInv'
<1> USE DEF RInv
<1>1. /\ phase = "page" /\ phase # "idle" /\ req.kind = "public" /\ req # Nil
      /\ repeats' = repeats /\ began' = began /\ Ended("ok", out')
      /\ payload' = AnswerTo(PublicRequest.lo, PublicRequest.hi, PublicRequest.limit)
      /\ out' = PublicPage(payload') /\ len' = Cardinality(out')
  BY DEF ReadPublic, PhaseInv
<1>2. PICK p : p = AnswerTo(PublicRequest.lo, PublicRequest.hi, PublicRequest.limit)
  OBVIOUS
<1>3. PICK o : o = PublicPage(p)
  OBVIOUS
<1>4. payload' = p /\ out' = o
  BY <1>1, <1>2, <1>3
<1>5. p \in SUBSET Items /\ o \in SUBSET Items
  BY <1>2, <1>3, AnswerFacts DEF PublicPage
<1>6. IsFiniteSet(o) /\ Cardinality(o) \in Nat
  BY <1>5, ItemsFinite, FS_Subset, FS_CardinalityType
<1>7. PTypeOK'
  <2>1. /\ phase' = "idle" /\ attempt' = 0 /\ now' = now /\ req' = req
        /\ server_time' = server_time /\ cursor' = cursor /\ outcome'.status = "ok"
    BY <1>1 DEF Ended
  <2>2. attempt' \in 0..MaxRetries
    BY <2>1, Assumed
  <2>3. out' \cup payload' \subseteq {Candle(t) : t \in Candles} \cup Trades
    BY <1>4, <1>5 DEF Items
  <2>4. len' \in Nat /\ len' >= Cardinality(out')
    BY <1>1, <1>4, <1>6
  <2> QED BY <1>1, <2>1, <2>2, <2>3, <2>4 DEF PTypeOK, Statuses
<1>8. Final(o) = o /\ PublicDone(o)
  BY <1>1, <1>2, <1>3, PublicPageIsDone DEF Final
<1>9. Ended("ok", o)
  BY <1>1, <1>4
<1> QED BY <1>1, <1>7, <1>8, <1>9, EndsWell

----------------------------------------------------------------------------
(* The other steps.                                                        *)

LEMMA InitInv == Init => RInv
<1> SUFFICES ASSUME Init PROVE RInv
  OBVIOUS
<1>1. PTypeOK
  <2>1. Cardinality({}) = 0
    BY FS_EmptySet
  <2> QED BY <2>1, Assumed DEF Init, PTypeOK
<1> QED BY <1>1 DEF Init, RInv, PhaseInv, BarsInv, TradesInv, Outcomes, BarsAreComplete,
                    StallsAreReal, OnlySplitMillisecondsLoseTrades, PublicPageIsEnough, Returned

LEMMA FetchInv ==
  ASSUME RInv, NEW r \in Requests, Fetch(r)
  PROVE  RInv'
<1> USE DEF RInv
<1>1. /\ req = Nil /\ req' = r /\ cursor' = r.start /\ began' = now
      /\ phase' = (IF r.kind = "bars" THEN "time" ELSE "page")
      /\ now' = now /\ attempt' = attempt /\ server_time' = server_time /\ out' = out
      /\ len' = len /\ payload' = payload /\ outcome' = outcome /\ repeats' = repeats
  BY DEF Fetch
<1>2. outcome = Nil /\ out = {} /\ payload = {} /\ len = 0 /\ Cardinality({}) = 0
  BY <1>1, FS_EmptySet DEF PhaseInv
<1>3. PTypeOK'
  <2>1. r \in Request /\ now \in Nat
    BY Assumed DEF PTypeOK
  <2>2. cursor' \in Nat \cup {Nil} /\ began' \in Nat
    BY <1>1, <2>1 DEF Request
  <2> QED BY <1>1, <2>2 DEF PTypeOK
<1>4. /\ req' # Nil /\ r.start \in Nat \cup {Nil} /\ Nil \notin Nat
      /\ r.max \in (Nat \ {0}) \cup {Nil} /\ now \in Nat
  BY <1>1, Assumed DEF Request, PTypeOK
<1>5. PhaseInv'
  BY <1>1, <1>2, <1>4 DEF PhaseInv
<1>6. BarsInv'
  BY <1>1 DEF BarsInv
<1>7. TradesInv'
  <2> SUFFICES ASSUME r.kind = "trades" PROVE TradesInv'
    BY <1>1 DEF TradesInv
  <2>1. r.start \in Nat
    BY <1>4, PagingAssumption
  <2>2. \A d \in Trades : d.time \in Nat
    BY PagingAssumption DEF Item
  <2>3. \A d \in Trades : InRange(d.time, r.start, r.end) => ~(d.time < r.start)
    BY <1>4, <2>1, <2>2 DEF InRange
  <2>4. TradesBefore(out, cursor)'
    BY <1>1, <2>3 DEF TradesBefore
  <2> QED BY <1>1, <1>2, <2>4 DEF TradesInv
<1> QED BY <1>1, <1>2, <1>3, <1>5, <1>6, <1>7, NoOutcome

LEMMA ReadServerTimeInv ==
  ASSUME RInv, ReadServerTime
  PROVE  RInv'
<1> USE DEF RInv
<1>1. /\ phase = "time" /\ phase' = "page" /\ server_time' = now /\ attempt' = 0
      /\ now' = now /\ req' = req /\ cursor' = cursor /\ out' = out /\ len' = len
      /\ payload' = payload /\ outcome' = outcome /\ repeats' = repeats /\ began' = began
  BY DEF ReadServerTime
<1>2. /\ req # Nil /\ outcome = Nil /\ req.kind = "bars" /\ out = {} /\ payload = {}
      /\ len = 0 /\ cursor = req.start /\ began <= now /\ began \in Nat /\ Cardinality({}) = 0
  BY <1>1, FS_EmptySet DEF PhaseInv
<1>3. /\ req.start \in Nat \cup {Nil} /\ req.max \in (Nat \ {0}) \cup {Nil} /\ Nil \notin Nat
      /\ now \in Nat
  BY <1>2, ReqFacts, Assumed DEF PTypeOK
<1>4. PTypeOK'
  BY <1>1, <1>3, Assumed DEF PTypeOK
<1>5. PhaseInv'
  BY <1>1, <1>2, <1>3 DEF PhaseInv
<1>6. BarsInv'
  <2>1. Wanted(out)'
    BY <1>1, <1>2 DEF Wanted
  <2>2. cursor # Nil => CoversBefore(out, cursor)'
    <3> SUFFICES ASSUME cursor # Nil, NEW c \in Candles, Reached(c, out)', c < cursor
                 PROVE  FALSE
      BY <1>1 DEF CoversBefore
    <3>1. c \in Nat /\ req.start \in Nat /\ req.start <= c
      BY <1>1, <1>2, <1>3, Assumed DEF Reached
    <3> QED BY <1>2, <3>1
  <2> QED BY <1>1, <1>2, <2>1, <2>2 DEF BarsInv
<1>7. TradesInv'
  BY <1>1, <1>2 DEF TradesInv
<1> QED BY <1>1, <1>2, <1>4, <1>5, <1>6, <1>7, NoOutcome

(* A request that fails for good ends the fetch with an error. *)
LEMMA FailsWell ==
  ASSUME RInv, phase # "idle",
         NEW st \in {"MDNetworkUnavailable", "MDInvalidExchangeResponse", "ValueError"},
         Ended(st, {}), UNCHANGED <<out, len, payload, repeats, began>>
  PROVE  RInv'
<1>1. PTypeOK'
  BY Assumed DEF RInv, PTypeOK, Ended, Statuses
<1> QED BY <1>1, EndsWell

LEMMA FailedAttemptInv ==
  ASSUME RInv, FailedAttempt
  PROVE  RInv'
<1>1. CASE GiveUp /\ Ended("MDNetworkUnavailable", {})
  <2>1. phase # "idle" /\ UNCHANGED <<out, len, payload, repeats, began>>
    BY DEF FailedAttempt
  <2> QED BY <1>1, <2>1, FailsWell
<1>2. CASE /\ ~GiveUp /\ attempt' = attempt + 1
           /\ UNCHANGED <<now, phase, req, server_time, cursor, outcome>>
  <2>1. /\ now' = now /\ phase' = phase /\ req' = req /\ server_time' = server_time
        /\ cursor' = cursor /\ outcome' = outcome /\ out' = out /\ len' = len
        /\ payload' = payload /\ repeats' = repeats /\ began' = began
    BY <1>2 DEF FailedAttempt
  <2>2. PTypeOK'
    <3>1. attempt' \in 0..MaxRetries
      BY <1>2, Assumed DEF RInv, PTypeOK, GiveUp
    <3> QED BY <2>1, <3>1 DEF RInv, PTypeOK
  <2>3. outcome' = Nil
    BY <2>1 DEF RInv, PhaseInv, FailedAttempt
  <2>4. PhaseInv'
    BY <2>1 DEF RInv, PhaseInv
  <2>5. BarsInv'
    BY <2>1 DEF RInv, BarsInv, Wanted, Kept, IsFinal, CoversBefore, Reached, Page, Limit, PerPage
  <2>6. TradesInv'
    BY <2>1 DEF RInv, TradesInv, TradesBefore, InRange, Limit, PerPage, Smaller
  <2> QED BY <2>2, <2>3, <2>4, <2>5, <2>6, NoOutcome DEF RInv
<1> QED BY <1>1, <1>2 DEF FailedAttempt

LEMMA BadAnswerInv ==
  ASSUME RInv, BadAnswer
  PROVE  RInv'
<1>1. phase # "idle" /\ UNCHANGED <<out, len, payload, repeats, began>>
  BY DEF BadAnswer
<1>2. PICK st \in {"MDInvalidExchangeResponse", "ValueError"} : Ended(st, {})
  BY DEF BadAnswer
<1> QED BY <1>1, <1>2, FailsWell

(* The exchange's clock. *)
LEMMA TickInv ==
  ASSUME RInv, now' \in 0..LastNow, now' >= now,
         UNCHANGED <<phase, req, attempt, server_time, cursor, out, len, payload,
                     outcome, repeats, began>>
  PROVE  RInv'
<1>1. /\ phase' = phase /\ req' = req /\ server_time' = server_time /\ attempt' = attempt
      /\ cursor' = cursor /\ outcome' = outcome /\ out' = out /\ len' = len
      /\ payload' = payload /\ repeats' = repeats /\ began' = began
  OBVIOUS
<1>2. now \in Nat /\ now' \in Nat /\ now <= now'
  BY Assumed DEF RInv, PTypeOK
<1>3. PTypeOK'
  BY <1>1 DEF RInv, PTypeOK
<1>4. PhaseInv'
  <2>1. req # Nil => began <= now'
    BY <1>2 DEF RInv, PhaseInv
  <2>2. phase = "page" /\ req.kind = "bars" => server_time \in Nat /\ server_time <= now'
    BY <1>2 DEF RInv, PhaseInv
  <2> QED BY <1>1, <2>1, <2>2 DEF RInv, PhaseInv
<1>5. BarsInv'
  BY <1>1 DEF RInv, BarsInv, Wanted, Kept, IsFinal, CoversBefore, Reached, Page, Limit, PerPage
<1>6. TradesInv'
  BY <1>1 DEF RInv, TradesInv, TradesBefore, InRange, Limit, PerPage, Smaller
<1>7. BarsAreComplete' /\ StallsAreReal' /\ OnlySplitMillisecondsLoseTrades'
  <2>1. BarsAreComplete'
    BY <1>1 DEF RInv, Outcomes, BarsAreComplete, IsFinal, Returned
  <2>2. StallsAreReal'
    BY <1>1 DEF RInv, Outcomes, StallsAreReal
  <2>3. OnlySplitMillisecondsLoseTrades'
    BY <1>1 DEF RInv, Outcomes, OnlySplitMillisecondsLoseTrades, Returned
  <2> QED BY <2>1, <2>2, <2>3
<1>8. PublicPageIsEnough'
  <2>1. (\A t \in Candles : t <= now' => t < req.end) => (\A t \in Candles : t <= now => t < req.end)
    BY <1>2, Assumed
  <2> QED BY <1>1, <2>1 DEF RInv, Outcomes, PublicPageIsEnough, Returned
<1> QED BY <1>3, <1>4, <1>5, <1>6, <1>7, <1>8 DEF RInv, Outcomes

LEMMA NextInv == RInv /\ [Next]_vars => RInv'
<1> SUFFICES ASSUME RInv, [Next]_vars PROVE RInv'
  OBVIOUS
<1>1. ASSUME NEW r \in Requests, Fetch(r) PROVE RInv'
  BY <1>1, FetchInv
<1>2. CASE ReadServerTime
  BY <1>2, ReadServerTimeInv
<1>3. ASSUME ReadPage \/ RepeatPage PROVE req.kind \in {"bars", "trades"}
  <2>1. req # Nil /\ req.kind # "public"
    BY <1>3 DEF ReadPage, RepeatPage, RInv, PhaseInv
  <2>2. req.kind \in Kinds
    BY <2>1, ReqFacts DEF RInv
  <2> QED BY <2>1, <2>2 DEF Kinds
<1>4. CASE ReadPage \/ RepeatPage
  BY <1>3, <1>4, ReadBarsInv, ReadTradesInv, RepeatBarsInv, RepeatTradesInv
<1>5. CASE ReadPublic
  BY <1>5, ReadPublicInv
<1>6. CASE FailedAttempt
  BY <1>6, FailedAttemptInv
<1>7. CASE BadAnswer
  BY <1>7, BadAnswerInv
<1>8. CASE Tick
  <2>1. now' \in 0..LastNow /\ now' >= now
    BY <1>8, Assumed DEF Tick, RInv, PTypeOK
  <2> QED BY <1>8, <2>1, TickInv DEF Tick
<1>9. CASE UNCHANGED vars
  <2>1. now' \in 0..LastNow /\ now' >= now
    BY <1>9 DEF vars, RInv, PTypeOK
  <2> QED BY <1>9, <2>1, TickInv DEF vars
<1> QED BY <1>1, <1>2, <1>3, <1>4, <1>5, <1>6, <1>7, <1>8, <1>9 DEF Next

----------------------------------------------------------------------------
(* The theorems.                                                           *)

(* The inductive invariant of one fetch: what the loop of                  *)
(* binance_get_bars_sync, bybit_get_bars_sync and                          *)
(* binance_get_agg_trades_sync keeps true from page to page.               *)
THEOREM PagingInvariance == Spec => []RInv
BY InitInv, NextInv, PTL DEF Spec

(* No request is tried more than max_retries + 1 times, and the list the   *)
(* pages are collected in holds only what the exchange has.                *)
THEOREM PagingTypes == Spec => []PTypeOK
<1>1. RInv => PTypeOK
  BY DEF RInv
<1> QED BY <1>1, PagingInvariance, PTL

(* The candles binance_get_bars_sync and bybit_get_bars_sync return are    *)
(* those of the range that were over at the server's time, or the first    *)
(* max_bars of them, for every page size, range and pace of the exchange.  *)
THEOREM BarsStayComplete == Spec => []BarsAreComplete
<1>1. RInv => BarsAreComplete
  BY DEF RInv, Outcomes
<1> QED BY <1>1, PagingInvariance, PTL

(* MDPaginationStalled is raised after a repeated page only: the cursor of *)
(* a fetch of candles moves on with every page the exchange itself answers.                   *)
THEOREM StallsStayReal == Spec => []StallsAreReal
<1>1. RInv => StallsAreReal
  BY DEF RInv, Outcomes
<1> QED BY <1>1, PagingInvariance, PTL

(* binance_get_agg_trades_sync loses no trade of the range but those of    *)
(* the millisecond a full page ended in, and those past max_trades, among  *)
(* which the trades of a repeated page count again.                        *)
THEOREM OnlySplitMillisecondsAreLost == Spec => []OnlySplitMillisecondsLoseTrades
<1>1. RInv => OnlySplitMillisecondsLoseTrades
  BY DEF RInv, Outcomes
<1> QED BY <1>1, PagingInvariance, PTL

(* The one page public_market_get_bars_sync asks for holds the range, if   *)
(* the range is no longer than a page.                                     *)
THEOREM PublicPagesSuffice == Spec => []PublicPageIsEnough
<1>1. RInv => PublicPageIsEnough
  BY DEF RInv, Outcomes
<1> QED BY <1>1, PagingInvariance, PTL

=============================================================================
