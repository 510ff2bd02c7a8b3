---------------------------- MODULE StockProofs ------------------------------
(***************************************************************************)
(* What is true of the stock whatever postings run together: the balances  *)
(* are what the ledger adds up to, and what was planned stays there.       *)
(* Quantities are counted in units, so that a sum is the cardinality of a  *)
(* set.                                                                    *)
(***************************************************************************)
EXTENDS StockLedger, FiniteSetTheorems, TLAPS

Movement == [entry : Posts, line : Nat, row : Rows, qty : Int]
Size(m) == IF m.qty < 0 THEN -m.qty ELSE m.qty

(***************************************************************************)
(* Counting units.                                                         *)
(***************************************************************************)
LEMMA Pile ==
    ASSUME NEW x, NEW n \in Nat
    PROVE  IsFiniteSet({x} \X (1..n)) /\ Cardinality({x} \X (1..n)) = n
<1>1. IsFiniteSet({x}) /\ Cardinality({x}) = 1
  BY FS_Singleton
<1>2. IsFiniteSet(1..n) /\ Cardinality(1..n) = n
  <2>1. IsFiniteSet(1..n) /\ Cardinality(1..n) = IF 1 > n THEN 0 ELSE n - 1 + 1
    BY FS_Interval
  <2> QED
    BY <2>1
<1>3. IsFiniteSet({x} \X (1..n)) /\ Cardinality({x} \X (1..n)) = Cardinality({x}) * Cardinality(1..n)
  BY <1>1, <1>2, FS_Product
<1> QED
  BY <1>1, <1>2, <1>3

LEMMA SizeNat ==
    ASSUME NEW m \in Movement
    PROVE  Size(m) \in Nat
<1>1. m.qty \in Int
  BY DEF Movement
<1> QED
  BY <1>1 DEF Size

LEMMA InUnits ==
    ASSUME NEW ms
    PROVE  \A u : u \in Units(ms) <=> \E m \in ms : u \in {m} \X (1..Size(m))
<1> QED
  BY DEF Units, Size

LEMMA UnitsFinite ==
    ASSUME NEW ms \in SUBSET Movement, IsFiniteSet(ms)
    PROVE  IsFiniteSet(Units(ms)) /\ Cardinality(Units(ms)) \in Nat
<1> DEFINE pile == [m \in ms |-> {m} \X (1..Size(m))]
           piles == {pile[m] : m \in ms}
<1>1. pile \in Surjection(ms, piles)
  BY DEF Surjection
<1>2. IsFiniteSet(piles)
  <2> HIDE DEF pile
  <2> HIDE DEF piles
  <2> QED
    BY <1>1, FS_Surjection
<1>3. \A t \in piles : IsFiniteSet(t)
  <2> SUFFICES ASSUME NEW m \in ms PROVE IsFiniteSet(pile[m])
    OBVIOUS
  <2>1. Size(m) \in Nat
    BY SizeNat
  <2> QED
    BY <2>1, Pile
<1>4. IsFiniteSet(UNION piles)
  <2> HIDE DEF piles
  <2> QED
    BY <1>2, <1>3, FS_UNION
<1>5. Units(ms) = UNION piles
  <2>1. \A u : u \in Units(ms) <=> \E m \in ms : u \in pile[m]
    BY InUnits
  <2>2. \A u : u \in UNION piles <=> \E m \in ms : u \in pile[m]
    OBVIOUS
  <2> QED
    BY <2>1, <2>2
<1> QED
  BY <1>4, <1>5, FS_CardinalityType

LEMMA UnitsJoin ==
    ASSUME NEW ms \in SUBSET Movement, IsFiniteSet(ms),
           NEW ns \in SUBSET Movement, IsFiniteSet(ns), ms \cap ns = {}
    PROVE  Cardinality(Units(ms \cup ns)) = Cardinality(Units(ms)) + Cardinality(Units(ns))
<1>1. Units(ms \cup ns) = Units(ms) \cup Units(ns)
  BY DEF Units
<1>2. Units(ms) \cap Units(ns) = {}
  BY InUnits
<1>3. Cardinality(Units(ms) \cup Units(ns)) =
        Cardinality(Units(ms)) + Cardinality(Units(ns)) - Cardinality(Units(ms) \cap Units(ns))
  BY UnitsFinite, FS_Union
<1>4. Cardinality(Units(ms)) \in Nat /\ Cardinality(Units(ns)) \in Nat
  BY UnitsFinite
<1>5. Cardinality({}) = 0
  BY FS_EmptySet
<1>6. Cardinality(Units(ms) \cap Units(ns)) = 0
  BY <1>2, <1>5
<1>7. Cardinality(Units(ms \cup ns)) = Cardinality(Units(ms) \cup Units(ns))
  BY <1>1
<1> DEFINE a == Cardinality(Units(ms))  b == Cardinality(Units(ns))
           u == Cardinality(Units(ms) \cup Units(ns))  i == Cardinality(Units(ms) \cap Units(ns))
<1>8. a \in Nat /\ b \in Nat /\ i = 0 /\ u = a + b - i
  BY <1>3, <1>4, <1>6
<1>9. u = a + b
  <2> HIDE DEF a, b, u, i
  <2> QED
    BY <1>8
<1> QED
  BY <1>7, <1>9

LEMMA UnitsOne ==
    ASSUME NEW m \in Movement
    PROVE  Cardinality(Units({m})) = Size(m)
<1>1. Units({m}) = {m} \X (1..Size(m))
  BY DEF Units, Size
<1> QED
  BY <1>1, SizeNat, Pile

LEMMA NoUnits ==
    Units({}) = {} /\ Cardinality(Units({})) = 0
<1>1. Units({}) = {}
  BY DEF Units
<1> QED
  BY <1>1, FS_EmptySet

LEMMA MovedFinite ==
    ASSUME NEW ms \in SUBSET Movement, IsFiniteSet(ms), NEW r
    PROVE  /\ Cardinality(Drawn(ms, r)) \in Nat
           /\ Cardinality(Brought(ms, r)) \in Nat
<1>1. ASSUME NEW S \in SUBSET ms
      PROVE  Cardinality(Units(S)) \in Nat
  BY <1>1, FS_Subset, UnitsFinite
<1> QED
  BY <1>1 DEF Drawn, Brought

LEMMA MovedJoin ==
    ASSUME NEW ms \in SUBSET Movement, IsFiniteSet(ms),
           NEW ns \in SUBSET Movement, IsFiniteSet(ns), ms \cap ns = {}, NEW r
    PROVE  /\ Cardinality(Drawn(ms \cup ns, r)) =
                Cardinality(Drawn(ms, r)) + Cardinality(Drawn(ns, r))
           /\ Cardinality(Brought(ms \cup ns, r)) =
                Cardinality(Brought(ms, r)) + Cardinality(Brought(ns, r))
<1>1. ASSUME NEW S \in SUBSET ms, NEW T \in SUBSET ns
      PROVE  Cardinality(Units(S \cup T)) = Cardinality(Units(S)) + Cardinality(Units(T))
  <2>1. IsFiniteSet(S) /\ IsFiniteSet(T)
    BY FS_Subset
  <2> QED
    BY <2>1, UnitsJoin
<1> DEFINE out(x) == {m \in x : m.row = r /\ m.qty < 0}
           in(x) == {m \in x : m.row = r /\ m.qty > 0}
<1>2. out(ms \cup ns) = out(ms) \cup out(ns) /\ in(ms \cup ns) = in(ms) \cup in(ns)
  OBVIOUS
<1>3. out(ms) \in SUBSET ms /\ out(ns) \in SUBSET ns /\ in(ms) \in SUBSET ms /\ in(ns) \in SUBSET ns
  OBVIOUS
<1>4. \A x : Drawn(x, r) = Units(out(x)) /\ Brought(x, r) = Units(in(x))
  BY DEF Drawn, Brought
<1> HIDE DEF out, in
<1>5. Cardinality(Units(out(ms) \cup out(ns))) = Cardinality(Units(out(ms))) + Cardinality(Units(out(ns)))
  BY <1>1, <1>3
<1>6. Cardinality(Units(in(ms) \cup in(ns))) = Cardinality(Units(in(ms))) + Cardinality(Units(in(ns)))
  BY <1>1, <1>3
<1> QED
  BY <1>2, <1>4, <1>5, <1>6

LEMMA MovedOne ==
    ASSUME NEW m \in Movement, NEW r
    PROVE  /\ Cardinality(Drawn({m}, r)) = IF m.row = r /\ m.qty < 0 THEN -m.qty ELSE 0
           /\ Cardinality(Brought({m}, r)) = IF m.row = r /\ m.qty > 0 THEN m.qty ELSE 0
<1>1. m.qty \in Int
  BY DEF Movement
<1>2. CASE m.row = r /\ m.qty < 0
  <2>1. Drawn({m}, r) = Units({m}) /\ Brought({m}, r) = Units({})
    BY <1>1, <1>2 DEF Drawn, Brought
  <2> QED
    BY <1>1, <1>2, <2>1, UnitsOne, NoUnits DEF Size
<1>3. CASE m.row = r /\ m.qty > 0
  <2>1. Drawn({m}, r) = Units({}) /\ Brought({m}, r) = Units({m})
    <3>1. ~(m.qty < 0)
      BY <1>1, <1>3
    <3>2. {n \in {m} : n.row = r /\ n.qty < 0} = {}
      BY <3>1
    <3>3. {n \in {m} : n.row = r /\ n.qty > 0} = {m}
      BY <1>3
    <3> QED
      BY <3>2, <3>3 DEF Drawn, Brought
  <2> QED
    BY <1>1, <1>3, <2>1, UnitsOne, NoUnits DEF Size
<1>4. CASE m.row # r \/ m.qty = 0
  <2>1. Drawn({m}, r) = Units({}) /\ Brought({m}, r) = Units({})
    BY <1>1, <1>4 DEF Drawn, Brought
  <2> QED
    BY <1>1, <1>4, <2>1, NoUnits
<1> QED
  BY <1>1, <1>2, <1>3, <1>4

LEMMA NothingMoved ==
    ASSUME NEW r
    PROVE  Cardinality(Drawn({}, r)) = 0 /\ Cardinality(Brought({}, r)) = 0
<1>1. Drawn({}, r) = Units({}) /\ Brought({}, r) = Units({})
  BY DEF Drawn, Brought
<1> QED
  BY <1>1, NoUnits

(***************************************************************************)
(* What is on a shelf, and what is taken of it.                            *)
(***************************************************************************)
LEMMA LineTyped ==
    ASSUME NEW p \in Posts, NEW i \in DOMAIN Lines[p]
    PROVE  /\ i \in Nat
           /\ Lines[p][i].from \in Shelves \cup {Absent}
           /\ Lines[p][i].to \in Shelves \cup {Absent}
           /\ Lines[p][i].lot \in Lots \cup {Absent}
           /\ Lines[p][i].qty \in Nat \ {0}
           /\ Lines[p][i].from # Lines[p][i].to
           /\ Lines[p][i].from = Absent => Lines[p][i].lot # Absent
<1> DEFINE Line == [from : Shelves \cup {Absent}, to : Shelves \cup {Absent},
                    lot : Lots \cup {Absent}, qty : Nat \ {0}]
<1>1. Lines[p] \in Seq(Line)
  BY StockAssumption DEF StockAssumption
<1>2. i \in Nat /\ Lines[p][i] \in Line
  <2> HIDE DEF Line
  <2> QED
    BY <1>1
<1>3. /\ Lines[p][i].from # Lines[p][i].to
      /\ Lines[p][i].from = Absent => Lines[p][i].lot # Absent
  BY StockAssumption DEF StockAssumption
<1> QED
  BY <1>2, <1>3

LEMMA StockFacts ==
    /\ IsFiniteSet(Posts) /\ IsFiniteSet(Lots) /\ Lots \subseteq Nat
    /\ Absent \notin Shelves /\ Absent \notin Lots /\ Absent \notin Posts
    /\ Opening \in [Rows -> Nat] /\ MaxCrashes \in Nat
    /\ \A p \in Posts : Len(Lines[p]) \in Nat \ {0} /\ DOMAIN Lines[p] = 1..Len(Lines[p])
<1>1. \A p \in Posts : Lines[p] \in Seq([from : Shelves \cup {Absent}, to : Shelves \cup {Absent},
                                        lot : Lots \cup {Absent}, qty : Nat \ {0}])
  BY StockAssumption DEF StockAssumption
<1>2. \A p \in Posts : Len(Lines[p]) \in Nat /\ DOMAIN Lines[p] = 1..Len(Lines[p])
  BY <1>1
<1> QED
  BY <1>2, StockAssumption DEF StockAssumption

LEMMA InStock ==
    ASSUME NEW s, NEW lots
    PROVE  \A u : u \in Stock(s, lots) <=> \E b \in lots : u \in {b} \X (1..balance[<<s, b>>])
<1> QED
  BY DEF Stock

LEMMA StockFinite ==
    ASSUME balance \in [Rows -> Nat], NEW s \in Shelves, NEW lots \in SUBSET Lots
    PROVE  IsFiniteSet(Stock(s, lots)) /\ Cardinality(Stock(s, lots)) \in Nat
<1> DEFINE pile == [b \in lots |-> {b} \X (1..balance[<<s, b>>])]
           piles == {pile[b] : b \in lots}
<1>0. IsFiniteSet(lots)
  BY StockFacts, FS_Subset
<1>1. pile \in Surjection(lots, piles)
  BY DEF Surjection
<1>2. IsFiniteSet(piles)
  <2> HIDE DEF pile
  <2> HIDE DEF piles
  <2> QED
    BY <1>0, <1>1, FS_Surjection
<1>3. \A t \in piles : IsFiniteSet(t)
  <2> SUFFICES ASSUME NEW b \in lots PROVE IsFiniteSet(pile[b])
    OBVIOUS
  <2>1. balance[<<s, b>>] \in Nat
    BY DEF Rows
  <2> QED
    BY <2>1, Pile
<1>4. IsFiniteSet(UNION piles)
  <2> HIDE DEF piles
  <2> QED
    BY <1>2, <1>3, FS_UNION
<1>5. Stock(s, lots) = UNION piles
  <2>1. \A u : u \in Stock(s, lots) <=> \E b \in lots : u \in pile[b]
    BY InStock
  <2>2. \A u : u \in UNION piles <=> \E b \in lots : u \in pile[b]
    OBVIOUS
  <2> QED
    BY <2>1, <2>2
<1> QED
  BY <1>4, <1>5, FS_CardinalityType

\* allocateFifoBatches takes no more than is there, nor than is left to take.
LEMMA TakenIs ==
    ASSUME balance \in [Rows -> Nat], NEW s \in Shelves, NEW b \in Lots, NEW qty \in Nat
    PROVE  /\ Older(s, b) \in Nat /\ balance[<<s, b>>] \in Nat
           /\ Taken(s, qty, b) \in Nat
           /\ Taken(s, qty, b) <= balance[<<s, b>>]
           /\ \A k \in 1..balance[<<s, b>>] : k <= Taken(s, qty, b) <=> Older(s, b) + k <= qty
<1>1. Older(s, b) \in Nat
  BY StockFinite DEF Older
<1>2. balance[<<s, b>>] \in Nat
  BY DEF Rows
<1>3. \A x, y \in Int : Max({x, y}) = IF x >= y THEN x ELSE y
  BY DEF Max
<1>4. \A x, y \in Int : Min({x, y}) = IF x <= y THEN x ELSE y
  BY DEF Min
<1> DEFINE o == Older(s, b)  n == balance[<<s, b>>]  t == Taken(s, qty, b)
<1>5. t = Min({n, Max({0, qty - o})})
  BY DEF Taken
<1>6. o \in Nat /\ n \in Nat
  BY <1>1, <1>2
<1>7. t = IF qty - o <= 0 THEN 0 ELSE IF n <= qty - o THEN n ELSE qty - o
  <2> HIDE DEF o, n, t
  <2>1. Max({0, qty - o}) = IF qty - o <= 0 THEN 0 ELSE qty - o
    BY <1>3, <1>6
  <2> DEFINE x == Max({0, qty - o})
  <2>2. x \in Int /\ x = IF qty - o <= 0 THEN 0 ELSE qty - o
    BY <1>6, <2>1
  <2>3. t = IF n <= x THEN n ELSE x
    <3> HIDE DEF x
    <3> QED
      BY <1>4, <1>5, <1>6, <2>2 DEF x
  <2> HIDE DEF x
  <2> QED
    BY <1>6, <2>2, <2>3
<1>8. t \in Nat /\ t <= n /\ \A k \in 1..n : k <= t <=> o + k <= qty
  <2> HIDE DEF o, n, t
  <2> QED
    BY <1>6, <1>7
<1> QED
  BY <1>1, <1>2, <1>8

LEMMA ShareIs ==
    ASSUME balance \in [Rows -> Nat], NEW p \in Posts, NEW i \in DOMAIN Lines[p], NEW b \in Lots
    PROVE  Share(Lines[p][i], b) \in Nat
<1> DEFINE l == Lines[p][i]
<1>1. l.qty \in Nat /\ (Unnamed(l) => l.from \in Shelves)
  BY LineTyped DEF Unnamed
<1>2. Unnamed(l) => Taken(l.from, l.qty, b) \in Nat
  BY <1>1, TakenIs
<1> QED
  BY <1>1, <1>2 DEF Share

LEMMA PlannedMoves ==
    ASSUME balance \in [Rows -> Nat], NEW p \in Posts, NEW i \in DOMAIN Lines[p]
    PROVE  LET l == Lines[p][i] IN
           /\ MovesOf(p, i, l) \in SUBSET Movement
           /\ IsFiniteSet(MovesOf(p, i, l))
           /\ IsFiniteSet(Out(p, i, l)) /\ IsFiniteSet(In(p, i, l))
           /\ \A m \in MovesOf(p, i, l) : m.entry = p /\ m.line = i
           /\ l.from # Absent => Out(p, i, l) \in SUBSET Movement
           /\ l.to # Absent => In(p, i, l) \in SUBSET Movement
<1> DEFINE l == Lines[p][i]
           out == [b \in Shared(l) |->
                    [entry |-> p, line |-> i, row |-> <<l.from, b>>, qty |-> -Share(l, b)]]
           in == [b \in Shared(l) |->
                    [entry |-> p, line |-> i, row |-> <<l.to, b>>, qty |-> Share(l, b)]]
<1>1. IsFiniteSet(Shared(l))
  BY StockFacts, FS_Subset DEF Shared
<1>2. IsFiniteSet(Out(p, i, l))
  <2>1. out \in Surjection(Shared(l), Out(p, i, l))
    BY DEF Surjection, Out
  <2> HIDE DEF out
  <2> QED
    BY <1>1, <2>1, FS_Surjection
<1>3. IsFiniteSet(In(p, i, l))
  <2>1. in \in Surjection(Shared(l), In(p, i, l))
    BY DEF Surjection, In
  <2> HIDE DEF in
  <2> QED
    BY <1>1, <2>1, FS_Surjection
<1>4. \A b \in Shared(l) : b \in Lots /\ Share(l, b) \in Nat
  BY ShareIs DEF Shared
<1>5. l.from \in Shelves \cup {Absent} /\ l.to \in Shelves \cup {Absent} /\ i \in Nat
  BY LineTyped
<1> HIDE DEF l
<1>6. l.from # Absent => Out(p, i, l) \in SUBSET Movement
  BY <1>4, <1>5 DEF Out, Movement, Rows
<1>7. l.to # Absent => In(p, i, l) \in SUBSET Movement
  BY <1>4, <1>5 DEF In, Movement, Rows
<1>8. \A m \in Out(p, i, l) \cup In(p, i, l) : m.entry = p /\ m.line = i
  BY DEF Out, In
<1>9. IsFiniteSet(MovesOf(p, i, l))
  BY <1>2, <1>3, FS_Union, FS_EmptySet DEF MovesOf
<1>10. MovesOf(p, i, l) \in SUBSET Movement /\ \A m \in MovesOf(p, i, l) : m.entry = p /\ m.line = i
  BY <1>6, <1>7, <1>8 DEF MovesOf
<1> QED
  BY <1>2, <1>3, <1>6, <1>7, <1>9, <1>10 DEF l

(***************************************************************************)
(* Types.                                                                  *)
(***************************************************************************)
Steps == {"resolve", "lock", "move", "audit", "commit", "done"}
Typed ==
    /\ balance \in [Rows -> Nat]
    /\ ledger \in SUBSET Movement /\ IsFiniteSet(ledger)
    /\ pc \in [Posts -> Steps]
    /\ line \in [Posts -> Nat] /\ \A p \in Posts : line[p] \in DOMAIN Lines[p]
    /\ moves \in [Posts -> SUBSET Movement]
    /\ \A p \in Posts : IsFiniteSet(moves[p]) /\ \A m \in moves[p] : m.entry = p
    /\ todo \in [Posts -> SUBSET Movement] /\ \A p \in Posts : todo[p] \subseteq moves[p]
    /\ DOMAIN wrote = Posts
    /\ \A p \in Posts : DOMAIN wrote[p] \subseteq Rows
    /\ \A p \in Posts : \A r \in DOMAIN wrote[p] : wrote[p][r] \in Nat
    /\ shelfLock \in [Shelves -> Posts \cup {Absent}]
    /\ rowLock \in [Rows -> Posts \cup {Absent}]
    /\ chainLock \in Posts \cup {Absent}
    /\ outcome \in [Posts -> Outcomes]
    /\ crashes \in 0..MaxCrashes

LEMMA TypedInitially ==
    Init => Typed
<1> SUFFICES ASSUME Init PROVE Typed
  OBVIOUS
<1>1. \A p \in Posts : line[p] \in DOMAIN Lines[p]
  BY StockFacts DEF Init
<1>2. DOMAIN <<>> = {}
  OBVIOUS
<1> QED
  BY <1>1, <1>2, StockFacts, FS_EmptySet DEF Init, Typed, Steps, Outcomes

LEMMA ReleaseTyped ==
    ASSUME Typed, NEW p \in Posts, Release(p)
    PROVE  /\ shelfLock' \in [Shelves -> Posts \cup {Absent}]
           /\ rowLock' \in [Rows -> Posts \cup {Absent}]
           /\ chainLock' \in Posts \cup {Absent}
<1> QED
  BY DEF Typed, Release

LEMMA AbortTyped ==
    ASSUME Typed, NEW p \in Posts, NEW why \in Outcomes, Abort(p, why), crashes' \in 0..MaxCrashes
    PROVE  Typed'
<1>1. UNCHANGED <<balance, ledger, line, moves, todo>>
  BY DEF Abort, dataVars
<1>2. pc' \in [Posts -> Steps] /\ outcome' \in [Posts -> Outcomes]
  BY DEF Typed, Abort, Step, Steps
<1>3. /\ DOMAIN wrote' = Posts
      /\ \A q \in Posts : wrote'[q] = IF q = p THEN <<>> ELSE wrote[q]
  BY DEF Typed, Abort
<1>4. DOMAIN <<>> = {}
  OBVIOUS
<1>5. \A q \in Posts : DOMAIN wrote'[q] \subseteq Rows /\ \A r \in DOMAIN wrote'[q] : wrote'[q][r] \in Nat
  BY <1>3, <1>4 DEF Typed
<1>6. /\ shelfLock' \in [Shelves -> Posts \cup {Absent}]
      /\ rowLock' \in [Rows -> Posts \cup {Absent}]
      /\ chainLock' \in Posts \cup {Absent}
  BY ReleaseTyped DEF Abort
<1> QED
  BY <1>1, <1>2, <1>3, <1>5, <1>6 DEF Typed

LEMMA SeenNat ==
    ASSUME Typed, NEW p \in Posts, NEW r \in Rows
    PROVE  Seen(p, r) \in Nat /\ balance[r] \in Nat
<1> QED
  BY DEF Typed, Seen

\* What Resolve does when it plans a line.
Plans(p) ==
    /\ pc[p] = "resolve" /\ Step(p, IF line[p] = Len(Lines[p]) THEN "lock" ELSE "resolve")
    /\ line' = [line EXCEPT ![p] = IF @ = Len(Lines[p]) THEN @ ELSE @ + 1]
    /\ moves' = [moves EXCEPT ![p] = @ \cup MovesOf(p, line[p], Lines[p][line[p]])]
    /\ todo' = [todo EXCEPT ![p] = @ \cup MovesOf(p, line[p], Lines[p][line[p]])]
    /\ LET l == Lines[p][line[p]] IN
       \/ ~Unnamed(l) /\ UNCHANGED shelfLock
       \/ /\ Unnamed(l) /\ OnShelf(l.from) >= l.qty
          /\ shelfLock[l.from] \in {Absent, p} /\ shelfLock' = [shelfLock EXCEPT ![l.from] = p]
    /\ UNCHANGED <<balance, ledger, wrote, rowLock, chainLock, outcome, crashes>>

LEMMA ResolveIs ==
    ASSUME Typed, NEW p \in Posts, Resolve(p)
    PROVE  Plans(p) \/ (pc[p] = "resolve" /\ Abort(p, "short") /\ UNCHANGED crashes)
<1>1. line \in [Posts -> Nat] /\ pc \in [Posts -> Steps]
  BY DEF Typed
<1>2. pc[p] = "resolve" /\ UNCHANGED crashes
  BY DEF Resolve
<1>3. UNCHANGED pc => Step(p, "resolve")
  BY <1>1, <1>2 DEF Step
<1>4. UNCHANGED line => line' = [line EXCEPT ![p] = line[p]]
  BY <1>1
<1> DEFINE i == line[p]  l == Lines[p][i]
           planned ==
             /\ moves' = [moves EXCEPT ![p] = @ \cup MovesOf(p, i, l)]
             /\ todo' = [todo EXCEPT ![p] = @ \cup MovesOf(p, i, l)]
             /\ IF i = Len(Lines[p])
                THEN Step(p, "lock") /\ UNCHANGED line
                ELSE UNCHANGED pc /\ line' = [line EXCEPT ![p] = i + 1]
             /\ UNCHANGED <<dataVars, wrote, rowLock, chainLock, outcome>>
           taken ==
             \/ ~Unnamed(l) /\ UNCHANGED shelfLock
             \/ /\ Unnamed(l) /\ OnShelf(l.from) >= l.qty
                /\ shelfLock[l.from] \in {Absent, p} /\ shelfLock' = [shelfLock EXCEPT ![l.from] = p]
<1>5. (planned /\ taken) \/ Abort(p, "short")
  BY DEF Resolve, Mine
<1>6. CASE planned /\ taken
  <2>1. Step(p, IF i = Len(Lines[p]) THEN "lock" ELSE "resolve")
    BY <1>3, <1>6
  <2>2. line' = [line EXCEPT ![p] = IF i = Len(Lines[p]) THEN i ELSE i + 1]
    BY <1>4, <1>6
  <2> QED
    BY <1>2, <1>6, <2>1, <2>2 DEF Plans, dataVars
<1> QED
  BY <1>2, <1>5, <1>6

LEMMA PlansTyped ==
    ASSUME Typed, NEW p \in Posts, Plans(p)
    PROVE  Typed'
<1> DEFINE i == line[p]  l == Lines[p][i]  new == MovesOf(p, i, l)
<1>1. i \in DOMAIN Lines[p] /\ balance \in [Rows -> Nat]
  BY DEF Typed
<1>2. new \in SUBSET Movement /\ IsFiniteSet(new) /\ \A m \in new : m.entry = p
  BY <1>1, PlannedMoves
<1>3. UNCHANGED <<balance, ledger, wrote, rowLock, chainLock, outcome, crashes>>
  BY DEF Plans
<1>4. pc' \in [Posts -> Steps]
  BY DEF Plans, Step, Typed, Steps
<1>5. line' \in [Posts -> Nat] /\ \A q \in Posts : line'[q] \in DOMAIN Lines[q]
  <2>1. Len(Lines[p]) \in Nat /\ DOMAIN Lines[p] = 1..Len(Lines[p])
    BY StockFacts
  <2>2. line \in [Posts -> Nat] /\ \A q \in Posts : line[q] \in DOMAIN Lines[q]
    BY DEF Typed
  <2>3. line' = [line EXCEPT ![p] = IF i = Len(Lines[p]) THEN i ELSE i + 1]
    BY DEF Plans
  <2>4. (IF i = Len(Lines[p]) THEN i ELSE i + 1) \in 1..Len(Lines[p])
    BY <2>1, <2>2
  <2> QED
    BY <2>1, <2>2, <2>3, <2>4
<1>6. moves' = [moves EXCEPT ![p] = @ \cup new] /\ todo' = [todo EXCEPT ![p] = @ \cup new]
  BY DEF Plans
<1>7. /\ moves' \in [Posts -> SUBSET Movement]
      /\ \A q \in Posts : IsFiniteSet(moves'[q]) /\ \A m \in moves'[q] : m.entry = q
      /\ todo' \in [Posts -> SUBSET Movement] /\ \A q \in Posts : todo'[q] \subseteq moves'[q]
  <2> HIDE DEF new
  <2>1. IsFiniteSet(moves[p] \cup new)
    BY <1>2, FS_Union DEF Typed
  <2> QED
    BY <1>2, <1>6, <2>1 DEF Typed
<1>8. shelfLock' \in [Shelves -> Posts \cup {Absent}]
  <2>1. shelfLock' = [shelfLock EXCEPT ![l.from] = p] \/ UNCHANGED shelfLock
    BY DEF Plans
  <2>2. shelfLock \in [Shelves -> Posts \cup {Absent}]
    BY DEF Typed
  <2> QED
    BY <2>1, <2>2
<1> QED
  BY <1>3, <1>4, <1>5, <1>7, <1>8 DEF Typed

\* What Apply does when it writes movement m.
Moves(p, m) ==
    /\ pc[p] = "move" /\ m \in todo[p] /\ Mine(rowLock[m.row], p)
    /\ Seen(p, m.row) + m.qty >= 0
    /\ wrote' = [wrote EXCEPT ![p] = [r \in DOMAIN wrote[p] \cup {m.row} |->
           IF r = m.row THEN Seen(p, m.row) + m.qty ELSE wrote[p][r]]]
    /\ todo' = [todo EXCEPT ![p] = @ \ {m}]
    /\ Step(p, IF todo[p] = {m} THEN "audit" ELSE "lock")
    /\ rowLock' = [rowLock EXCEPT ![m.row] = p]
    /\ UNCHANGED <<balance, ledger, line, moves, shelfLock, chainLock, outcome, crashes>>

LEMMA ApplyIs ==
    ASSUME NEW p \in Posts, Apply(p)
    PROVE  \/ \E m \in Due(p) : Moves(p, m)
           \/ pc[p] = "move" /\ Abort(p, "short") /\ UNCHANGED crashes
<1>1. PICK m \in Due(p) :
        /\ pc[p] = "move" /\ UNCHANGED crashes /\ Mine(rowLock[m.row], p)
        /\ \/ Seen(p, m.row) + m.qty >= 0 /\ Write(p, m) /\ rowLock' = [rowLock EXCEPT ![m.row] = p]
           \/ Abort(p, "short")
  BY DEF Apply
<1>2. m \in todo[p]
  BY DEF Due
<1>3. CASE Seen(p, m.row) + m.qty >= 0 /\ Write(p, m) /\ rowLock' = [rowLock EXCEPT ![m.row] = p]
  BY <1>1, <1>2, <1>3 DEF Moves, Write, dataVars
<1> QED
  BY <1>1, <1>3

LEMMA MovesTyped ==
    ASSUME Typed, NEW p \in Posts, NEW m \in todo[p], Moves(p, m)
    PROVE  Typed'
<1>1. m \in Movement /\ m.row \in Rows /\ m.qty \in Int
  BY DEF Typed, Movement
<1>2. UNCHANGED <<balance, ledger, line, moves, shelfLock, chainLock, outcome, crashes>>
  BY DEF Moves
<1>3. pc' \in [Posts -> Steps]
  BY DEF Moves, Step, Typed, Steps
<1>4. todo' \in [Posts -> SUBSET Movement] /\ \A q \in Posts : todo'[q] \subseteq moves'[q]
  BY DEF Moves, Typed
<1>5. rowLock' \in [Rows -> Posts \cup {Absent}]
  BY DEF Moves, Typed
<1>6. Seen(p, m.row) + m.qty \in Nat
  BY <1>1, SeenNat DEF Moves
<1> DEFINE new == [r \in DOMAIN wrote[p] \cup {m.row} |->
                    IF r = m.row THEN Seen(p, m.row) + m.qty ELSE wrote[p][r]]
<1>7. DOMAIN new \subseteq Rows /\ \A r \in DOMAIN new : new[r] \in Nat
  BY <1>1, <1>6 DEF Typed
<1>8. wrote' = [wrote EXCEPT ![p] = new]
  BY DEF Moves
<1>9. /\ DOMAIN wrote' = Posts
      /\ \A q \in Posts : DOMAIN wrote'[q] \subseteq Rows
      /\ \A q \in Posts : \A r \in DOMAIN wrote'[q] : wrote'[q][r] \in Nat
  <2> HIDE DEF new
  <2>1. DOMAIN wrote' = Posts /\ \A q \in Posts : wrote'[q] = IF q = p THEN new ELSE wrote[q]
    BY <1>8 DEF Typed
  <2> QED
    BY <1>7, <2>1 DEF Typed
<1> QED
  BY <1>2, <1>3, <1>4, <1>5, <1>9 DEF Typed

LEMMA CommitTyped ==
    ASSUME Typed, NEW p \in Posts, Commit(p)
    PROVE  Typed'
<1>1. UNCHANGED <<line, moves, todo, crashes>>
  BY DEF Commit
<1>2. pc' \in [Posts -> Steps] /\ outcome' \in [Posts -> Outcomes]
  BY DEF Typed, Commit, Step, Steps, Outcomes
<1>3. balance' \in [Rows -> Nat]
  BY SeenNat DEF Commit
<1>4. ledger' \in SUBSET Movement /\ IsFiniteSet(ledger')
  BY FS_Union DEF Commit, Typed
<1>5. /\ DOMAIN wrote' = Posts
      /\ \A q \in Posts : wrote'[q] = IF q = p THEN <<>> ELSE wrote[q]
  BY DEF Typed, Commit
<1>6. DOMAIN <<>> = {}
  OBVIOUS
<1>7. \A q \in Posts : DOMAIN wrote'[q] \subseteq Rows /\ \A r \in DOMAIN wrote'[q] : wrote'[q][r] \in Nat
  BY <1>5, <1>6 DEF Typed
<1>8. /\ shelfLock' \in [Shelves -> Posts \cup {Absent}]
      /\ rowLock' \in [Rows -> Posts \cup {Absent}]
      /\ chainLock' \in Posts \cup {Absent}
  BY ReleaseTyped DEF Commit
<1> QED
  BY <1>1, <1>2, <1>3, <1>4, <1>5, <1>7, <1>8 DEF Typed

LEMMA RestTyped ==
    ASSUME Typed, NEW p \in Posts, LockShelf(p) \/ Audit(p)
    PROVE  Typed'
<1>1. UNCHANGED <<dataVars, planVars, rowLock, outcome, crashes>>
  BY DEF LockShelf, Audit
<1>2. pc' \in [Posts -> Steps]
  BY DEF LockShelf, Audit, Step, Typed, Steps
<1>3. shelfLock' \in [Shelves -> Posts \cup {Absent}]
  <2>1. shelfLock' = shelfLock \/ \E s : shelfLock' = [shelfLock EXCEPT ![s] = p]
    BY DEF LockShelf, Audit, lockVars
  <2> QED
    BY <2>1 DEF Typed
<1>4. chainLock' \in Posts \cup {Absent}
  BY DEF LockShelf, Audit, Typed
<1> QED
  BY <1>1, <1>2, <1>3, <1>4 DEF Typed, dataVars, planVars

LEMMA TypedNext ==
    Typed /\ [Next]_vars => Typed'
<1> SUFFICES ASSUME Typed, [Next]_vars PROVE Typed'
  OBVIOUS
<1>1. ASSUME NEW p \in Posts, Resolve(p) PROVE Typed'
  <2>1. UNCHANGED crashes => crashes' \in 0..MaxCrashes
    BY DEF Typed
  <2> QED
    BY <1>1, <2>1, ResolveIs, PlansTyped, AbortTyped DEF Outcomes
<1>2. ASSUME NEW p \in Posts, LockShelf(p) \/ Audit(p) PROVE Typed'
  BY <1>2, RestTyped
<1>3. ASSUME NEW p \in Posts, Apply(p) PROVE Typed'
  <2>1. UNCHANGED crashes => crashes' \in 0..MaxCrashes
    BY DEF Typed
  <2>2. Due(p) \subseteq todo[p]
    BY DEF Due
  <2> QED
    BY <1>3, <2>1, <2>2, ApplyIs, MovesTyped, AbortTyped DEF Outcomes
<1>4. ASSUME NEW p \in Posts, Commit(p) PROVE Typed'
  BY <1>4, CommitTyped
<1>5. ASSUME NEW p \in Posts, Crash(p) PROVE Typed'
  <2>1. crashes' \in 0..MaxCrashes
    BY <1>5, StockFacts DEF Crash, Typed
  <2> QED
    BY <1>5, <2>1, AbortTyped DEF Crash, Outcomes
<1>6. ASSUME NEW p \in Posts, BreakDeadlock(p) PROVE Typed'
  <2>1. Abort(p, "dead") /\ crashes' \in 0..MaxCrashes
    BY <1>6 DEF BreakDeadlock, Typed
  <2> QED
    BY <2>1, AbortTyped DEF Outcomes
<1>7. CASE UNCHANGED vars
  BY <1>7 DEF vars, dataVars, planVars, lockVars, Typed
<1> QED
  BY <1>1, <1>2, <1>3, <1>4, <1>5, <1>6, <1>7 DEF Next, Post

(***************************************************************************)
(* The books.  A posting has the locks of the rows it wrote, so nobody     *)
(* commits to them meanwhile, and what it reads in a row is what was       *)
(* committed there and the movements that it applied.                      *)
(***************************************************************************)
Applied(p) == moves[p] \ todo[p]
Squared(p, r) ==
    Seen(p, r) + Cardinality(Drawn(Applied(p), r)) = balance[r] + Cardinality(Brought(Applied(p), r))

Books ==
    /\ \A p \in Posts : \A r \in DOMAIN wrote[p] : rowLock[r] = p
    /\ \A p \in Posts : outcome[p] = "none" <=> pc[p] # "done"
    /\ \A m \in ledger : outcome[m.entry] = "posted"
    /\ \A p \in Posts : pc[p] = "resolve" => todo[p] = moves[p] /\ DOMAIN wrote[p] = {}
    /\ \A p \in Posts : pc[p] \in {"audit", "commit"} => todo[p] = {}
    /\ \A p \in Posts : pc[p] # "done" => \A r \in Rows : Squared(p, r)

\* A posting holds the shelf of every withdrawal it applied, and of the one that
\* it is about to apply; a clean one, whose lines are unnamed and one to a shelf,
\* holds those of all the withdrawals it planned.
Clean(p) == AllUnnamed(p) /\ \A s \in Shelves : Cardinality(Takers(p, s)) <= 1
Holds(p, m) == m.qty < 0 => shelfLock[m.row[1]] = p
Held ==
    \A p \in Posts : pc[p] # "done" =>
        /\ \A m \in Applied(p) : Holds(p, m)
        /\ Clean(p) => \A m \in moves[p] : Holds(p, m)
        /\ pc[p] = "move" => \A m \in Due(p) : Holds(p, m)

\* A withdrawal takes from the source of its line, which is resolved.
Lined ==
    \A p \in Posts : \A m \in moves[p] :
        /\ m.line \in DOMAIN Lines[p]
        /\ m.line < line[p] \/ (m.line = line[p] /\ pc[p] # "resolve")
        /\ m.qty < 0 => m.row[1] = Lines[p][m.line].from
Fits == \A p \in Posts : Clean(p) /\ pc[p] \in {"resolve", "lock", "move"} => PlanFits(p)

\* Every line that is resolved is planned in full, and what is posted is the plan.
OfLine(ms, i) == {m \in ms : m.line = i}
Planned ==
    \A p \in Posts : \A i \in DOMAIN Lines[p] :
        outcome[p] \in {"none", "posted"} /\ (pc[p] = "resolve" => i < line[p])
          => InFull(OfLine(moves[p], i), Lines[p][i])
Kept ==
    \A p \in Posts : outcome[p] = "posted" => {m \in ledger : m.entry = p} = moves[p]

LEMMA SameSquared ==
    ASSUME NEW q \in Posts, NEW r \in Rows, Squared(q, r), balance'[r] = balance[r],
           wrote'[q] = wrote[q], Applied(q)' = Applied(q)
    PROVE  Squared(q, r)'
<1>1. Seen(q, r)' = Seen(q, r)
  BY DEF Seen
<1> QED
  BY <1>1 DEF Squared

LEMMA AppliedTyped ==
    ASSUME Typed, NEW p \in Posts
    PROVE  /\ Applied(p) \in SUBSET Movement /\ IsFiniteSet(Applied(p))
           /\ moves[p] \in SUBSET Movement /\ IsFiniteSet(moves[p])
           /\ todo[p] \in SUBSET Movement /\ IsFiniteSet(todo[p])
<1>1. /\ moves[p] \in SUBSET Movement /\ IsFiniteSet(moves[p])
      /\ todo[p] \in SUBSET moves[p]
  BY DEF Typed
<1>2. Applied(p) \in SUBSET moves[p]
  BY DEF Applied
<1> QED
  BY <1>1, <1>2, FS_Subset

LEMMA BooksInitially ==
    Init => Books
<1> SUFFICES ASSUME Init PROVE Books
  OBVIOUS
<1>1. DOMAIN <<>> = {}
  OBVIOUS
<1>2. \A p \in Posts : wrote[p] = <<>> /\ Applied(p) = {} /\ pc[p] = "resolve" /\ moves[p] = todo[p]
  BY DEF Init, Applied
<1>3. ASSUME NEW p \in Posts, NEW r \in Rows PROVE Squared(p, r)
  <2>1. Seen(p, r) = balance[r]
    BY <1>1, <1>2 DEF Seen
  <2> QED
    BY <1>2, <2>1, NothingMoved DEF Squared
<1> QED
  BY <1>1, <1>2, <1>3 DEF Init, Books

LEMMA AbortKeepsBooks ==
    ASSUME Typed, Books, NEW p \in Posts, pc[p] # "done",
           NEW why \in {"short", "dead"}, Abort(p, why)
    PROVE  Books'
<1>1. UNCHANGED <<balance, ledger, moves, todo>>
  BY DEF Abort, dataVars
<1>2. \A q \in Posts : /\ wrote'[q] = IF q = p THEN <<>> ELSE wrote[q]
                       /\ pc'[q] = IF q = p THEN "done" ELSE pc[q]
                       /\ outcome'[q] = IF q = p THEN why ELSE outcome[q]
  BY DEF Abort, Step, Typed
<1>3. DOMAIN <<>> = {}
  OBVIOUS
<1>4. ASSUME NEW q \in Posts, NEW r \in DOMAIN wrote'[q] PROVE rowLock'[r] = q
  <2>1. q # p /\ rowLock[r] = q /\ r \in Rows
    BY <1>2, <1>3, <1>4 DEF Books, Typed
  <2> QED
    BY <2>1 DEF Abort, Release
<1>5. ASSUME NEW m \in ledger' PROVE outcome'[m.entry] = "posted"
  <2>1. outcome[m.entry] = "posted" /\ m.entry \in Posts
    BY <1>1, <1>5 DEF Books, Typed, Movement
  <2>2. outcome[p] = "none"
    BY DEF Books
  <2> QED
    BY <1>2, <2>1, <2>2
<1>6. ASSUME NEW q \in Posts, pc'[q] # "done", NEW r \in Rows PROVE Squared(q, r)'
  <2>1. q # p /\ pc[q] # "done" /\ wrote'[q] = wrote[q]
    BY <1>2, <1>6
  <2> QED
    BY <1>1, <2>1, SameSquared DEF Books, Applied
<1>7. ASSUME NEW q \in Posts
      PROVE  /\ outcome'[q] = "none" <=> pc'[q] # "done"
             /\ pc'[q] = "resolve" => todo'[q] = moves'[q] /\ DOMAIN wrote'[q] = {}
             /\ pc'[q] \in {"audit", "commit"} => todo'[q] = {}
  BY <1>1, <1>2 DEF Books
<1> QED
  BY <1>4, <1>5, <1>6, <1>7 DEF Books

LEMMA PlansKeepsBooks ==
    ASSUME Typed, Books, NEW p \in Posts, Plans(p)
    PROVE  Books'
<1>1. UNCHANGED <<balance, ledger, wrote, rowLock, outcome>>
  BY DEF Plans
<1> DEFINE new == MovesOf(p, line[p], Lines[p][line[p]])
<1>2. \A q \in Posts : /\ moves'[q] = IF q = p THEN moves[q] \cup new ELSE moves[q]
                       /\ todo'[q] = IF q = p THEN todo[q] \cup new ELSE todo[q]
  BY DEF Plans, Typed
<1>3. pc[p] = "resolve" /\ pc'[p] \in {"resolve", "lock"} /\ \A q \in Posts \ {p} : pc'[q] = pc[q]
  BY DEF Plans, Step, Typed
<1> HIDE DEF new
<1>4. \A q \in Posts : Applied(q)' = Applied(q)
  <2>1. moves[p] = todo[p]
    BY <1>3 DEF Books
  <2> QED
    BY <1>2, <2>1 DEF Applied
<1>5. ASSUME NEW q \in Posts, pc'[q] # "done", NEW r \in Rows PROVE Squared(q, r)'
  <2>1. pc[q] # "done"
    BY <1>3, <1>5
  <2> QED
    BY <1>1, <1>4, <2>1, SameSquared DEF Books
<1>6. ASSUME NEW q \in Posts
      PROVE  /\ outcome'[q] = "none" <=> pc'[q] # "done"
             /\ pc'[q] = "resolve" => todo'[q] = moves'[q] /\ DOMAIN wrote'[q] = {}
             /\ pc'[q] \in {"audit", "commit"} => todo'[q] = {}
  <2>1. outcome[q] = "none" <=> pc[q] # "done"
    BY DEF Books
  <2>2. CASE q = p
    <3>1. moves[p] = todo[p] /\ DOMAIN wrote[p] = {}
      BY <1>3 DEF Books
    <3>2. todo'[p] = moves'[p] /\ DOMAIN wrote'[p] = {}
      BY <1>1, <1>2, <3>1
    <3> QED
      BY <1>1, <1>3, <2>1, <2>2, <3>2
  <2>3. CASE q # p
    <3>1. pc'[q] = pc[q] /\ todo'[q] = todo[q] /\ moves'[q] = moves[q]
      BY <1>2, <1>3, <2>3
    <3> QED
      BY <1>1, <2>1, <3>1 DEF Books
  <2> QED
    BY <2>2, <2>3
<1> QED
  BY <1>1, <1>5, <1>6 DEF Books

LEMMA RestKeepsBooks ==
    ASSUME Typed, Books, NEW p \in Posts, LockShelf(p) \/ Audit(p)
    PROVE  Books'
<1>1. UNCHANGED <<balance, ledger, wrote, moves, todo, rowLock, outcome>>
  BY DEF LockShelf, Audit, dataVars, planVars
<1>2. /\ \A q \in Posts \ {p} : pc'[q] = pc[q]
      /\ \/ pc[p] = "lock" /\ pc'[p] = "move"
         \/ pc[p] = "audit" /\ pc'[p] = "commit"
  BY DEF LockShelf, Audit, Step, Typed
<1>3. ASSUME NEW q \in Posts, pc'[q] # "done", NEW r \in Rows PROVE Squared(q, r)'
  <2>1. pc[q] # "done"
    BY <1>2, <1>3
  <2> QED
    BY <1>1, <2>1, SameSquared DEF Books, Applied
<1>4. ASSUME NEW q \in Posts
      PROVE  /\ outcome'[q] = "none" <=> pc'[q] # "done"
             /\ pc'[q] = "resolve" => todo'[q] = moves'[q] /\ DOMAIN wrote'[q] = {}
             /\ pc'[q] \in {"audit", "commit"} => todo'[q] = {}
  BY <1>1, <1>2 DEF Books
<1> QED
  BY <1>1, <1>3, <1>4 DEF Books

\* What is read in a row after movement m, and what is left to apply.
LEMMA MovesIs ==
    ASSUME Typed, NEW p \in Posts, NEW m \in todo[p], Moves(p, m)
    PROVE  /\ m \in Movement /\ m.row \in Rows /\ m.qty \in Int
           /\ \A q \in Posts \ {p} : /\ wrote'[q] = wrote[q] /\ todo'[q] = todo[q]
                                     /\ pc'[q] = pc[q]
           /\ todo'[p] = todo[p] \ {m}
           /\ pc[p] = "move" /\ pc'[p] = IF todo[p] = {m} THEN "audit" ELSE "lock"
           /\ DOMAIN wrote'[p] = DOMAIN wrote[p] \cup {m.row}
           /\ \A r \in Rows : Seen(p, r)' = IF r = m.row THEN Seen(p, r) + m.qty ELSE Seen(p, r)
           /\ m \notin Applied(p) /\ Applied(p)' = Applied(p) \cup {m}
<1>1. m \in Movement /\ m.row \in Rows /\ m.qty \in Int /\ m \in moves[p]
  BY DEF Typed, Movement
<1> DEFINE new == [r \in DOMAIN wrote[p] \cup {m.row} |->
                    IF r = m.row THEN Seen(p, m.row) + m.qty ELSE wrote[p][r]]
<1>2. wrote' = [wrote EXCEPT ![p] = new] /\ todo' = [todo EXCEPT ![p] = @ \ {m}] /\ UNCHANGED <<balance, moves>>
  BY DEF Moves
<1>3. wrote'[p] = new /\ \A q \in Posts \ {p} : wrote'[q] = wrote[q]
  <2> HIDE DEF new
  <2> QED
    BY <1>2 DEF Typed
<1>4. \A r \in Rows : Seen(p, r)' = IF r = m.row THEN Seen(p, r) + m.qty ELSE Seen(p, r)
  BY <1>2, <1>3 DEF Seen
<1>5. todo'[p] = todo[p] \ {m} /\ \A q \in Posts \ {p} : todo'[q] = todo[q]
  BY <1>2 DEF Typed
<1>6. m \notin Applied(p) /\ Applied(p)' = Applied(p) \cup {m}
  BY <1>1, <1>2, <1>5 DEF Applied
<1>7. /\ \A q \in Posts \ {p} : pc'[q] = pc[q]
      /\ pc[p] = "move" /\ pc'[p] = IF todo[p] = {m} THEN "audit" ELSE "lock"
  BY DEF Moves, Step, Typed
<1> QED
  BY <1>1, <1>3, <1>4, <1>5, <1>6, <1>7

LEMMA MovesKeepsBooks ==
    ASSUME Typed, Books, NEW p \in Posts, NEW m \in todo[p], Moves(p, m)
    PROVE  Books'
<1>1. UNCHANGED <<balance, ledger, moves, outcome>>
  BY DEF Moves
<1>2. /\ m \in Movement /\ m.row \in Rows /\ m.qty \in Int
      /\ \A q \in Posts \ {p} : wrote'[q] = wrote[q] /\ todo'[q] = todo[q] /\ pc'[q] = pc[q]
      /\ todo'[p] = todo[p] \ {m}
      /\ pc[p] = "move" /\ pc'[p] = IF todo[p] = {m} THEN "audit" ELSE "lock"
      /\ DOMAIN wrote'[p] = DOMAIN wrote[p] \cup {m.row}
      /\ \A r \in Rows : Seen(p, r)' = IF r = m.row THEN Seen(p, r) + m.qty ELSE Seen(p, r)
      /\ m \notin Applied(p) /\ Applied(p)' = Applied(p) \cup {m}
  BY MovesIs
<1>3. ASSUME NEW q \in Posts, NEW r \in DOMAIN wrote'[q] PROVE rowLock'[r] = q
  <2>1. rowLock' = [rowLock EXCEPT ![m.row] = p] /\ rowLock[m.row] \in {Absent, p}
    BY DEF Moves, Mine
  <2>2. r \in Rows /\ \A x \in DOMAIN wrote[q] : rowLock[x] = q
    BY <1>2, <1>3 DEF Books, Typed
  <2>3. CASE q = p
    BY <1>2, <1>3, <2>1, <2>2, <2>3 DEF Typed
  <2>4. CASE q # p
    BY <1>2, <1>3, <2>1, <2>2, <2>4, StockFacts DEF Typed
  <2> QED
    BY <2>3, <2>4
<1>4. ASSUME NEW r \in Rows PROVE Squared(p, r)'
  <2>1. Applied(p) \in SUBSET Movement /\ IsFiniteSet(Applied(p))
    BY AppliedTyped
  <2>2. IsFiniteSet({m}) /\ {m} \in SUBSET Movement /\ Applied(p) \cap {m} = {}
    BY <1>2, FS_Singleton
  <2> DEFINE d == Cardinality(Drawn(Applied(p), r))  b == Cardinality(Brought(Applied(p), r))
             d1 == Cardinality(Drawn({m}, r))  b1 == Cardinality(Brought({m}, r))
  <2>3. d \in Nat /\ b \in Nat
    BY <2>1, MovedFinite
  <2>4. /\ d1 = IF m.row = r /\ m.qty < 0 THEN -m.qty ELSE 0
        /\ b1 = IF m.row = r /\ m.qty > 0 THEN m.qty ELSE 0
    BY <1>2, MovedOne
  <2>5. /\ Cardinality(Drawn(Applied(p) \cup {m}, r)) = d + d1
        /\ Cardinality(Brought(Applied(p) \cup {m}, r)) = b + b1
    BY <2>1, <2>2, MovedJoin
  <2>6. Cardinality(Drawn(Applied(p), r))' = d + d1 /\ Cardinality(Brought(Applied(p), r))' = b + b1
    BY <1>2, <2>5
  <2>7. Seen(p, r) + d = balance[r] + b /\ Seen(p, r) \in Nat /\ balance[r] \in Nat
    BY <1>2, SeenNat DEF Books, Squared
  <2>8. Seen(p, r)' + (d + d1) = balance[r] + (b + b1)
    <3> HIDE DEF d, b, d1, b1
    <3> QED
      BY <1>2, <2>3, <2>4, <2>7
  <2> QED
    BY <1>1, <2>6, <2>8 DEF Squared
<1>5. ASSUME NEW q \in Posts, pc'[q] # "done", NEW r \in Rows PROVE Squared(q, r)'
  <2>1. CASE q # p
    <3>1. pc[q] # "done" /\ wrote'[q] = wrote[q] /\ Applied(q)' = Applied(q)
      BY <1>1, <1>2, <1>5, <2>1 DEF Applied
    <3> QED
      BY <1>1, <3>1, SameSquared DEF Books
  <2> QED
    BY <1>4, <2>1
<1>6. ASSUME NEW q \in Posts
      PROVE  /\ outcome'[q] = "none" <=> pc'[q] # "done"
             /\ pc'[q] = "resolve" => todo'[q] = moves'[q] /\ DOMAIN wrote'[q] = {}
             /\ pc'[q] \in {"audit", "commit"} => todo'[q] = {}
  BY <1>1, <1>2 DEF Books
<1> QED
  BY <1>1, <1>3, <1>5, <1>6 DEF Books

\* What a commit does to a row: it is as the posting left it, which nobody else
\* wrote meanwhile.
LEMMA CommitIs ==
    ASSUME Typed, Books, NEW p \in Posts, Commit(p)
    PROVE  /\ pc[p] = "commit" /\ outcome[p] = "none" /\ Applied(p) = moves[p]
           /\ ledger' = ledger \cup moves[p] /\ ledger \cap moves[p] = {}
           /\ UNCHANGED <<line, moves, todo>>
           /\ \A q \in Posts : /\ wrote'[q] = IF q = p THEN <<>> ELSE wrote[q]
                               /\ pc'[q] = IF q = p THEN "done" ELSE pc[q]
                               /\ outcome'[q] = IF q = p THEN "posted" ELSE outcome[q]
           /\ \A r \in Rows : balance'[r] = Seen(p, r)
           /\ \A r \in Rows : r \notin DOMAIN wrote[p] => balance'[r] = balance[r]
           /\ \A q \in Posts \ {p} : \A r \in DOMAIN wrote[q] : r \in Rows /\ r \notin DOMAIN wrote[p]
<1>1. pc[p] = "commit" /\ ledger' = ledger \cup moves[p] /\ UNCHANGED <<line, moves, todo>>
  BY DEF Commit
<1>2. outcome[p] = "none" /\ todo[p] = {}
  BY <1>1 DEF Books
<1>3. ledger \cap moves[p] = {}
  <2>1. \A m \in moves[p] : m.entry = p
    BY DEF Typed
  <2>2. \A m \in ledger : outcome[m.entry] = "posted"
    BY DEF Books
  <2> QED
    BY <1>2, <2>1, <2>2
<1>4. \A q \in Posts : /\ wrote'[q] = IF q = p THEN <<>> ELSE wrote[q]
                       /\ pc'[q] = IF q = p THEN "done" ELSE pc[q]
                       /\ outcome'[q] = IF q = p THEN "posted" ELSE outcome[q]
  BY DEF Commit, Step, Typed
<1>5. balance' = [r \in Rows |-> Seen(p, r)]
  BY DEF Commit
<1>6. \A r \in Rows : r \notin DOMAIN wrote[p] => balance'[r] = balance[r]
  BY <1>5 DEF Seen
<1>7. \A q \in Posts \ {p} : \A r \in DOMAIN wrote[q] : r \in Rows /\ r \notin DOMAIN wrote[p]
  BY DEF Books, Typed
<1> QED
  BY <1>1, <1>2, <1>3, <1>4, <1>5, <1>6, <1>7 DEF Applied

LEMMA CommitKeepsBooks ==
    ASSUME Typed, Books, NEW p \in Posts, Commit(p)
    PROVE  Books'
<1>1. /\ pc[p] = "commit" /\ outcome[p] = "none" /\ Applied(p) = moves[p]
      /\ ledger' = ledger \cup moves[p] /\ UNCHANGED <<moves, todo>>
      /\ \A q \in Posts : /\ wrote'[q] = IF q = p THEN <<>> ELSE wrote[q]
                          /\ pc'[q] = IF q = p THEN "done" ELSE pc[q]
                          /\ outcome'[q] = IF q = p THEN "posted" ELSE outcome[q]
      /\ \A r \in Rows : r \notin DOMAIN wrote[p] => balance'[r] = balance[r]
      /\ \A q \in Posts \ {p} : \A r \in DOMAIN wrote[q] : r \in Rows /\ r \notin DOMAIN wrote[p]
  BY CommitIs
<1>2. DOMAIN <<>> = {}
  OBVIOUS
<1>3. ASSUME NEW q \in Posts, NEW r \in DOMAIN wrote'[q] PROVE rowLock'[r] = q
  <2>1. q # p /\ rowLock[r] = q /\ r \in Rows
    BY <1>1, <1>2, <1>3 DEF Books, Typed
  <2> QED
    BY <2>1 DEF Commit, Release
<1>4. ASSUME NEW m \in ledger' PROVE outcome'[m.entry] = "posted"
  <2>1. CASE m \in ledger
    <3>1. outcome[m.entry] = "posted" /\ m.entry \in Posts
      BY <2>1 DEF Books, Typed, Movement
    <3> QED
      BY <1>1, <3>1
  <2>2. CASE m \in moves[p]
    <3>1. m.entry = p
      BY <2>2 DEF Typed
    <3> QED
      BY <1>1, <3>1
  <2> QED
    BY <1>1, <1>4, <2>1, <2>2
<1>5. ASSUME NEW q \in Posts, pc'[q] # "done", NEW r \in Rows PROVE Squared(q, r)'
  <2>1. q # p /\ pc[q] # "done" /\ wrote'[q] = wrote[q] /\ Applied(q)' = Applied(q)
    BY <1>1, <1>5 DEF Applied
  <2>2. Squared(q, r)
    BY <2>1 DEF Books
  <2>3. CASE r \in DOMAIN wrote[q]
    BY <1>1, <2>1, <2>2, <2>3, SameSquared
  <2>4. CASE r \notin DOMAIN wrote[q]
    <3> DEFINE d == Cardinality(Drawn(Applied(q), r))  b == Cardinality(Brought(Applied(q), r))
    <3>1. d \in Nat /\ b \in Nat
      BY AppliedTyped, MovedFinite
    <3>2. Seen(q, r) = balance[r] /\ balance[r] \in Nat
      BY <2>4, SeenNat DEF Seen
    <3>3. balance[r] + d = balance[r] + b
      BY <2>2, <3>2 DEF Squared
    <3>4. d = b
      <4> HIDE DEF d, b
      <4> QED
        BY <3>1, <3>2, <3>3
    <3>5. Seen(q, r)' = balance'[r]
      BY <2>1, <2>4 DEF Seen
    <3> QED
      BY <2>1, <3>4, <3>5 DEF Squared
  <2> QED
    BY <2>3, <2>4
<1>6. ASSUME NEW q \in Posts
      PROVE  /\ outcome'[q] = "none" <=> pc'[q] # "done"
             /\ pc'[q] = "resolve" => todo'[q] = moves'[q] /\ DOMAIN wrote'[q] = {}
             /\ pc'[q] \in {"audit", "commit"} => todo'[q] = {}
  BY <1>1, <1>2 DEF Books
<1> QED
  BY <1>3, <1>4, <1>5, <1>6 DEF Books

LEMMA BooksNext ==
    Typed /\ Books /\ [Next]_vars => Books'
<1> SUFFICES ASSUME Typed, Books, [Next]_vars PROVE Books'
  OBVIOUS
<1>1. ASSUME NEW p \in Posts, Resolve(p) PROVE Books'
  BY <1>1, ResolveIs, PlansKeepsBooks, AbortKeepsBooks
<1>2. ASSUME NEW p \in Posts, LockShelf(p) \/ Audit(p) PROVE Books'
  BY <1>2, RestKeepsBooks
<1>3. ASSUME NEW p \in Posts, Apply(p) PROVE Books'
  <2>1. Due(p) \subseteq todo[p]
    BY DEF Due
  <2> QED
    BY <1>3, <2>1, ApplyIs, MovesKeepsBooks, AbortKeepsBooks
<1>4. ASSUME NEW p \in Posts, Commit(p) PROVE Books'
  BY <1>4, CommitKeepsBooks
<1>5. ASSUME NEW p \in Posts, Crash(p) \/ BreakDeadlock(p) PROVE Books'
  <2>1. Abort(p, "dead") /\ pc[p] # "done"
    BY <1>5 DEF Crash, BreakDeadlock
  <2> QED
    BY <2>1, AbortKeepsBooks
<1>6. CASE UNCHANGED vars
  <2>1. UNCHANGED <<balance, ledger, wrote, moves, todo, rowLock, outcome, pc>>
    BY <1>6 DEF vars, dataVars, planVars, lockVars
  <2> QED
    BY <2>1 DEF Books, Squared, Seen, Applied
<1> QED
  BY <1>1, <1>2, <1>3, <1>4, <1>5, <1>6 DEF Next, Post

LEMMA LedgerInitially ==
    Init => LedgerAddsUp
<1> SUFFICES ASSUME Init, NEW r \in Rows
             PROVE  balance[r] + Cardinality(Drawn(ledger, r)) = Opening[r] + Cardinality(Brought(ledger, r))
  BY DEF LedgerAddsUp
<1> QED
  BY NothingMoved DEF Init

\* Only a commit writes the balances and the ledger.
LEMMA BooksAreStill ==
    ASSUME Typed, [Next]_vars, \A p \in Posts : ~Commit(p)
    PROVE  UNCHANGED <<balance, ledger>>
<1>1. ASSUME NEW p \in Posts, Resolve(p) PROVE UNCHANGED <<balance, ledger>>
  BY <1>1, ResolveIs DEF Plans, Abort, dataVars
<1>2. ASSUME NEW p \in Posts, Apply(p) PROVE UNCHANGED <<balance, ledger>>
  BY <1>2, ApplyIs DEF Moves, Abort, dataVars
<1>3. ASSUME NEW p \in Posts, LockShelf(p) \/ Audit(p) \/ Crash(p) \/ BreakDeadlock(p)
      PROVE  UNCHANGED <<balance, ledger>>
  BY <1>3 DEF LockShelf, Audit, Crash, BreakDeadlock, Abort, dataVars
<1>4. CASE UNCHANGED vars
  BY <1>4 DEF vars, dataVars
<1> QED
  BY <1>1, <1>2, <1>3, <1>4 DEF Next, Post

LEMMA LedgerNext ==
    Typed /\ Books /\ LedgerAddsUp /\ [Next]_vars => LedgerAddsUp'
<1> SUFFICES ASSUME Typed, Books, LedgerAddsUp, [Next]_vars PROVE LedgerAddsUp'
  OBVIOUS
<1>1. CASE \A p \in Posts : ~Commit(p)
  BY <1>1, BooksAreStill DEF LedgerAddsUp
<1>2. ASSUME NEW p \in Posts, Commit(p), NEW r \in Rows
      PROVE  balance'[r] + Cardinality(Drawn(ledger', r)) = Opening[r] + Cardinality(Brought(ledger', r))
  <2>1. /\ ledger' = ledger \cup moves[p] /\ ledger \cap moves[p] = {}
        /\ Applied(p) = moves[p] /\ balance'[r] = Seen(p, r) /\ pc[p] = "commit"
    BY <1>2, CommitIs
  <2>2. /\ moves[p] \in SUBSET Movement /\ IsFiniteSet(moves[p])
        /\ ledger \in SUBSET Movement /\ IsFiniteSet(ledger)
    BY AppliedTyped DEF Typed
  <2> DEFINE d == Cardinality(Drawn(ledger, r))  b == Cardinality(Brought(ledger, r))
             d1 == Cardinality(Drawn(moves[p], r))  b1 == Cardinality(Brought(moves[p], r))
  <2>3. d \in Nat /\ b \in Nat /\ d1 \in Nat /\ b1 \in Nat
    BY <2>2, MovedFinite
  <2>4. /\ Cardinality(Drawn(ledger \cup moves[p], r)) = d + d1
        /\ Cardinality(Brought(ledger \cup moves[p], r)) = b + b1
    BY <2>1, <2>2, MovedJoin
  <2>5. Seen(p, r) + d1 = balance[r] + b1
    BY <2>1 DEF Books, Squared
  <2>6. balance[r] + d = Opening[r] + b
    BY DEF LedgerAddsUp
  <2>7. Seen(p, r) \in Nat /\ balance[r] \in Nat /\ Opening[r] \in Nat
    BY SeenNat, StockFacts
  <2>8. Seen(p, r) + (d + d1) = Opening[r] + (b + b1)
    <3> HIDE DEF d, b, d1, b1
    <3> QED
      BY <2>3, <2>5, <2>6, <2>7
  <2> QED
    BY <2>1, <2>4, <2>8
<1> QED
  BY <1>1, <1>2 DEF LedgerAddsUp

\* The types are right, and no committed balance is negative, for any number of
\* postings, lines, shelves and lots.
THEOREM StockTypes ==
    Spec => []TypeOK
<1>1. Typed => TypeOK
  BY DEF Typed, TypeOK, Movement, Steps
<1> QED
  BY <1>1, TypedInitially, TypedNext, PTL DEF Spec

\* The balances are what the ledger adds up to, whatever postings run together,
\* are refused, die or are ended as the victim of a deadlock.
THEOREM LedgerIsComplete ==
    Spec => []LedgerAddsUp
<1> QED
  BY TypedInitially, TypedNext, BooksInitially, BooksNext, LedgerInitially, LedgerNext, PTL DEF Spec

(***************************************************************************)
(* Plans stand.  Who withdraws from a shelf has its lock to the end, so    *)
(* nobody takes from under a plan; receipts only add to what is there.     *)
(***************************************************************************)
Shelved == Held /\ Lined /\ Fits

LEMMA ShelvedInitially ==
    Init => Shelved
<1> SUFFICES ASSUME Init PROVE Shelved
  OBVIOUS
<1>1. \A p \in Posts : moves[p] = {} /\ todo[p] = {} /\ Applied(p) = {} /\ Due(p) = {}
  BY DEF Init, Applied, Due
<1>2. DOMAIN <<>> = {}
  OBVIOUS
<1>3. \A p \in Posts : PlanFits(p)
  <2> SUFFICES ASSUME NEW p \in Posts, NEW r \in Rows
               PROVE  Cardinality(Drawn(todo[p], r)) <= Seen(p, r)
    BY DEF PlanFits
  <2>1. Seen(p, r) = Opening[r]
    BY <1>2 DEF Init, Seen
  <2>2. todo[p] = {} /\ Cardinality(Drawn({}, r)) = 0 /\ Opening[r] \in Nat
    BY <1>1, NothingMoved, StockFacts
  <2> QED
    BY <2>1, <2>2
<1> QED
  BY <1>1, <1>3 DEF Shelved, Held, Lined, Fits

\* A posting whose shelves, plan and rows nobody touches is where it was.
LEMMA OtherShelved ==
    ASSUME Typed, Shelved, NEW q \in Posts, pc'[q] = pc[q],
           line'[q] = line[q], moves'[q] = moves[q], todo'[q] = todo[q],
           \A s \in Shelves : shelfLock[s] = q => shelfLock'[s] = q
    PROVE  /\ pc'[q] # "done" =>
                /\ \A m \in Applied(q)' : Holds(q, m)'
                /\ Clean(q) => \A m \in moves'[q] : Holds(q, m)'
                /\ pc'[q] = "move" => \A m \in Due(q)' : Holds(q, m)'
           /\ \A m \in moves'[q] :
                /\ m.line \in DOMAIN Lines[q]
                /\ m.line < line'[q] \/ (m.line = line'[q] /\ pc'[q] # "resolve")
                /\ m.qty < 0 => m.row[1] = Lines[q][m.line].from
<1>1. Applied(q)' = Applied(q) /\ Due(q)' = Due(q)
  BY DEF Applied, Due
<1>2. Applied(q) \subseteq moves[q] /\ Due(q) \subseteq moves[q]
  BY DEF Applied, Due, Typed
<1>3. \A m \in moves[q] : m.row[1] \in Shelves
  BY DEF Typed, Movement, Rows
<1>4. \A m \in moves[q] : Holds(q, m) => Holds(q, m)'
  BY <1>3 DEF Holds
<1> QED
  BY <1>1, <1>2, <1>4 DEF Shelved, Held, Lined

LEMMA OtherFits ==
    ASSUME Shelved, NEW q \in Posts, pc'[q] = pc[q], todo'[q] = todo[q],
           \A r \in Rows : Seen(q, r)' = Seen(q, r)
    PROVE  Clean(q) /\ pc'[q] \in {"resolve", "lock", "move"} => PlanFits(q)'
<1> QED
  BY DEF Shelved, Fits, PlanFits

LEMMA AbortKeepsShelved ==
    ASSUME Typed, Shelved, NEW p \in Posts, NEW why, Abort(p, why)
    PROVE  Shelved'
<1>1. UNCHANGED <<balance, line, moves, todo>>
  BY DEF Abort, dataVars
<1>2. \A q \in Posts : /\ wrote'[q] = IF q = p THEN <<>> ELSE wrote[q]
                       /\ pc'[q] = IF q = p THEN "done" ELSE pc[q]
  BY DEF Abort, Step, Typed
<1>3. \A q \in Posts \ {p} : \A s \in Shelves : shelfLock[s] = q => shelfLock'[s] = q
  BY DEF Abort, Release
<1>4. \A q \in Posts \ {p} : \A r \in Rows : Seen(q, r)' = Seen(q, r)
  BY <1>1, <1>2 DEF Seen
<1>5. \A m \in moves'[p] :
        /\ m.line \in DOMAIN Lines[p]
        /\ m.line < line'[p] \/ (m.line = line'[p] /\ pc'[p] # "resolve")
        /\ m.qty < 0 => m.row[1] = Lines[p][m.line].from
  BY <1>1, <1>2 DEF Shelved, Lined
<1>6. Held' /\ Lined'
  BY <1>1, <1>2, <1>3, <1>5, OtherShelved DEF Held, Lined, Clean, AllUnnamed, Takers
<1>7. Fits'
  BY <1>1, <1>2, <1>4, OtherFits DEF Fits, Clean, AllUnnamed, Takers
<1> QED
  BY <1>6, <1>7 DEF Shelved

LEMMA OneTaker ==
    ASSUME NEW p \in Posts, Clean(p), NEW i \in DOMAIN Lines[p], NEW j \in DOMAIN Lines[p],
           Lines[p][i].from \in Shelves, Lines[p][i].from = Lines[p][j].from
    PROVE  i = j
<1> DEFINE T == Takers(p, Lines[p][i].from)
<1>1. i \in T /\ j \in T /\ T \subseteq DOMAIN Lines[p]
  BY DEF Takers
<1>2. IsFiniteSet(T) /\ Cardinality(T) <= 1
  <2>1. DOMAIN Lines[p] = 1..Len(Lines[p]) /\ Len(Lines[p]) \in Nat
    BY StockFacts
  <2>2. IsFiniteSet(1..Len(Lines[p]))
    BY <2>1, FS_Interval
  <2>3. Cardinality(T) <= 1
    BY DEF Clean
  <2> HIDE DEF T
  <2> QED
    BY <1>1, <2>1, <2>2, <2>3, FS_Subset
<1> HIDE DEF T
<1>3. Cardinality({i, j}) <= Cardinality(T)
  BY <1>1, <1>2, FS_Subset
<1>4. i # j => Cardinality({i, j}) = 2
  <2>1. IsFiniteSet({i}) /\ Cardinality({i}) = 1
    BY FS_Singleton
  <2>2. {i, j} = {i} \cup {j}
    OBVIOUS
  <2>3. Cardinality({i} \cup {j}) = IF j \in {i} THEN Cardinality({i}) ELSE Cardinality({i}) + 1
    BY <2>1, FS_AddElement
  <2> QED
    BY <2>1, <2>2, <2>3
<1>5. Cardinality(T) \in Nat
  BY <1>2, FS_CardinalityType
<1> QED
  BY <1>2, <1>3, <1>4, <1>5

\* What a line draws from a row is there; only its source is drawn from.
LEMMA LineDraws ==
    ASSUME balance \in [Rows -> Nat], NEW p \in Posts, NEW i \in DOMAIN Lines[p]
    PROVE  LET l == Lines[p][i] IN
           /\ \A m \in MovesOf(p, i, l) : m.qty < 0 => l.from # Absent /\ m.row[1] = l.from
           /\ \A m \in MovesOf(p, i, l) : m.qty < 0 => m \in Out(p, i, l)
           /\ Unnamed(l) => \A r \in Rows : Cardinality(Drawn(MovesOf(p, i, l), r)) <= balance[r]
<1> DEFINE l == Lines[p][i]
<1>1. \A b \in Lots : Share(l, b) \in Nat
  BY ShareIs
<1>2. l.from \in Shelves \cup {Absent} /\ l.qty \in Nat
  BY LineTyped
<1> HIDE DEF l
<1>3. \A m \in In(p, i, l) : ~(m.qty < 0)
  BY <1>1 DEF In, Shared
<1>4. \A m \in MovesOf(p, i, l) : m.qty < 0 => m \in Out(p, i, l) /\ l.from # Absent
  BY <1>3 DEF MovesOf
<1>5. \A m \in Out(p, i, l) : m.row[1] = l.from
  BY DEF Out
<1>6. ASSUME Unnamed(l), NEW r \in Rows PROVE Cardinality(Drawn(MovesOf(p, i, l), r)) <= balance[r]
  <2> DEFINE out == {m \in MovesOf(p, i, l) : m.row = r /\ m.qty < 0}
  <2>0. balance[r] \in Nat
    OBVIOUS
  <2>1. CASE out = {}
    BY <2>0, <2>1, NoUnits DEF Drawn
  <2>2. CASE out # {}
    <3>1. PICK m : m \in MovesOf(p, i, l) /\ m.row = r /\ m.qty < 0
      BY <2>2
    <3>2. PICK b \in Shared(l) : m = [entry |-> p, line |-> i, row |-> <<l.from, b>>, qty |-> -Share(l, b)]
      BY <1>4, <3>1 DEF Out
    <3>3. b \in Lots /\ r = <<l.from, b>> /\ l.from \in Shelves
      BY <1>2, <1>6, <3>1, <3>2 DEF Shared, Unnamed
    <3>4. out = {m}
      <4> SUFFICES ASSUME NEW n \in out PROVE n = m
        BY <3>1
      <4>1. n \in Out(p, i, l) /\ n.row = r
        BY <1>4
      <4>2. PICK a \in Shared(l) : n = [entry |-> p, line |-> i, row |-> <<l.from, a>>, qty |-> -Share(l, a)]
        BY <4>1 DEF Out
      <4>3. a = b
        BY <3>3, <4>1, <4>2
      <4> QED
        BY <3>2, <4>2, <4>3
    <3>5. m \in Movement
      BY <3>1, PlannedMoves DEF l
    <3>6. Cardinality(Drawn(MovesOf(p, i, l), r)) = -m.qty
      BY <3>1, <3>4, <3>5, UnitsOne DEF Drawn, Size
    <3>7. -m.qty = Taken(l.from, l.qty, b)
      <4>1. Share(l, b) \in Nat /\ Share(l, b) = Taken(l.from, l.qty, b)
        BY <1>1, <1>6, <3>3 DEF Share
      <4> QED
        BY <3>2, <4>1
    <3> QED
      BY <1>2, <3>3, <3>6, <3>7, TakenIs
  <2> QED
    BY <2>1, <2>2
<1> QED
  BY <1>4, <1>5, <1>6 DEF l

LEMMA PlansKeepsHeld ==
    ASSUME Typed, Books, Shelved, NEW p \in Posts, Plans(p)
    PROVE  Held' /\ Lined'
<1> DEFINE i == line[p]  l == Lines[p][i]  new == MovesOf(p, i, l)
<1>1. i \in DOMAIN Lines[p] /\ balance \in [Rows -> Nat] /\ i \in Nat
  BY DEF Typed
<1>2. /\ \A q \in Posts : /\ moves'[q] = IF q = p THEN moves[q] \cup new ELSE moves[q]
                          /\ todo'[q] = IF q = p THEN todo[q] \cup new ELSE todo[q]
      /\ \A q \in Posts \ {p} : line'[q] = line[q] /\ pc'[q] = pc[q]
  BY DEF Plans, Step, Typed
<1>3. pc[p] = "resolve" /\ (\/ pc'[p] = "resolve" /\ line'[p] = i + 1
                            \/ pc'[p] = "lock" /\ line'[p] = i)
  BY DEF Plans, Step, Typed
<1>4. moves[p] = todo[p] /\ Applied(p)' = {}
  BY <1>2, <1>3 DEF Books, Applied
<1>5. /\ \A m \in new : m.line = i
      /\ \A m \in new : m.qty < 0 => l.from # Absent /\ m.row[1] = l.from
  BY <1>1, PlannedMoves, LineDraws
<1>6. \/ ~Unnamed(l) /\ UNCHANGED shelfLock
      \/ Unnamed(l) /\ shelfLock[l.from] \in {Absent, p} /\ shelfLock' = [shelfLock EXCEPT ![l.from] = p]
  BY DEF Plans
<1>7. l.from \in Shelves \cup {Absent}
  BY <1>1, LineTyped
<1>8. \A q \in Posts : \A s \in Shelves : shelfLock[s] = q => shelfLock'[s] = q
  BY <1>6, StockFacts DEF Typed
<1>9. Clean(p) => \A m \in new : Holds(p, m)'
  <2> SUFFICES ASSUME Clean(p), NEW m \in new, m.qty < 0 PROVE shelfLock'[m.row[1]] = p
    BY DEF Holds
  <2>1. l.from # Absent /\ m.row[1] = l.from
    BY <1>5
  <2>2. Unnamed(l) /\ l.from \in Shelves
    BY <1>1, <1>7, <2>1 DEF Clean, AllUnnamed, Unnamed
  <2> QED
    BY <1>6, <2>1, <2>2 DEF Typed
<1>10. Clean(p) => \A m \in moves[p] : Holds(p, m)'
  <2>1. \A m \in moves[p] : m.row[1] \in Shelves
    BY DEF Typed, Movement, Rows
  <2>2. Clean(p) => \A m \in moves[p] : Holds(p, m)
    BY <1>3 DEF Shelved, Held
  <2> QED
    BY <1>8, <2>1, <2>2 DEF Holds
<1>11. \A m \in moves'[p] :
         /\ m.line \in DOMAIN Lines[p]
         /\ m.line < line'[p] \/ (m.line = line'[p] /\ pc'[p] # "resolve")
         /\ m.qty < 0 => m.row[1] = Lines[p][m.line].from
  <2>1. \A m \in new : /\ m.line \in DOMAIN Lines[p]
                       /\ m.line < line'[p] \/ (m.line = line'[p] /\ pc'[p] # "resolve")
                       /\ m.qty < 0 => m.row[1] = Lines[p][m.line].from
    <3> HIDE DEF new
    <3> QED
      BY <1>1, <1>3, <1>5
  <2>2. \A m \in moves[p] : /\ m.line \in DOMAIN Lines[p] /\ m.line < i /\ m.line \in Nat
                            /\ m.qty < 0 => m.row[1] = Lines[p][m.line].from
    BY <1>3 DEF Shelved, Lined, Typed, Movement
  <2>3. ASSUME NEW m \in moves[p]
        PROVE  /\ m.line \in DOMAIN Lines[p]
               /\ m.line < line'[p] \/ (m.line = line'[p] /\ pc'[p] # "resolve")
               /\ m.qty < 0 => m.row[1] = Lines[p][m.line].from
    <3>1. m.line \in DOMAIN Lines[p] /\ (m.qty < 0 => m.row[1] = Lines[p][m.line].from)
      BY <2>2
    <3>2. m.line < i /\ m.line \in Nat
      BY <2>2
    <3>3. m.line < line'[p]
      BY <1>1, <1>3, <3>2
    <3> QED
      BY <3>1, <3>3
  <2>4. moves'[p] = moves[p] \cup new
    BY <1>2
  <2> HIDE DEF new
  <2> QED
    BY <2>1, <2>3, <2>4
<1> HIDE DEF new
<1>12. Held'
  <2> SUFFICES ASSUME NEW q \in Posts, pc'[q] # "done"
               PROVE  /\ \A m \in Applied(q)' : Holds(q, m)'
                      /\ Clean(q) => \A m \in moves'[q] : Holds(q, m)'
                      /\ pc'[q] = "move" => \A m \in Due(q)' : Holds(q, m)'
    BY DEF Held, Clean, AllUnnamed, Takers
  <2>1. CASE q = p
    BY <1>2, <1>3, <1>4, <1>9, <1>10, <2>1
  <2>2. CASE q # p
    BY <1>2, <1>8, <2>2, OtherShelved
  <2> QED
    BY <2>1, <2>2
<1>13. Lined'
  <2> SUFFICES ASSUME NEW q \in Posts
               PROVE  \A m \in moves'[q] :
                        /\ m.line \in DOMAIN Lines[q]
                        /\ m.line < line'[q] \/ (m.line = line'[q] /\ pc'[q] # "resolve")
                        /\ m.qty < 0 => m.row[1] = Lines[q][m.line].from
    BY DEF Lined
  <2>2. CASE q # p
    BY <1>2, <1>8, <2>2, OtherShelved
  <2> QED
    BY <1>11, <2>2
<1> QED
  BY <1>12, <1>13

LEMMA PlansKeepsFits ==
    ASSUME Typed, Books, Shelved, NEW p \in Posts, Plans(p)
    PROVE  Fits'
<1> DEFINE i == line[p]  l == Lines[p][i]  new == MovesOf(p, i, l)
<1>1. i \in DOMAIN Lines[p] /\ balance \in [Rows -> Nat] /\ i \in Nat
  BY DEF Typed
<1>2. /\ UNCHANGED <<balance, wrote>>
      /\ \A q \in Posts : todo'[q] = IF q = p THEN todo[q] \cup new ELSE todo[q]
      /\ \A q \in Posts \ {p} : pc'[q] = pc[q]
      /\ pc[p] = "resolve"
  BY DEF Plans, Step, Typed
<1>3. \A q \in Posts, r \in Rows : Seen(q, r)' = Seen(q, r)
  BY <1>2 DEF Seen
<1>4. ASSUME Clean(p), NEW r \in Rows PROVE Cardinality(Drawn(todo[p] \cup new, r)) <= Seen(p, r)
  <2>1. moves[p] = todo[p] /\ Seen(p, r) = balance[r] /\ balance[r] \in Nat
    BY <1>1, <1>2 DEF Books, Seen
  <2>2. Cardinality(Drawn(todo[p], r)) <= Seen(p, r)
    BY <1>2, <1>4 DEF Shelved, Fits, PlanFits
  <2> DEFINE old == {m \in todo[p] : m.row = r /\ m.qty < 0}
             more == {m \in new : m.row = r /\ m.qty < 0}
             both == {m \in todo[p] \cup new : m.row = r /\ m.qty < 0}
  <2>3. both = old \cup more
    OBVIOUS
  <2>4. more = {} \/ (old = {} /\ Unnamed(l))
    <3> SUFFICES ASSUME NEW n \in more PROVE old = {} /\ Unnamed(l)
      OBVIOUS
    <3>1. l.from # Absent /\ r[1] = l.from /\ l.from \in Shelves /\ Unnamed(l)
      BY <1>1, <1>4, LineDraws, LineTyped DEF Clean, AllUnnamed, Unnamed
    <3>2. ASSUME NEW m \in old PROVE FALSE
      <4>1. m \in moves[p] /\ m.row = r /\ m.qty < 0
        BY <2>1
      <4>2. m.line \in DOMAIN Lines[p] /\ m.line < i /\ Lines[p][m.line].from = l.from /\ m.line \in Nat
        BY <1>2, <3>1, <4>1 DEF Shelved, Lined, Typed, Movement
      <4>3. m.line = i
        BY <1>1, <1>4, <3>1, <4>2, OneTaker
      <4> QED
        BY <1>1, <4>2, <4>3
    <3> QED
      BY <3>1, <3>2
  <2>5. CASE more = {}
    <3>1. both = old
      BY <2>3, <2>5
    <3> QED
      BY <2>2, <3>1 DEF Drawn
  <2>6. CASE old = {} /\ Unnamed(l)
    <3>1. both = more
      BY <2>3, <2>6
    <3>2. Cardinality(Drawn(new, r)) <= balance[r]
      BY <1>1, <2>6, LineDraws
    <3> QED
      BY <2>1, <3>1, <3>2 DEF Drawn
  <2> QED
    BY <2>4, <2>5, <2>6
<1> HIDE DEF new
<1> SUFFICES ASSUME NEW q \in Posts, Clean(q), pc'[q] \in {"resolve", "lock", "move"}
             PROVE  PlanFits(q)'
  BY DEF Fits, Clean, AllUnnamed, Takers
<1>5. CASE q = p
  BY <1>2, <1>3, <1>4, <1>5 DEF PlanFits
<1>6. CASE q # p
  BY <1>2, <1>3, <1>6, OtherFits
<1> QED
  BY <1>5, <1>6

LEMMA LockKeepsShelved ==
    ASSUME Typed, Shelved, NEW p \in Posts, LockShelf(p)
    PROVE  Shelved'
<1>1. /\ UNCHANGED <<balance, line, moves, todo, wrote>>
      /\ \A q \in Posts \ {p} : pc'[q] = pc[q]
      /\ pc[p] = "lock" /\ pc'[p] = "move"
  BY DEF LockShelf, dataVars, planVars, Step, Typed
<1>2. PICK m \in Due(p) :
        \/ m.qty >= 0 /\ UNCHANGED shelfLock
        \/ m.qty < 0 /\ Mine(shelfLock[m.row[1]], p) /\ shelfLock' = [shelfLock EXCEPT ![m.row[1]] = p]
  BY DEF LockShelf
<1>3. Due(p) \subseteq moves[p] /\ Due(p) \subseteq todo[p]
  BY DEF Due, Typed
<1>4. \A n \in moves[p] : /\ n.row[1] \in Shelves /\ n.row[2] \in Nat /\ n.qty \in Int /\ n.line \in Nat
                          /\ n.qty < 0 => n.row[1] = Lines[p][n.line].from
  <2> SUFFICES ASSUME NEW n \in moves[p]
               PROVE  /\ n.row[1] \in Shelves /\ n.row[2] \in Nat /\ n.qty \in Int /\ n.line \in Nat
                      /\ n.qty < 0 => n.row[1] = Lines[p][n.line].from
    OBVIOUS
  <2>1. n \in Movement
    BY DEF Typed
  <2>2. n.row[1] \in Shelves /\ n.row[2] \in Lots /\ n.qty \in Int /\ n.line \in Nat
    BY <2>1 DEF Movement, Rows
  <2>3. Lots \subseteq Nat
    BY StockFacts
  <2> QED
    BY <2>2, <2>3 DEF Shelved, Lined
<1>5. \A q \in Posts : \A s \in Shelves : shelfLock[s] = q => shelfLock'[s] = q
  BY <1>2, StockFacts DEF Mine, Typed
<1>6. \A n \in Due(p) : Holds(p, n)'
  <2> SUFFICES ASSUME NEW n \in Due(p), n.qty < 0 PROVE shelfLock'[n.row[1]] = p
    BY DEF Holds
  <2>1. m.qty < 0 /\ n.row[1] = m.row[1]
    <3>1. CASE n = m
      BY <3>1
    <3>2. CASE n # m
      <4>1. Before(m, n) /\ Before(n, m)
        BY <1>3, <3>2 DEF Due
      <4>2. m.line = n.line /\ m.qty < 0
        BY <1>3, <1>4, <4>1 DEF Before
      <4> QED
        BY <1>3, <1>4, <4>2
    <3> QED
      BY <3>1, <3>2
  <2>2. m.qty \in Int /\ m.row[1] \in Shelves
    BY <1>3, <1>4
  <2> QED
    BY <1>2, <2>1, <2>2 DEF Typed
<1>7. Held'
  <2> SUFFICES ASSUME NEW q \in Posts, pc'[q] # "done"
               PROVE  /\ \A n \in Applied(q)' : Holds(q, n)'
                      /\ Clean(q) => \A n \in moves'[q] : Holds(q, n)'
                      /\ pc'[q] = "move" => \A n \in Due(q)' : Holds(q, n)'
    BY DEF Held, Clean, AllUnnamed, Takers
  <2>1. CASE q = p
    <3>1. Applied(p)' = Applied(p) /\ Due(p)' = Due(p)
      BY <1>1 DEF Applied, Due
    <3>2. \A n \in moves[p] : Holds(p, n) => Holds(p, n)'
      BY <1>4, <1>5 DEF Holds
    <3>3. (\A n \in Applied(p) : Holds(p, n)) /\ (Clean(p) => \A n \in moves[p] : Holds(p, n))
      BY <1>1 DEF Shelved, Held
    <3>4. Applied(p) \subseteq moves[p]
      BY DEF Applied
    <3> QED
      BY <1>1, <1>6, <2>1, <3>1, <3>2, <3>3, <3>4
  <2>2. CASE q # p
    BY <1>1, <1>5, <2>2, OtherShelved
  <2> QED
    BY <2>1, <2>2
<1>8. Lined'
  BY <1>1 DEF Shelved, Lined
<1>9. Fits'
  BY <1>1 DEF Shelved, Fits, PlanFits, Seen, Clean, AllUnnamed, Takers
<1> QED
  BY <1>7, <1>8, <1>9 DEF Shelved

LEMMA AuditKeepsShelved ==
    ASSUME Typed, Shelved, NEW p \in Posts, Audit(p)
    PROVE  Shelved'
<1>1. /\ UNCHANGED <<balance, line, moves, todo, wrote, shelfLock>>
      /\ \A q \in Posts \ {p} : pc'[q] = pc[q]
      /\ pc[p] = "audit" /\ pc'[p] = "commit"
  BY DEF Audit, dataVars, planVars, Step, Typed
<1>2. Held'
  BY <1>1 DEF Shelved, Held, Holds, Applied, Due, Clean, AllUnnamed, Takers
<1>3. Lined'
  BY <1>1 DEF Shelved, Lined
<1>4. Fits'
  BY <1>1 DEF Shelved, Fits, PlanFits, Seen, Clean, AllUnnamed, Takers
<1> QED
  BY <1>2, <1>3, <1>4 DEF Shelved

LEMMA MovesKeepsShelved ==
    ASSUME Typed, Shelved, NEW p \in Posts, NEW m \in Due(p), Moves(p, m)
    PROVE  Shelved'
<1>1. UNCHANGED <<balance, line, moves, shelfLock>>
  BY DEF Moves
<1>2. m \in todo[p]
  BY DEF Due
<1>3. /\ m \in Movement /\ m.row \in Rows /\ m.qty \in Int
      /\ \A q \in Posts \ {p} : wrote'[q] = wrote[q] /\ todo'[q] = todo[q] /\ pc'[q] = pc[q]
      /\ todo'[p] = todo[p] \ {m}
      /\ pc[p] = "move" /\ pc'[p] \in {"audit", "lock"}
      /\ \A r \in Rows : Seen(p, r)' = IF r = m.row THEN Seen(p, r) + m.qty ELSE Seen(p, r)
      /\ Applied(p)' = Applied(p) \cup {m}
  BY <1>2, MovesIs
<1>4. Holds(p, m)
  BY <1>3 DEF Shelved, Held
<1>5. Held'
  <2> SUFFICES ASSUME NEW q \in Posts, pc'[q] # "done"
               PROVE  /\ \A n \in Applied(q)' : Holds(q, n)'
                      /\ Clean(q) => \A n \in moves'[q] : Holds(q, n)'
                      /\ pc'[q] = "move" => \A n \in Due(q)' : Holds(q, n)'
    BY DEF Held, Clean, AllUnnamed, Takers
  <2>1. CASE q = p
    <3>1. (\A n \in Applied(p) : Holds(p, n)) /\ (Clean(p) => \A n \in moves[p] : Holds(p, n))
      BY <1>3 DEF Shelved, Held
    <3>2. \A n : Holds(p, n) => Holds(p, n)'
      BY <1>1 DEF Holds
    <3> QED
      BY <1>1, <1>3, <1>4, <2>1, <3>1, <3>2
  <2>2. CASE q # p
    BY <1>1, <1>3, <2>2, OtherShelved
  <2> QED
    BY <2>1, <2>2
<1>6. Lined'
  <2> SUFFICES ASSUME NEW q \in Posts, NEW n \in moves'[q]
               PROVE  /\ n.line \in DOMAIN Lines[q]
                      /\ n.line < line'[q] \/ (n.line = line'[q] /\ pc'[q] # "resolve")
                      /\ n.qty < 0 => n.row[1] = Lines[q][n.line].from
    BY DEF Lined
  <2>1. pc'[q] = "resolve" => pc[q] = "resolve"
    BY <1>3
  <2> QED
    BY <1>1, <2>1 DEF Shelved, Lined
<1>7. ASSUME Clean(p) PROVE PlanFits(p)'
  <2> SUFFICES ASSUME NEW r \in Rows PROVE Cardinality(Drawn(todo'[p], r)) <= Seen(p, r)'
    BY DEF PlanFits
  <2> DEFINE rest == todo[p] \ {m}
             d == Cardinality(Drawn(rest, r))  d1 == Cardinality(Drawn({m}, r))
  <2>1. /\ rest \in SUBSET Movement /\ IsFiniteSet(rest) /\ {m} \in SUBSET Movement
        /\ IsFiniteSet({m}) /\ rest \cap {m} = {} /\ rest \cup {m} = todo[p]
    <3>1. todo[p] \in SUBSET Movement /\ IsFiniteSet(todo[p])
      BY AppliedTyped
    <3>2. rest \in SUBSET todo[p] /\ rest \cap {m} = {} /\ rest \cup {m} = todo[p]
      BY <1>2
    <3> HIDE DEF rest
    <3> QED
      BY <1>3, <3>1, <3>2, FS_Subset, FS_Singleton
  <2> HIDE DEF rest
  <2>2. d \in Nat /\ Cardinality(Drawn(todo[p], r)) = d + d1
    <3>1. Cardinality(Drawn(rest \cup {m}, r)) = d + d1
      BY <2>1, MovedJoin
    <3> QED
      BY <2>1, <3>1, MovedFinite
  <2>3. d1 = IF m.row = r /\ m.qty < 0 THEN -m.qty ELSE 0
    BY <1>3, MovedOne
  <2>4. Cardinality(Drawn(todo[p], r)) <= Seen(p, r)
    BY <1>3, <1>7 DEF Shelved, Fits, PlanFits
  <2>5. Seen(p, r) \in Nat
    BY SeenNat
  <2>6. Seen(p, r)' = IF r = m.row THEN Seen(p, r) + m.qty ELSE Seen(p, r)
    BY <1>3
  <2>7. d <= Seen(p, r)'
    <3> HIDE DEF d, d1
    <3> QED
      BY <1>3, <2>2, <2>3, <2>4, <2>5, <2>6
  <2> QED
    BY <1>3, <2>7 DEF rest
<1>8. Fits'
  <2> SUFFICES ASSUME NEW q \in Posts, Clean(q), pc'[q] \in {"resolve", "lock", "move"}
               PROVE  PlanFits(q)'
    BY DEF Fits, Clean, AllUnnamed, Takers
  <2>1. CASE q = p
    BY <1>7, <2>1
  <2>2. CASE q # p
    <3>1. \A r \in Rows : Seen(q, r)' = Seen(q, r)
      BY <1>1, <1>3, <2>2 DEF Seen
    <3> QED
      BY <1>3, <2>2, <3>1, OtherFits
  <2> QED
    BY <2>1, <2>2
<1> QED
  BY <1>5, <1>6, <1>8 DEF Shelved

LEMMA CommitKeepsShelved ==
    ASSUME Typed, Books, Shelved, NEW p \in Posts, Commit(p)
    PROVE  Shelved'
<1>1. /\ pc[p] = "commit" /\ Applied(p) = moves[p] /\ UNCHANGED <<line, moves, todo>>
      /\ \A q \in Posts : /\ wrote'[q] = IF q = p THEN <<>> ELSE wrote[q]
                          /\ pc'[q] = IF q = p THEN "done" ELSE pc[q]
      /\ \A r \in Rows : balance'[r] = Seen(p, r)
  BY CommitIs
<1>2. \A q \in Posts \ {p} : \A s \in Shelves : shelfLock[s] = q => shelfLock'[s] = q
  BY DEF Commit, Release
<1>3. Held'
  <2> SUFFICES ASSUME NEW q \in Posts, pc'[q] # "done"
               PROVE  /\ \A n \in Applied(q)' : Holds(q, n)'
                      /\ Clean(q) => \A n \in moves'[q] : Holds(q, n)'
                      /\ pc'[q] = "move" => \A n \in Due(q)' : Holds(q, n)'
    BY DEF Held, Clean, AllUnnamed, Takers
  <2>1. q # p
    BY <1>1
  <2> QED
    BY <1>1, <1>2, <2>1, OtherShelved
<1>4. Lined'
  <2> SUFFICES ASSUME NEW q \in Posts, NEW n \in moves'[q]
               PROVE  /\ n.line \in DOMAIN Lines[q]
                      /\ n.line < line'[q] \/ (n.line = line'[q] /\ pc'[q] # "resolve")
                      /\ n.qty < 0 => n.row[1] = Lines[q][n.line].from
    BY DEF Lined
  <2>1. pc'[q] = "resolve" => pc[q] = "resolve"
    BY <1>1
  <2> QED
    BY <1>1, <2>1 DEF Shelved, Lined
<1>5. ASSUME NEW q \in Posts, q # p, Clean(q), pc[q] \in {"resolve", "lock", "move"}, NEW r \in Rows
      PROVE  Cardinality(Drawn(todo[q], r)) <= Seen(q, r)'
  <2>1. Cardinality(Drawn(todo[q], r)) <= Seen(q, r)
    BY <1>5 DEF Shelved, Fits, PlanFits
  <2>2. Seen(q, r) \in Nat /\ balance[r] \in Nat /\ Seen(p, r) \in Nat
    BY SeenNat
  <2>3. wrote'[q] = wrote[q]
    BY <1>1, <1>5
  <2>4. CASE r \in DOMAIN wrote[q]
    BY <2>1, <2>3, <2>4 DEF Seen
  <2>5. CASE r \notin DOMAIN wrote[q]
    <3>1. Seen(q, r)' = Seen(p, r) /\ Seen(q, r) = balance[r]
      BY <1>1, <2>3, <2>5 DEF Seen
    <3> DEFINE out == {m \in todo[q] : m.row = r /\ m.qty < 0}
    <3>2. CASE out = {}
      BY <2>2, <3>1, <3>2, NoUnits DEF Drawn
    <3>3. CASE out # {}
      <4>1. PICK m : m \in todo[q] /\ m.row = r /\ m.qty < 0
        BY <3>3
      <4>2. shelfLock[r[1]] = q
        BY <1>5, <4>1 DEF Shelved, Held, Holds, Typed
      <4>3. \A n \in moves[p] : ~(n.row = r /\ n.qty < 0)
        BY <1>1, <1>5, <4>2 DEF Shelved, Held, Holds
      <4>4. Cardinality(Drawn(Applied(p), r)) = 0
        <5>1. {n \in moves[p] : n.row = r /\ n.qty < 0} = {}
          BY <4>3
        <5> QED
          BY <1>1, <5>1, NoUnits DEF Drawn
      <4>5. Cardinality(Brought(Applied(p), r)) \in Nat
        BY AppliedTyped, MovedFinite
      <4>6. Seen(p, r) + 0 = balance[r] + Cardinality(Brought(Applied(p), r))
        BY <1>1, <4>4 DEF Books, Squared
      <4>7. Seen(p, r) >= balance[r]
        BY <2>2, <4>5, <4>6
      <4>8. Cardinality(Drawn(todo[q], r)) \in Nat
        BY AppliedTyped, MovedFinite
      <4> QED
        BY <2>1, <2>2, <3>1, <4>7, <4>8
    <3> QED
      BY <3>2, <3>3
  <2> QED
    BY <2>4, <2>5
<1>6. Fits'
  <2> SUFFICES ASSUME NEW q \in Posts, Clean(q), pc'[q] \in {"resolve", "lock", "move"}
               PROVE  PlanFits(q)'
    BY DEF Fits, Clean, AllUnnamed, Takers
  <2>1. q # p /\ pc'[q] = pc[q]
    BY <1>1
  <2> QED
    BY <1>1, <1>5, <2>1 DEF PlanFits
<1> QED
  BY <1>3, <1>4, <1>6 DEF Shelved

LEMMA ShelvedNext ==
    Typed /\ Books /\ Shelved /\ [Next]_vars => Shelved'
<1> SUFFICES ASSUME Typed, Books, Shelved, [Next]_vars PROVE Shelved'
  OBVIOUS
<1>1. ASSUME NEW p \in Posts, Resolve(p) PROVE Shelved'
  <2>1. CASE Plans(p)
    BY <2>1, PlansKeepsHeld, PlansKeepsFits DEF Shelved
  <2> QED
    BY <1>1, <2>1, ResolveIs, AbortKeepsShelved
<1>2. ASSUME NEW p \in Posts, LockShelf(p) \/ Audit(p) PROVE Shelved'
  BY <1>2, LockKeepsShelved, AuditKeepsShelved
<1>3. ASSUME NEW p \in Posts, Apply(p) PROVE Shelved'
  BY <1>3, ApplyIs, MovesKeepsShelved, AbortKeepsShelved
<1>4. ASSUME NEW p \in Posts, Commit(p) PROVE Shelved'
  BY <1>4, CommitKeepsShelved
<1>5. ASSUME NEW p \in Posts, Crash(p) \/ BreakDeadlock(p) PROVE Shelved'
  BY <1>5, AbortKeepsShelved DEF Crash, BreakDeadlock
<1>6. CASE UNCHANGED vars
  <2>1. UNCHANGED <<balance, wrote, line, moves, todo, shelfLock, pc>>
    BY <1>6 DEF vars, dataVars, planVars, lockVars
  <2>2. Held' /\ Lined'
    BY <2>1 DEF Shelved, Held, Holds, Applied, Due, Lined, Clean, AllUnnamed, Takers
  <2>3. Fits'
    BY <2>1 DEF Shelved, Fits, PlanFits, Seen, Clean, AllUnnamed, Takers
  <2> QED
    BY <2>2, <2>3 DEF Shelved
<1> QED
  BY <1>1, <1>2, <1>3, <1>4, <1>5, <1>6 DEF Next, Post

\* What was planned for unnamed lines, one to a shelf, is there when it is taken,
\* whoever else posts: the shelf stays locked, and only withdrawals take from it.
THEOREM PlansHold ==
    Spec => []PlanStands
<1>1. Shelved => PlanStands
  BY DEF Shelved, Fits, PlanStands, Clean
<1> QED
  BY <1>1, TypedInitially, TypedNext, BooksInitially, BooksNext, ShelvedInitially, ShelvedNext,
     PTL DEF Spec

(***************************************************************************)
(* First in, first out.  The units of a shelf have places, lot after lot;  *)
(* what is taken of the lots are the units at the first places, so it adds *)
(* up to what was asked.                                                   *)
(***************************************************************************)
LEMMA InPile ==
    ASSUME NEW x, NEW n, NEW u \in {x} \X (1..n)
    PROVE  u[1] = x /\ u[2] \in 1..n /\ u = <<u[1], u[2]>>
<1> QED
  OBVIOUS

LEMMA StockUnit ==
    ASSUME NEW s, NEW lots, NEW u \in Stock(s, lots)
    PROVE  u[1] \in lots /\ u[2] \in 1..balance[<<s, u[1]>>] /\ u = <<u[1], u[2]>>
<1>1. PICK b \in lots : u \in {b} \X (1..balance[<<s, b>>])
  BY InStock
<1>2. u[1] = b /\ u[2] \in 1..balance[<<s, b>>] /\ u = <<u[1], u[2]>>
  BY <1>1, InPile
<1> QED
  BY <1>2

LEMMA OlderAndThis ==
    ASSUME balance \in [Rows -> Nat], NEW s \in Shelves, NEW lots \in SUBSET Lots,
           NEW b \in lots, \A a \in Lots : a < b => a \in lots
    PROVE  Older(s, b) + balance[<<s, b>>] <= Cardinality(Stock(s, lots))
<1> DEFINE older == Stock(s, {a \in Lots : a < b})  this == {b} \X (1..balance[<<s, b>>])
<1>1. balance[<<s, b>>] \in Nat /\ b \in Nat
  BY StockFacts DEF Rows
<1>2. IsFiniteSet(older) /\ Cardinality(older) \in Nat
  BY StockFinite
<1>3. IsFiniteSet(this) /\ Cardinality(this) = balance[<<s, b>>]
  BY <1>1, Pile
<1>4. older \cap this = {}
  <2> SUFFICES ASSUME NEW u \in older, u \in this PROVE FALSE
    OBVIOUS
  <2>1. u[1] \in {a \in Lots : a < b}
    BY StockUnit
  <2>2. u[1] = b
    BY InPile
  <2>3. b < b
    BY <2>1, <2>2
  <2> QED
    BY <1>1, <2>3
<1>5. older \cup this \subseteq Stock(s, lots)
  <2>1. {a \in Lots : a < b} \subseteq lots /\ b \in lots
    OBVIOUS
  <2>2. \A u : u \in Stock(s, lots) <=> \E a \in lots : u \in {a} \X (1..balance[<<s, a>>])
    BY InStock
  <2>3. this \subseteq Stock(s, lots)
    BY <2>1, <2>2
  <2>4. older \subseteq Stock(s, lots)
    BY <2>1 DEF Stock
  <2> QED
    BY <2>3, <2>4
<1>6. IsFiniteSet(Stock(s, lots)) /\ Cardinality(Stock(s, lots)) \in Nat
  BY StockFinite
<1>7. Cardinality(older) = Older(s, b)
  BY DEF Older
<1> HIDE DEF older, this
<1>8. Cardinality(older \cup this) = Cardinality(older) + Cardinality(this)
  <2>1. Cardinality(older \cup this) = Cardinality(older) + Cardinality(this) - Cardinality(older \cap this)
    BY <1>2, <1>3, FS_Union
  <2>2. Cardinality(older \cap this) = 0
    BY <1>4, FS_EmptySet
  <2>3. Cardinality(this) \in Nat
    BY <1>1, <1>3
  <2> DEFINE o == Cardinality(older)  t == Cardinality(this)
             u == Cardinality(older \cup this)  i == Cardinality(older \cap this)
  <2>4. u = o + t - i /\ i = 0 /\ o \in Nat /\ t \in Nat
    BY <1>2, <2>1, <2>2, <2>3
  <2>5. u = o + t
    <3> HIDE DEF o, t, u, i
    <3> QED
      BY <2>4
  <2> QED
    BY <2>5
<1>9. Cardinality(older \cup this) <= Cardinality(Stock(s, lots))
  BY <1>5, <1>6, FS_Subset
<1> QED
  BY <1>3, <1>7, <1>8, <1>9

Place(s, b, k) == Older(s, b) + k

LEMMA OlderGrows ==
    ASSUME balance \in [Rows -> Nat], NEW s \in Shelves, NEW b \in Lots, NEW c \in Lots, b < c
    PROVE  Older(s, b) + balance[<<s, b>>] <= Older(s, c)
<1> DEFINE lots == {a \in Lots : a < c}
<1>1. lots \in SUBSET Lots /\ b \in lots
  OBVIOUS
<1>2. ASSUME NEW a \in Lots, a < b PROVE a \in lots
  <2>1. a \in Int /\ b \in Int /\ c \in Int
    BY StockFacts
  <2>2. a < c
    BY <1>2, <2>1
  <2> QED
    BY <2>2
<1> HIDE DEF lots
<1>3. Older(s, b) + balance[<<s, b>>] <= Cardinality(Stock(s, lots))
  BY <1>1, <1>2, OlderAndThis
<1> QED
  BY <1>3 DEF Older, lots

LEMMA PlaceOnce ==
    ASSUME balance \in [Rows -> Nat], NEW s \in Shelves, NEW b \in Lots, NEW c \in Lots,
           NEW k \in 1..balance[<<s, b>>], NEW j \in 1..balance[<<s, c>>], Place(s, b, k) = Place(s, c, j)
    PROVE  b = c /\ k = j
<1> DEFINE ob == Older(s, b)  oc == Older(s, c)  nb == balance[<<s, b>>]  nc == balance[<<s, c>>]
<1>1. ob \in Nat /\ oc \in Nat /\ nb \in Nat /\ nc \in Nat
  BY TakenIs
<1>2. k \in 1..nb /\ j \in 1..nc /\ ob + k = oc + j
  BY DEF Place
<1>3. (b < c => ob + nb <= oc) /\ (c < b => oc + nc <= ob)
  BY OlderGrows
<1>4. b \in Int /\ c \in Int
  BY StockFacts
<1> HIDE DEF ob, oc, nb, nc
<1>5. ~(b < c) /\ ~(c < b)
  BY <1>1, <1>2, <1>3
<1>6. b = c
  BY <1>4, <1>5
<1>7. ob = oc
  BY <1>6 DEF ob, oc
<1> QED
  BY <1>1, <1>2, <1>6, <1>7

\* Every place up to the last has its unit.
LEMMA PlaceTaken ==
    ASSUME balance \in [Rows -> Nat], NEW s \in Shelves, NEW x \in 1..OnShelf(s)
    PROVE  \E b \in Lots : \E k \in 1..balance[<<s, b>>] : Place(s, b, k) = x
<1> DEFINE S == Stock(s, Lots)  n == OnShelf(s)
           place == [u \in S |-> Place(s, u[1], u[2])]
<1>1. IsFiniteSet(S) /\ n = Cardinality(S) /\ n \in Nat
  BY StockFinite DEF OnShelf
<1>2. \A u \in S : u[1] \in Lots /\ u[2] \in 1..balance[<<s, u[1]>>] /\ u = <<u[1], u[2]>>
  BY StockUnit
<1>3. ASSUME NEW u \in S PROVE Place(s, u[1], u[2]) \in 1..n
  <2> DEFINE o == Older(s, u[1])  h == balance[<<s, u[1]>>]  k == u[2]
  <2>1. u[1] \in Lots /\ k \in 1..h
    BY <1>2
  <2>2. o + h <= n
    <3>1. o + h <= Cardinality(Stock(s, Lots))
      BY <2>1, OlderAndThis
    <3> QED
      BY <1>1, <3>1
  <2>3. o \in Nat /\ h \in Nat
    BY <2>1, TakenIs
  <2>4. o + k \in 1..n
    <3> HIDE DEF o, h, k, n
    <3> QED
      BY <1>1, <2>1, <2>2, <2>3
  <2> QED
    BY <2>4 DEF Place
<1>4. ASSUME NEW u \in S, NEW v \in S, Place(s, u[1], u[2]) = Place(s, v[1], v[2])
      PROVE  u = v
  <2>1. /\ u[1] \in Lots /\ u[2] \in 1..balance[<<s, u[1]>>] /\ u = <<u[1], u[2]>>
        /\ v[1] \in Lots /\ v[2] \in 1..balance[<<s, v[1]>>] /\ v = <<v[1], v[2]>>
    BY <1>2
  <2>2. u[1] = v[1] /\ u[2] = v[2]
    BY <1>4, <2>1, PlaceOnce
  <2> QED
    BY <2>1, <2>2
<1>5. place \in Injection(S, 1..n)
  <2> HIDE DEF S, n
  <2> QED
    BY <1>3, <1>4 DEF Injection, IsInjective
<1>6. IsFiniteSet(1..n) /\ Cardinality(1..n) = n
  <2>1. IsFiniteSet(1..n) /\ Cardinality(1..n) = IF 1 > n THEN 0 ELSE n - 1 + 1
    BY <1>1, FS_Interval
  <2> QED
    BY <1>1, <2>1
<1>7. place \in Surjection(S, 1..n)
  <2> HIDE DEF S, n, place
  <2> QED
    BY <1>1, <1>5, <1>6, FS_Injection
<1>8. PICK u \in S : place[u] = x
  <2> HIDE DEF S, n, place
  <2> QED
    BY <1>7 DEF Surjection, n
<1> QED
  BY <1>2, <1>8

\* Movements of one direction, one for each lot of which something is taken, add
\* up to the quantity that was asked.
LEMMA FirstUnits ==
    ASSUME balance \in [Rows -> Nat], NEW s \in Shelves, NEW qty \in Nat, qty <= OnShelf(s),
           NEW G \in SUBSET Movement, IsFiniteSet(G),
           \A m \in G : Size(m) = Taken(s, qty, m.row[2]),
           \A m, n \in G : m.row[2] = n.row[2] => m = n,
           \A b \in Lots : Taken(s, qty, b) > 0 => \E m \in G : m.row[2] = b
    PROVE  Cardinality(Units(G)) = qty
<1> DEFINE U == Units(G)
           place == [u \in U |-> Place(s, u[1].row[2], u[2])]
<1>1. \A m \in G : m.row[2] \in Lots
  BY DEF Movement, Rows
<1>2. ASSUME NEW u \in U
      PROVE  /\ u[1] \in G /\ u[1].row[2] \in Lots /\ u = <<u[1], u[2]>>
             /\ u[2] \in 1..balance[<<s, u[1].row[2]>>]
             /\ Place(s, u[1].row[2], u[2]) \in 1..qty
  <2>1. PICK m \in G : u \in {m} \X (1..Size(m))
    BY InUnits
  <2>2. u[1] = m /\ u[2] \in 1..Taken(s, qty, m.row[2]) /\ u = <<u[1], u[2]>> /\ m.row[2] \in Lots
    BY <1>1, <2>1
  <2> DEFINE b == m.row[2]  k == u[2]
  <2>3. /\ Taken(s, qty, b) \in Nat /\ balance[<<s, b>>] \in Nat /\ Taken(s, qty, b) <= balance[<<s, b>>]
        /\ Older(s, b) \in Nat
        /\ \A j \in 1..balance[<<s, b>>] : j <= Taken(s, qty, b) <=> Older(s, b) + j <= qty
    BY <2>2, TakenIs
  <2>4. k \in 1..balance[<<s, b>>] /\ Older(s, b) + k \in 1..qty
    <3> HIDE DEF b, k
    <3>1. k \in 1..Taken(s, qty, b)
      BY <2>2 DEF b, k
    <3>2. k \in 1..balance[<<s, b>>]
      BY <2>3, <3>1
    <3>3. Older(s, b) + k <= qty
      BY <2>3, <3>1, <3>2
    <3> QED
      BY <2>3, <3>2, <3>3
  <2> QED
    BY <2>2, <2>4 DEF Place
<1>3. \A u, v \in U : Place(s, u[1].row[2], u[2]) = Place(s, v[1].row[2], v[2]) => u = v
  <2> SUFFICES ASSUME NEW u \in U, NEW v \in U,
                      Place(s, u[1].row[2], u[2]) = Place(s, v[1].row[2], v[2])
               PROVE  u = v
    OBVIOUS
  <2> HIDE DEF U
  <2>1. u[1].row[2] = v[1].row[2] /\ u[2] = v[2]
    <3>1. /\ u[1].row[2] \in Lots /\ u[2] \in 1..balance[<<s, u[1].row[2]>>]
          /\ v[1].row[2] \in Lots /\ v[2] \in 1..balance[<<s, v[1].row[2]>>]
      BY <1>2
    <3> QED
      BY <3>1, PlaceOnce
  <2>2. u[1] \in G /\ v[1] \in G /\ u = <<u[1], u[2]>> /\ v = <<v[1], v[2]>>
    BY <1>2
  <2> QED
    BY <2>1, <2>2
<1>4. \A x \in 1..qty : \E u \in U : Place(s, u[1].row[2], u[2]) = x
  <2> SUFFICES ASSUME NEW x \in 1..qty PROVE \E u \in U : Place(s, u[1].row[2], u[2]) = x
    OBVIOUS
  <2>1. x \in 1..OnShelf(s)
    <3>1. OnShelf(s) \in Nat
      BY StockFinite DEF OnShelf
    <3> QED
      BY <3>1
  <2>2. PICK b \in Lots : \E k \in 1..balance[<<s, b>>] : Place(s, b, k) = x
    BY <2>1, PlaceTaken
  <2>3. PICK k \in 1..balance[<<s, b>>] : Place(s, b, k) = x
    BY <2>2
  <2>4. Taken(s, qty, b) \in Nat /\ k <= Taken(s, qty, b)
    BY <2>3, TakenIs DEF Place
  <2>5. balance[<<s, b>>] \in Nat
    BY TakenIs
  <2>6. PICK m \in G : m.row[2] = b
    BY <2>4, <2>5
  <2>7. k \in 1..Size(m)
    BY <2>4, <2>5, <2>6
  <2>8. <<m, k>> \in U
    BY <2>7, InUnits
  <2> QED
    BY <2>3, <2>6, <2>8
<1>5. place \in Bijection(U, 1..qty)
  <2> HIDE DEF U
  <2>1. place \in [U -> 1..qty]
    BY <1>2
  <2> QED
    BY <1>3, <1>4, <2>1 DEF Bijection, Injection, Surjection, IsInjective
<1>6. IsFiniteSet(U)
  BY UnitsFinite
<1>7. Cardinality(1..qty) = qty
  <2>1. Cardinality(1..qty) = IF 1 > qty THEN 0 ELSE qty - 1 + 1
    BY FS_Interval
  <2> QED
    BY <2>1
<1>8. Cardinality(1..qty) = Cardinality(U)
  <2> HIDE DEF U, place
  <2> QED
    BY <1>5, <1>6, FS_Bijection DEF ExistsBijection
<1> QED
  BY <1>7, <1>8

(***************************************************************************)
(* Postings in full.                                                       *)
(***************************************************************************)
\* The movements of a line in one direction, and what they add up to.
LEMMA AddsUp ==
    ASSUME balance \in [Rows -> Nat], NEW p \in Posts, NEW i \in DOMAIN Lines[p],
           Unnamed(Lines[p][i]) => OnShelf(Lines[p][i].from) >= Lines[p][i].qty,
           NEW G \in SUBSET Movement, IsFiniteSet(G),
           \A m \in G : m.row[2] \in Shared(Lines[p][i]) /\ Size(m) = Share(Lines[p][i], m.row[2]),
           \A m, n \in G : m.row[2] = n.row[2] => m = n,
           \A b \in Shared(Lines[p][i]) : \E m \in G : m.row[2] = b
    PROVE  Cardinality(Units(G)) = Lines[p][i].qty
<1> DEFINE l == Lines[p][i]
<1>1. l.qty \in Nat \ {0} /\ l.from \in Shelves \cup {Absent} /\ l.lot \in Lots \cup {Absent}
      /\ (l.from = Absent => l.lot # Absent)
  BY LineTyped
<1>2. CASE Unnamed(l)
  <2>1. l.from \in Shelves
    BY <1>1, <1>2 DEF Unnamed
  <2>2. l.qty <= OnShelf(l.from)
    <3>1. OnShelf(l.from) \in Nat
      BY <2>1, StockFinite DEF OnShelf
    <3> QED
      BY <1>1, <1>2, <3>1
  <2>3. \A b : Share(l, b) = Taken(l.from, l.qty, b)
    BY <1>2 DEF Share
  <2>4. \A m \in G : Size(m) = Taken(l.from, l.qty, m.row[2])
    BY <2>3
  <2>5. \A b \in Lots : Taken(l.from, l.qty, b) > 0 => \E m \in G : m.row[2] = b
    BY <2>3 DEF Shared
  <2> HIDE DEF l
  <2>6. Cardinality(Units(G)) = l.qty
    BY <1>1, <2>1, <2>2, <2>4, <2>5, FirstUnits
  <2> QED
    BY <2>6 DEF l
<1>3. CASE ~Unnamed(l)
  <2>1. l.lot \in Lots
    BY <1>1, <1>3 DEF Unnamed
  <2>2. \A b : Share(l, b) = IF b = l.lot THEN l.qty ELSE 0
    BY <1>3 DEF Share
  <2>3. Shared(l) = {l.lot}
    BY <1>1, <2>1, <2>2 DEF Shared
  <2>4. PICK m \in G : m.row[2] = l.lot
    BY <2>3
  <2>5. G = {m}
    BY <2>3, <2>4
  <2>6. Size(m) = l.qty
    BY <2>2, <2>4
  <2> QED
    BY <2>5, <2>6, UnitsOne
<1> QED
  BY <1>2, <1>3

LEMMA LineInFull ==
    ASSUME balance \in [Rows -> Nat], NEW p \in Posts, NEW i \in DOMAIN Lines[p],
           Unnamed(Lines[p][i]) => OnShelf(Lines[p][i].from) >= Lines[p][i].qty
    PROVE  InFull(MovesOf(p, i, Lines[p][i]), Lines[p][i])
<1> DEFINE l == Lines[p][i]  ms == MovesOf(p, i, l)
           out(b) == [entry |-> p, line |-> i, row |-> <<l.from, b>>, qty |-> -Share(l, b)]
           in(b) == [entry |-> p, line |-> i, row |-> <<l.to, b>>, qty |-> Share(l, b)]
           taken == {m \in ms : m.qty < 0}  given == {m \in ms : m.qty > 0}
<1>1. l.from \in Shelves \cup {Absent} /\ l.to \in Shelves \cup {Absent} /\ l.from # l.to
  BY LineTyped
<1>2. \A b \in Shared(l) : b \in Lots /\ Share(l, b) \in Nat /\ Share(l, b) > 0
  BY ShareIs DEF Shared
<1>3. /\ ms \in SUBSET Movement
      /\ IsFiniteSet(Out(p, i, l)) /\ IsFiniteSet(In(p, i, l))
      /\ l.from # Absent => Out(p, i, l) \in SUBSET Movement
      /\ l.to # Absent => In(p, i, l) \in SUBSET Movement
  BY PlannedMoves
<1>4. Out(p, i, l) = {out(b) : b \in Shared(l)} /\ In(p, i, l) = {in(b) : b \in Shared(l)}
  BY DEF Out, In
<1>5. /\ \A m \in Out(p, i, l) : \E b \in Shared(l) : m = out(b)
      /\ \A m \in In(p, i, l) : \E b \in Shared(l) : m = in(b)
      /\ \A b \in Shared(l) : out(b) \in Out(p, i, l) /\ in(b) \in In(p, i, l)
  BY <1>4
<1>6. \A b \in Shared(l) : out(b).qty < 0 /\ in(b).qty > 0 /\ Size(out(b)) = Share(l, b) /\ Size(in(b)) = Share(l, b)
  BY <1>2 DEF Size
<1>7. /\ \A b : out(b).row = <<l.from, b>> /\ in(b).row = <<l.to, b>>
      /\ \A b : out(b).row[1] = l.from /\ out(b).row[2] = b /\ in(b).row[1] = l.to /\ in(b).row[2] = b
  OBVIOUS
<1> HIDE DEF out, in
<1>8. /\ \A m \in Out(p, i, l) : m.qty < 0 /\ ~(m.qty > 0) /\ m.row[1] = l.from
      /\ \A m \in In(p, i, l) : m.qty > 0 /\ ~(m.qty < 0) /\ m.row[1] = l.to
  <2>1. \A b \in Shared(l) : ~(out(b).qty > 0) /\ ~(in(b).qty < 0)
    BY <1>2 DEF out, in
  <2> QED
    BY <1>5, <1>6, <1>7, <2>1
<1> HIDE DEF l
<1>9. ms = (IF l.from = Absent THEN {} ELSE Out(p, i, l)) \cup (IF l.to = Absent THEN {} ELSE In(p, i, l))
  BY DEF MovesOf
<1> HIDE DEF ms
<1>10. /\ taken = IF l.from = Absent THEN {} ELSE Out(p, i, l)
       /\ given = IF l.to = Absent THEN {} ELSE In(p, i, l)
  BY <1>8, <1>9
<1>11. (\A m \in taken : m.row[1] = l.from) /\ (\A m \in given : m.row[1] = l.to)
  BY <1>8, <1>10
<1>12. ASSUME l.from # Absent PROVE Cardinality(Units(taken)) = l.qty
  <2> DEFINE G == Out(p, i, l)
  <2>1. /\ \A m \in G : m.row[2] \in Shared(l) /\ Size(m) = Share(l, m.row[2])
        /\ \A m, n \in G : m.row[2] = n.row[2] => m = n
        /\ \A b \in Shared(l) : \E m \in G : m.row[2] = b
    BY <1>5, <1>6, <1>7
  <2>2. G \in SUBSET Movement /\ IsFiniteSet(G)
    BY <1>3, <1>12
  <2> HIDE DEF G
  <2>3. Cardinality(Units(G)) = l.qty
    BY <2>1, <2>2, AddsUp DEF l
  <2> QED
    BY <1>10, <1>12, <2>3 DEF G
<1>13. ASSUME l.to # Absent PROVE Cardinality(Units(given)) = l.qty
  <2> DEFINE G == In(p, i, l)
  <2>1. /\ \A m \in G : m.row[2] \in Shared(l) /\ Size(m) = Share(l, m.row[2])
        /\ \A m, n \in G : m.row[2] = n.row[2] => m = n
        /\ \A b \in Shared(l) : \E m \in G : m.row[2] = b
    BY <1>5, <1>6, <1>7
  <2>2. G \in SUBSET Movement /\ IsFiniteSet(G)
    BY <1>3, <1>13
  <2> HIDE DEF G
  <2>3. Cardinality(Units(G)) = l.qty
    BY <2>1, <2>2, AddsUp DEF l
  <2> QED
    BY <1>10, <1>13, <2>3 DEF G
<1>14. ASSUME l.from # Absent, l.to # Absent, NEW b \in Lots
       PROVE  Cardinality(Drawn(ms, <<l.from, b>>)) = Cardinality(Brought(ms, <<l.to, b>>))
  <2> DEFINE drawn == {m \in ms : m.row = <<l.from, b>> /\ m.qty < 0}
             brought == {m \in ms : m.row = <<l.to, b>> /\ m.qty > 0}
  <2>0. taken = Out(p, i, l) /\ given = In(p, i, l)
    BY <1>10, <1>14
  <2>1. /\ \A m : m \in drawn <=> (m \in Out(p, i, l) /\ m.row = <<l.from, b>>)
        /\ \A m : m \in brought <=> (m \in In(p, i, l) /\ m.row = <<l.to, b>>)
    BY <2>0
  <2>2. CASE b \in Shared(l)
    <3>1. drawn = {out(b)}
      <4>1. out(b) \in drawn
        BY <1>5, <1>7, <2>1, <2>2
      <4>2. ASSUME NEW m \in drawn PROVE m = out(b)
        BY <1>5, <1>7, <2>1
      <4> HIDE DEF drawn
      <4> QED
        BY <4>1, <4>2
    <3>2. brought = {in(b)}
      <4>1. in(b) \in brought
        BY <1>5, <1>7, <2>1, <2>2
      <4>2. ASSUME NEW m \in brought PROVE m = in(b)
        BY <1>5, <1>7, <2>1
      <4> HIDE DEF brought
      <4> QED
        BY <4>1, <4>2
    <3>3. out(b) \in Movement /\ in(b) \in Movement
      BY <1>3, <1>5, <1>14, <2>2
    <3>4. Cardinality(Units({out(b)})) = Cardinality(Units({in(b)}))
      BY <1>6, <2>2, <3>3, UnitsOne
    <3> QED
      BY <3>1, <3>2, <3>4 DEF Drawn, Brought
  <2>3. CASE b \notin Shared(l)
    <3>1. drawn = {}
      <4> SUFFICES ASSUME NEW m \in drawn PROVE FALSE
        OBVIOUS
      <4>1. m \in Out(p, i, l) /\ m.row = <<l.from, b>>
        BY <2>1
      <4>2. PICK a \in Shared(l) : m = out(a)
        BY <1>5, <4>1
      <4>3. m.row[2] = a
        BY <1>7, <4>2
      <4> QED
        BY <2>3, <4>1, <4>2, <4>3
    <3>2. brought = {}
      <4> SUFFICES ASSUME NEW m \in brought PROVE FALSE
        OBVIOUS
      <4>1. m \in In(p, i, l) /\ m.row = <<l.to, b>>
        BY <2>1
      <4>2. PICK a \in Shared(l) : m = in(a)
        BY <1>5, <4>1
      <4>3. m.row[2] = a
        BY <1>7, <4>2
      <4> QED
        BY <2>3, <4>1, <4>2, <4>3
    <3> QED
      BY <3>1, <3>2 DEF Drawn, Brought
  <2> QED
    BY <2>2, <2>3
<1>15. InFull(ms, l)
  BY <1>11, <1>12, <1>13, <1>14 DEF InFull
<1> QED
  BY <1>15 DEF ms, l

LEMMA FullyInitially ==
    Init => Planned /\ Kept
<1> SUFFICES ASSUME Init PROVE Planned /\ Kept
  OBVIOUS
<1>1. ASSUME NEW p \in Posts, NEW i \in DOMAIN Lines[p]
      PROVE  pc[p] = "resolve" /\ ~(i < line[p]) /\ outcome[p] = "none"
  BY <1>1, StockFacts DEF Init
<1>2. Planned
  BY <1>1 DEF Planned
<1>3. Kept
  BY DEF Init, Kept
<1> QED
  BY <1>2, <1>3

\* A step after which the plan of q stands, and q is no further back.
LEMMA StillPlanned ==
    ASSUME Planned, NEW q \in Posts, UNCHANGED <<moves[q], line[q]>>,
           outcome'[q] \in {"none", "posted"} =>
              outcome[q] \in {"none", "posted"} /\ (pc[q] = "resolve" => pc'[q] = "resolve")
    PROVE  \A i \in DOMAIN Lines[q] :
              outcome'[q] \in {"none", "posted"} /\ (pc'[q] = "resolve" => i < line'[q])
                => InFull(OfLine(moves'[q], i), Lines[q][i])
<1> QED
  BY DEF Planned

LEMMA PlansKeepsPlanned ==
    ASSUME Typed, Books, Shelved, Planned, NEW p \in Posts, Plans(p)
    PROVE  Planned'
<1> DEFINE n == line[p]  l == Lines[p][n]  new == MovesOf(p, n, l)
<1>1. n \in DOMAIN Lines[p] /\ balance \in [Rows -> Nat] /\ n \in Nat
  BY DEF Typed
<1>2. /\ moves'[p] = moves[p] \cup new /\ UNCHANGED outcome
      /\ \A q \in Posts \ {p} : moves'[q] = moves[q] /\ line'[q] = line[q] /\ pc'[q] = pc[q]
  BY DEF Plans, Step, Typed
<1>3. pc[p] = "resolve" /\ (\/ pc'[p] = "resolve" /\ line'[p] = n + 1
                            \/ pc'[p] = "lock" /\ line'[p] = n /\ n = Len(Lines[p]))
  BY DEF Plans, Step, Typed
<1>4. Unnamed(l) => OnShelf(l.from) >= l.qty
  BY DEF Plans
<1>5. InFull(new, l)
  BY <1>1, <1>4, LineInFull
<1>6. \A m \in new : m.line = n
  BY <1>1, PlannedMoves
<1>7. \A m \in moves[p] : m.line < n /\ m.line \in Nat
  BY <1>3 DEF Shelved, Lined, Typed, Movement
<1> HIDE DEF new, l
<1>8. OfLine(moves'[p], n) = new
  <2>1. \A m \in moves[p] : m.line # n
    BY <1>1, <1>7
  <2> QED
    BY <1>2, <1>6, <2>1 DEF OfLine
<1>9. \A i \in DOMAIN Lines[p] : i # n => OfLine(moves'[p], i) = OfLine(moves[p], i)
  BY <1>2, <1>6 DEF OfLine
<1>10. ASSUME NEW i \in DOMAIN Lines[p], outcome'[p] \in {"none", "posted"}, pc'[p] = "resolve" => i < line'[p]
       PROVE  InFull(OfLine(moves'[p], i), Lines[p][i])
  <2>1. CASE i = n
    BY <1>5, <1>8, <2>1 DEF l
  <2>2. CASE i # n
    <3>1. DOMAIN Lines[p] = 1..Len(Lines[p]) /\ Len(Lines[p]) \in Nat
      BY StockFacts
    <3>2. i < n
      BY <1>1, <1>3, <1>10, <2>2, <3>1
    <3>3. InFull(OfLine(moves[p], i), Lines[p][i])
      BY <1>2, <1>10, <3>2 DEF Planned
    <3> QED
      BY <1>9, <2>2, <3>3
  <2> QED
    BY <2>1, <2>2
<1> SUFFICES ASSUME NEW q \in Posts
             PROVE  \A i \in DOMAIN Lines[q] :
                      outcome'[q] \in {"none", "posted"} /\ (pc'[q] = "resolve" => i < line'[q])
                        => InFull(OfLine(moves'[q], i), Lines[q][i])
  BY DEF Planned
<1>11. CASE q = p
  BY <1>10, <1>11
<1>12. CASE q # p
  BY <1>2, <1>12, StillPlanned
<1> QED
  BY <1>11, <1>12

LEMMA PlannedNext ==
    Typed /\ Books /\ Shelved /\ Planned /\ [Next]_vars => Planned'
<1> SUFFICES ASSUME Typed, Books, Shelved, Planned, [Next]_vars PROVE Planned'
  OBVIOUS
<1> DEFINE Onward ==
      /\ UNCHANGED <<moves, line>>
      /\ \A q \in Posts : outcome'[q] \in {"none", "posted"} =>
            outcome[q] \in {"none", "posted"} /\ (pc[q] = "resolve" => pc'[q] = "resolve")
<1>1. ASSUME Onward PROVE Planned'
  <2> SUFFICES ASSUME NEW q \in Posts
               PROVE  \A i \in DOMAIN Lines[q] :
                        outcome'[q] \in {"none", "posted"} /\ (pc'[q] = "resolve" => i < line'[q])
                          => InFull(OfLine(moves'[q], i), Lines[q][i])
    BY DEF Planned
  <2> QED
    BY <1>1, StillPlanned
<1>2. ASSUME NEW p \in Posts, NEW why \in {"short", "dead"}, Abort(p, why) PROVE Onward
  BY <1>2 DEF Abort, Step, Typed
<1>3. ASSUME NEW p \in Posts, Resolve(p) PROVE Planned'
  BY <1>1, <1>2, <1>3, ResolveIs, PlansKeepsPlanned
<1>4. ASSUME NEW p \in Posts, LockShelf(p) \/ Audit(p) PROVE Onward
  BY <1>4 DEF LockShelf, Audit, Step, Typed, planVars
<1>5. ASSUME NEW p \in Posts, Apply(p) PROVE Onward
  <2>1. ASSUME NEW m \in Due(p), Moves(p, m) PROVE Onward
    BY <2>1 DEF Moves, Step, Typed
  <2> QED
    BY <1>2, <1>5, <2>1, ApplyIs
<1>6. ASSUME NEW p \in Posts, Commit(p) PROVE Onward
  BY <1>6, CommitIs
<1>7. ASSUME NEW p \in Posts, Crash(p) \/ BreakDeadlock(p) PROVE Onward
  BY <1>2, <1>7 DEF Crash, BreakDeadlock
<1>8. ASSUME UNCHANGED vars PROVE Onward
  BY <1>8 DEF vars, planVars
<1> HIDE DEF Onward
<1> QED
  BY <1>1, <1>3, <1>4, <1>5, <1>6, <1>7, <1>8 DEF Next, Post

LEMMA KeptNext ==
    Typed /\ Books /\ Kept /\ [Next]_vars => Kept'
<1> SUFFICES ASSUME Typed, Books, Kept, [Next]_vars, NEW q \in Posts, outcome'[q] = "posted"
             PROVE  {m \in ledger' : m.entry = q} = moves'[q]
  BY DEF Kept
<1>1. CASE \A p \in Posts : ~Commit(p)
  <2>1. UNCHANGED ledger
    BY <1>1, BooksAreStill
  <2>2. outcome[q] = "posted" /\ moves'[q] = moves[q]
    <3>1. ASSUME NEW p \in Posts, NEW why \in {"short", "dead"}, Abort(p, why)
          PROVE  outcome[q] = "posted" /\ moves'[q] = moves[q]
      BY <3>1 DEF Abort, Typed
    <3>2. ASSUME NEW p \in Posts, Plans(p) PROVE outcome[q] = "posted" /\ moves'[q] = moves[q]
      <4>1. outcome[q] = "posted" /\ q # p
        BY <3>2 DEF Plans, Books
      <4> QED
        BY <3>2, <4>1 DEF Plans, Typed
    <3>3. ASSUME NEW p \in Posts, LockShelf(p) \/ Audit(p) \/ \E m \in Due(p) : Moves(p, m)
          PROVE  outcome[q] = "posted" /\ moves'[q] = moves[q]
      BY <3>3 DEF LockShelf, Audit, Moves, planVars
    <3>4. CASE UNCHANGED vars
      BY <3>4 DEF vars, planVars
    <3> QED
      BY <1>1, <3>1, <3>2, <3>3, <3>4, ResolveIs, ApplyIs DEF Next, Post, Crash, BreakDeadlock
  <2> QED
    BY <2>1, <2>2 DEF Kept
<1>2. ASSUME NEW p \in Posts, Commit(p) PROVE {m \in ledger' : m.entry = q} = moves'[q]
  <2>1. /\ ledger' = ledger \cup moves[p] /\ UNCHANGED moves /\ outcome[p] = "none"
        /\ outcome'[q] = IF q = p THEN "posted" ELSE outcome[q]
    BY <1>2, CommitIs
  <2>2. \A m \in moves[p] : m.entry = p
    BY DEF Typed
  <2>3. CASE q = p
    <3>1. \A m \in ledger : m.entry # p
      BY <2>1 DEF Books
    <3> QED
      BY <2>1, <2>2, <2>3, <3>1
  <2>4. CASE q # p
    <3>1. {m \in ledger : m.entry = q} = moves[q]
      BY <2>1, <2>4 DEF Kept
    <3> QED
      BY <2>1, <2>2, <2>4, <3>1
  <2> QED
    BY <2>3, <2>4
<1> QED
  BY <1>1, <1>2

\* A posting is all or nothing, line by line, however FIFO splits the lines: it
\* moves the quantity of each out of its source and into its target, lot by lot.
THEOREM PostsAreComplete ==
    Spec => []PostedInFull
<1>1. Books /\ Planned /\ Kept => PostedInFull
  <2> SUFFICES ASSUME Books, Planned, Kept, NEW p \in Posts
               PROVE  LET mine == {m \in ledger : m.entry = p} IN
                      IF outcome[p] # "posted" THEN mine = {}
                      ELSE \A i \in DOMAIN Lines[p] : InFull({m \in mine : m.line = i}, Lines[p][i])
    BY DEF PostedInFull
  <2>1. CASE outcome[p] # "posted"
    BY <2>1 DEF Books
  <2>2. CASE outcome[p] = "posted"
    <3>1. {m \in ledger : m.entry = p} = moves[p] /\ pc[p] = "done"
      BY <2>2 DEF Books, Kept
    <3>2. \A i \in DOMAIN Lines[p] : InFull(OfLine(moves[p], i), Lines[p][i])
      BY <2>2, <3>1 DEF Planned
    <3> QED
      BY <2>2, <3>1, <3>2 DEF OfLine
  <2> QED
    BY <2>1, <2>2
<1> QED
  BY <1>1, TypedInitially, TypedNext, BooksInitially, BooksNext, ShelvedInitially, ShelvedNext,
     FullyInitially, PlannedNext, KeptNext, PTL DEF Spec

=============================================================================
