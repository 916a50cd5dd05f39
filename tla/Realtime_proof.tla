----------------------------- MODULE Realtime_proof -----------------------------
(***************************************************************************)
(* Whatever is asked and written meanwhile, by any number of requests for  *)
(* any products: the answers of the realtime API are current.              *)
(***************************************************************************)
EXTENDS Realtime, TLAPS

(* One query of the prices answers what the group may be answered, or      *)
(* nothing when there may be nothing.                                      *)
LEMMA LowestPricesOffered ==
    ASSUME NEW p \in Products \cup {Nil}, NEW g \in Groups, NEW v \in LowestPrices(p, g)
    PROVE  /\ v \in 0..(Sentinel - 1) \cup {Nil}
           /\ v # Nil => p # Nil /\ v \in OfferedTo(g, p)
           /\ v = Nil => Unpriced(g, p)
<1>1. CASE p = Nil
    BY <1>1 DEF LowestPrices, Unpriced
<1>2. CASE p # Nil
    <2>1. /\ p.base \in Nat \cup {Nil} /\ p.special \in Nat \cup {Nil}
          /\ p.tiers \subseteq Tiers
        BY <1>2, TablesAssumption DEF Amounts
    <2>2. \A t \in p.tiers : t.value \in Nat
        BY <2>1, TablesAssumption DEF Amounts
    <2>3. PICK w \in TierValues(p, g) : v = PriceOrNil(Least(p, w))
        BY <1>2 DEF LowestPrices
    <2>4. \/ w \in TierPrices(g, p) /\ w \in Nat
          \/ TierPrices(g, p) = {} /\ w = Sentinel
        BY <2>2, <2>3 DEF TierValues, Matches, TierPrices
    <2>5. /\ Sentinel \in Nat \ {0} /\ Nil \notin Nat
          /\ \A x : x \in OwnPrices(p) <=> x # Nil /\ x \in {p.base, p.special}
        BY TablesAssumption DEF OwnPrices
    <2>6. v = IF Least(p, w) >= Sentinel THEN Nil ELSE Least(p, w)
        BY <2>3 DEF PriceOrNil
    <2>7. /\ Least(p, w) \in Nat /\ Least(p, w) <= w
          /\ \A x \in OwnPrices(p) : Least(p, w) <= x
          /\ Least(p, w) \in OwnPrices(p) \cup {w, Sentinel}
        BY <2>1, <2>4, <2>5 DEF Least, Lesser, Coalesce
    <2>8. v \in 0..(Sentinel - 1) \cup {Nil}
        BY <2>5, <2>6, <2>7
    <2>9. ASSUME v # Nil PROVE v \in OfferedTo(g, p)
        <3>1. v = Least(p, w) /\ v \in Nat /\ v < Sentinel
            BY <2>5, <2>6, <2>7, <2>9
        <3>2. CASE w \in TierPrices(g, p)
            <4>1. LeastOf(v, OwnPrices(p) \cup {w})
                BY <2>5, <2>7, <3>1 DEF LeastOf
            <4>2. v \in OwnPrices(p) \cup TierPrices(g, p)
                BY <3>2, <4>1 DEF LeastOf
            <4> QED BY <3>2, <4>1, <4>2 DEF OfferedTo
        <3>3. CASE TierPrices(g, p) = {} /\ w = Sentinel
            <4>1. LeastOf(v, OwnPrices(p))
                BY <2>5, <2>7, <3>1, <3>3 DEF LeastOf
            <4> QED BY <3>3, <4>1 DEF OfferedTo, LeastOf
        <3> QED BY <2>4, <3>2, <3>3
    <2>10. ASSUME v = Nil PROVE Unpriced(g, p)
        <3>1. Least(p, w) >= Sentinel
            BY <2>5, <2>6, <2>7, <2>10
        <3>2. \A x \in OwnPrices(p) : x \in Nat
            BY <2>1, <2>5
        <3>3. \A x \in OwnPrices(p) : x >= Sentinel
            BY <2>5, <2>7, <3>1, <3>2
        <3>4. TierPrices(g, p) = {} \/ (w \in TierPrices(g, p) /\ w >= Sentinel)
            BY <2>4, <2>5, <2>7, <3>1
        <3> QED BY <3>3, <3>4 DEF Unpriced
    <2> QED BY <1>2, <2>8, <2>9, <2>10
<1> QED BY <1>1, <1>2

-----------------------------------------------------------------------------
(***************************************************************************)
(* The inductive invariant: where a request is, what it has seen of the    *)
(* tables, and what each of its queries has found.                         *)
(***************************************************************************)
Placed(r) ==
    /\ call[r] = Nil => pat[r] = "idle" /\ sat[r] = "idle" /\ code[r] \in {Nil, 400, 401}
    /\ pat[r] # "done" => price[r] = Nil /\ tiers[r] = Nil
    /\ sat[r] # "done" => stock[r] = Nil
    /\ call[r] # Nil /\ code[r] # Nil => pat[r] = "done" /\ sat[r] = "done"

Seeing(r) == Running(r) => Held(prices, stocks, call[r]) \in seen[r]

Detection ==
    \A r \in Requests :
        /\ pat[r] = "query" => schema \in Known
        /\ pat[r] = "detect" => /\ schema = "detecting"
                               /\ \A q \in Requests : pat[q] = "detect" => q = r

PriceOK(r) ==
    pat[r] = "done" =>
        /\ price[r] # Nil => \E h \in seen[r] : h.product # Nil /\ price[r] \in OfferedTo(call[r].group, h.product)
        /\ call[r].kind \in {"pair", "price"} /\ price[r] = Nil =>
              \/ r \in failed
              \/ schema \in Known /\ ~Usable
              \/ \E h \in seen[r] : Unpriced(call[r].group, h.product)

TiersOK(r) ==
    (call[r] # Nil /\ call[r].kind = "tiers") =>
        /\ pat[r] = "done" /\ tiers[r] # Nil =>
              \E h \in seen[r] : /\ tiers[r] \subseteq TierRows(h.product)
                                 /\ (tiers[r] = TierRows(h.product) \/ r \in failed)
        /\ code[r] = 200 => tiers[r] # Nil

StockOK(r) ==
    (sat[r] = "done" /\ call[r].kind \in {"pair", "stock"}) =>
        \/ stock[r] = Nil /\ r \in failed
        \/ \E h \in seen[r] : stock[r] = h.quantity

IInv ==
    /\ TypeOK
    /\ Detection
    /\ \A r \in Requests : Placed(r) /\ Seeing(r) /\ PriceOK(r) /\ TiersOK(r) /\ StockOK(r)

(* Seeing more of the tables, and failing more, takes nothing away.        *)
LEMMA Monotone ==
    ASSUME NEW r \in Requests, PriceOK(r), TiersOK(r), StockOK(r),
           call'[r] = call[r], pat'[r] = pat[r], sat'[r] = sat[r], code'[r] = code[r],
           price'[r] = price[r], tiers'[r] = tiers[r], stock'[r] = stock[r],
           seen[r] \subseteq seen'[r], r \in failed <=> r \in failed',
           schema \in Known => schema' = schema, enterprise' = enterprise
    PROVE  PriceOK(r)' /\ TiersOK(r)' /\ StockOK(r)'
<1>1. PriceOK(r)'
    BY DEF PriceOK, Usable
<1>2. TiersOK(r)'
    BY DEF TiersOK
<1>3. StockOK(r)'
    BY DEF StockOK
<1> QED BY <1>1, <1>2, <1>3

LEMMA InitInv == Init => IInv
<1> SUFFICES ASSUME Init PROVE IInv
    OBVIOUS
<1> USE DEF Init
<1>1. TypeOK
    BY TablesAssumption DEF TypeOK
<1>2. Detection
    BY DEF Detection
<1>3. \A r \in Requests : Placed(r) /\ Seeing(r) /\ PriceOK(r) /\ TiersOK(r) /\ StockOK(r)
    BY DEF Placed, Seeing, Running, PriceOK, TiersOK, StockOK
<1> QED BY <1>1, <1>2, <1>3 DEF IInv

LEMMA TypesKept ==
    ASSUME IInv, [Next]_vars
    PROVE  TypeOK'
<1> USE TablesAssumption DEF TypeOK, IInv
<1>1. ASSUME NEW r \in Requests, Refuse(r) PROVE TypeOK'
    BY <1>1 DEF Refuse, tables
<1>2. ASSUME NEW r \in Requests, Start(r) PROVE TypeOK'
    <2>1. \A c \in Calls : /\ c.sku \in Skus /\ c.source \in Sources
                          /\ Held(prices, stocks, c) \in [product : Products \cup {Nil}, quantity : Quantities \cup {Nil}]
        BY DEF Calls, Held
    <2> QED BY <1>2, <2>1 DEF Start, tables
<1>3. ASSUME NEW r \in Requests, Enter(r) PROVE TypeOK'
    BY <1>3 DEF Enter, tables
<1>4. ASSUME NEW r \in Requests, Detect(r) PROVE TypeOK'
    BY <1>4 DEF Detect, Scanned, Known, OneFails, NoFail, tables
<1>5. ASSUME NEW r \in Requests, pat[r] = "query" \/ sat[r] = "query"
      PROVE  call[r] \in Calls /\ call[r].sku \in Skus /\ call[r].source \in Sources /\ call[r].group \in Groups
    BY <1>5 DEF Placed, Calls
<1>6. ASSUME NEW r \in Requests, Reply(r) PROVE code' \in [Requests -> {200, 400, 401, 404, 500, Nil}]
    <2>1. Status(r)' \in {200, 404, 500}
        BY DEF Status
    <2> QED BY <1>6, <2>1 DEF Reply
<1>7. ASSUME NEW r \in Requests, QueryPrice(r) PROVE TypeOK'
    <2>1. prices[call[r].sku] \in Products \cup {Nil} /\ call[r].group \in Groups
        BY <1>5, <1>7 DEF QueryPrice
    <2>2. \A v \in LowestPrices(prices[call[r].sku], call[r].group) : v \in 0..(Sentinel - 1) \cup {Nil}
        <3> HIDE DEF TypeOK, IInv
        <3> QED BY <2>1, LowestPricesOffered
    <2>3. price' \in [Requests -> 0..(Sentinel - 1) \cup {Nil}]
        BY <1>7, <2>2 DEF QueryPrice
    <2>4. failures' \in 0..MaxFailures /\ failed' \subseteq Requests
        BY <1>7 DEF QueryPrice, Fail, OneFails, NoFail
    <2>5. /\ pat' = [pat EXCEPT ![r] = "done"] /\ Reply(r)
          /\ UNCHANGED <<tables, schema, call, sat, stock, tiers, writes, seen>>
        BY <1>7 DEF QueryPrice
    <2> QED BY <1>6, <2>3, <2>4, <2>5 DEF tables
<1>8. ASSUME NEW r \in Requests, QueryTiers(r) PROVE TypeOK'
    <2>1. TierRows(prices[call[r].sku]) \subseteq Tiers
        BY <1>5, <1>8 DEF QueryTiers, TierRows
    <2> QED BY <1>6, <1>8, <2>1 DEF QueryTiers, Fail, OneFails, NoFail, tables
<1>9. ASSUME NEW r \in Requests, QueryStock(r) PROVE TypeOK'
    <2>1. stocks[<<call[r].sku, call[r].source>>] \in Quantities \cup {Nil}
        BY <1>5, <1>9 DEF QueryStock
    <2>2. Quantity(call[r].sku, call[r].source) \in Nat \cup {Nil}
        <3> HIDE DEF TypeOK, IInv
        <3> QED BY <2>1 DEF Quantity
    <2> QED BY <1>6, <1>9, <2>2 DEF QueryStock, Fail, OneFails, NoFail, tables
<1>10. ASSUME NEW s \in Skus, WritePrices(s) PROVE TypeOK'
    <2>1. prices' \in [Skus -> Products \cup {Nil}]
        BY <1>10 DEF WritePrices
    <2>2. \A c \in Calls : Held(prices', stocks, c) \in [product : Products \cup {Nil}, quantity : Quantities \cup {Nil}]
        BY <2>1 DEF Calls, Held
    <2>3. seen' \in [Requests -> SUBSET [product : Products \cup {Nil}, quantity : Quantities \cup {Nil}]]
        <3>1. seen' = [r \in Requests |-> IF Running(r) THEN seen[r] \cup {Held(prices', stocks, call[r])} ELSE seen[r]]
            BY <1>10 DEF WritePrices, Noticed
        <3>2. \A r \in Requests : Running(r) => call[r] \in Calls
            BY DEF Running
        <3>3. seen \in [Requests -> SUBSET [product : Products \cup {Nil}, quantity : Quantities \cup {Nil}]]
            OBVIOUS
        <3> HIDE DEF IInv, TypeOK
        <3> QED BY <2>2, <3>1, <3>2, <3>3
    <2>4. writes' \in 0..MaxWrites
        BY <1>10 DEF WritePrices
    <2>5. UNCHANGED <<enterprise, stocks, schema, call, pat, sat, price, stock, tiers, code, failures, failed>>
        BY <1>10 DEF WritePrices
    <2> QED BY <2>1, <2>3, <2>4, <2>5
<1>11. ASSUME NEW s \in Skus, NEW o \in Sources, WriteStock(s, o) PROVE TypeOK'
    <2>1. stocks' \in [Skus \X Sources -> Quantities \cup {Nil}]
        BY <1>11 DEF WriteStock
    <2>2. \A c \in Calls : Held(prices, stocks', c) \in [product : Products \cup {Nil}, quantity : Quantities \cup {Nil}]
        BY <2>1 DEF Calls, Held
    <2>3. seen' \in [Requests -> SUBSET [product : Products \cup {Nil}, quantity : Quantities \cup {Nil}]]
        <3>1. seen' = [r \in Requests |-> IF Running(r) THEN seen[r] \cup {Held(prices, stocks', call[r])} ELSE seen[r]]
            BY <1>11 DEF WriteStock, Noticed
        <3>2. \A r \in Requests : Running(r) => call[r] \in Calls
            BY DEF Running
        <3>3. seen \in [Requests -> SUBSET [product : Products \cup {Nil}, quantity : Quantities \cup {Nil}]]
            OBVIOUS
        <3> HIDE DEF IInv, TypeOK
        <3> QED BY <2>2, <3>1, <3>2, <3>3
    <2>4. writes' \in 0..MaxWrites
        BY <1>11 DEF WriteStock
    <2>5. UNCHANGED <<enterprise, prices, schema, call, pat, sat, price, stock, tiers, code, failures, failed>>
        BY <1>11 DEF WriteStock
    <2> QED BY <2>1, <2>3, <2>4, <2>5
<1>12. CASE UNCHANGED vars
    BY <1>12 DEF vars, tables
<1> QED BY <1>1, <1>2, <1>3, <1>4, <1>7, <1>8, <1>9, <1>10, <1>11, <1>12 DEF Next, Step

LEMMA PlacedKept ==
    ASSUME IInv, [Next]_vars, NEW r \in Requests
    PROVE  Placed(r)'
<1> USE DEF TypeOK, IInv, Placed
<1>1. ASSUME NEW q \in Requests, Refuse(q) \/ Start(q) PROVE Placed(r)'
    <2>1. CASE Refuse(q)
        BY <2>1 DEF Refuse, tables
    <2>2. CASE Start(q)
        BY <2>2, NilAssumption DEF Start, tables
    <2> QED BY <1>1, <2>1, <2>2
<1>2. ASSUME NEW q \in Requests, Enter(q) PROVE Placed(r)'
    BY <1>2 DEF Enter, tables
<1>3. ASSUME NEW q \in Requests, Detect(q) PROVE Placed(r)'
    BY <1>3 DEF Detect, tables
<1>4. ASSUME NEW q \in Requests, QueryPrice(q) PROVE Placed(r)'
    BY <1>4 DEF QueryPrice, Reply, tables
<1>5. ASSUME NEW q \in Requests, QueryTiers(q) PROVE Placed(r)'
    BY <1>5 DEF QueryTiers, Reply, tables
<1>6. ASSUME NEW q \in Requests, QueryStock(q) PROVE Placed(r)'
    BY <1>6 DEF QueryStock, Reply, tables
<1>7. ASSUME NEW s \in Skus, WritePrices(s) \/ \E o \in Sources : WriteStock(s, o) PROVE Placed(r)'
    <2>1. UNCHANGED <<call, pat, sat, price, stock, tiers, code>>
        BY <1>7 DEF WritePrices, WriteStock
    <2> QED BY <2>1
<1>8. CASE UNCHANGED vars
    BY <1>8 DEF vars, tables
<1> QED BY <1>1, <1>2, <1>3, <1>4, <1>5, <1>6, <1>7, <1>8 DEF Next, Step

LEMMA DetectionKept ==
    ASSUME IInv, [Next]_vars
    PROVE  Detection'
<1> USE DEF TypeOK, IInv, Detection, Known
<1>1. ASSUME NEW q \in Requests, Refuse(q) \/ Start(q) PROVE Detection'
    BY <1>1 DEF Refuse, Start, tables
<1>2. ASSUME NEW q \in Requests, Enter(q) PROVE Detection'
    BY <1>2 DEF Enter, tables
<1>3. ASSUME NEW q \in Requests, Detect(q) PROVE Detection'
    BY <1>3 DEF Detect, Scanned, tables
<1>4. ASSUME NEW q \in Requests, QueryPrice(q) PROVE Detection'
    BY <1>4 DEF QueryPrice, tables
<1>5. ASSUME NEW q \in Requests, QueryTiers(q) PROVE Detection'
    BY <1>5 DEF QueryTiers, tables
<1>6. ASSUME NEW q \in Requests, QueryStock(q) PROVE Detection'
    BY <1>6 DEF QueryStock, tables
<1>7. ASSUME NEW s \in Skus, WritePrices(s) \/ \E o \in Sources : WriteStock(s, o) PROVE Detection'
    BY <1>7 DEF WritePrices, WriteStock
<1>8. CASE UNCHANGED vars
    BY <1>8 DEF vars, tables
<1> QED BY <1>1, <1>2, <1>3, <1>4, <1>5, <1>6, <1>7, <1>8 DEF Next, Step

LEMMA SeeingKept ==
    ASSUME IInv, [Next]_vars, NEW r \in Requests
    PROVE  Seeing(r)' /\ (call[r] # Nil => seen[r] \subseteq seen'[r])
<1> DEFINE G == Seeing(r)' /\ (call[r] # Nil => seen[r] \subseteq seen'[r])
<1> USE DEF TypeOK, IInv, Seeing, Running, Held
<1>1. ASSUME NEW q \in Requests, Refuse(q) \/ Start(q) PROVE G
    <2>1. CASE Refuse(q)
        <3>1. UNCHANGED <<prices, stocks, call, seen>> /\ (code'[r] = Nil => code[r] = Nil)
            BY <2>1 DEF Refuse, tables
        <3> QED BY <3>1
    <2>2. CASE Start(q) /\ q = r
        BY <2>2 DEF Start, tables
    <2>3. CASE Start(q) /\ q # r
        <3>1. UNCHANGED <<prices, stocks, code>> /\ call'[r] = call[r] /\ seen'[r] = seen[r]
            BY <2>3 DEF Start, tables
        <3> QED BY <3>1
    <2> QED BY <1>1, <2>1, <2>2, <2>3
<1>2. ASSUME NEW q \in Requests, Enter(q) \/ Detect(q) PROVE G
    BY <1>2 DEF Enter, Detect, tables
<1>3. ASSUME NEW q \in Requests, QueryPrice(q) \/ QueryTiers(q) \/ QueryStock(q) PROVE G
    <2>1. Reply(q) /\ UNCHANGED <<tables, call, seen>>
        BY <1>3 DEF QueryPrice, QueryTiers, QueryStock
    <2>2. code[q] = Nil
        BY <1>3 DEF QueryPrice, QueryTiers, QueryStock, Placed
    <2>3. code'[r] = Nil => code[r] = Nil
        BY <2>1, <2>2 DEF Reply
    <2> QED BY <2>1, <2>3 DEF tables
<1>5. ASSUME NEW s \in Skus, WritePrices(s) PROVE G
    BY <1>5 DEF WritePrices, Noticed
<1>6. ASSUME NEW s \in Skus, NEW o \in Sources, WriteStock(s, o) PROVE G
    BY <1>6 DEF WriteStock, Noticed
<1>7. CASE UNCHANGED vars
    BY <1>7 DEF vars, tables
<1> QED BY <1>1, <1>2, <1>3, <1>5, <1>6, <1>7 DEF Next, Step

(* A request's results are disturbed by no other request.                  *)
LEMMA OthersKeepResults ==
    ASSUME IInv, NEW r \in Requests, NEW q \in Requests, q # r, [Next]_vars,
           Refuse(q) \/ Start(q) \/ Step(q)
    PROVE  PriceOK(r)' /\ TiersOK(r)' /\ StockOK(r)'
<1> DEFINE Same == /\ call'[r] = call[r] /\ pat'[r] = pat[r] /\ sat'[r] = sat[r] /\ code'[r] = code[r]
                   /\ price'[r] = price[r] /\ tiers'[r] = tiers[r] /\ stock'[r] = stock[r]
                   /\ seen[r] \subseteq seen'[r] /\ (r \in failed <=> r \in failed')
                   /\ (schema \in Known => schema' = schema) /\ enterprise' = enterprise
<1>1. TypeOK /\ Detection
    BY DEF IInv
<1> USE <1>1 DEF TypeOK
<1>2. ASSUME Refuse(q) PROVE Same
    BY <1>2 DEF Refuse, tables
<1>3. ASSUME Start(q) PROVE Same
    BY <1>3 DEF Start, tables
<1>4. ASSUME Enter(q) PROVE Same
    BY <1>4 DEF Enter, tables, Known
<1>5. ASSUME Detect(q) PROVE Same
    <2>1. schema \notin Known
        BY <1>5 DEF Detect, Detection, Known
    <2> QED BY <1>5, <2>1 DEF Detect, NoFail, tables
<1>6. ASSUME QueryPrice(q) PROVE Same
    BY <1>6 DEF QueryPrice, Reply, Fail, NoFail, tables
<1>7. ASSUME QueryTiers(q) PROVE Same
    BY <1>7 DEF QueryTiers, Reply, Fail, NoFail, tables
<1>8. ASSUME QueryStock(q) PROVE Same
    BY <1>8 DEF QueryStock, Reply, Fail, NoFail, tables
<1>9. Same
    BY <1>2, <1>3, <1>4, <1>5, <1>6, <1>7, <1>8 DEF Step
<1> HIDE DEF TypeOK
<1> QED BY <1>9, Monotone DEF IInv

(* A request that has asked nothing yet, or only about the schema.         *)
LEMMA EarlyResults ==
    ASSUME IInv, NEW r \in Requests, Refuse(r) \/ Start(r) \/ Enter(r) \/ Detect(r)
    PROVE  PriceOK(r)' /\ TiersOK(r)' /\ StockOK(r)'
<1>1. TypeOK /\ Placed(r) /\ StockOK(r)
    BY DEF IInv
<1> USE <1>1 DEF TypeOK, Placed
<1>2. CASE Refuse(r)
    BY <1>2 DEF Refuse, PriceOK, TiersOK, StockOK, tables
<1>3. CASE Start(r)
    <2>1. /\ code'[r] = Nil /\ price'[r] = Nil
          /\ sat'[r] # "done" \/ call'[r].kind \notin {"pair", "stock"}
          /\ pat'[r] # "done" \/ call'[r].kind = "stock"
        BY <1>3 DEF Start
    <2> QED BY <2>1, TablesAssumption DEF PriceOK, TiersOK, StockOK
<1>4. ASSUME Enter(r) \/ Detect(r) PROVE PriceOK(r)' /\ TiersOK(r)' /\ StockOK(r)'
    <2>1. /\ pat'[r] # "done" /\ code'[r] = Nil /\ UNCHANGED <<call, sat, stock, seen>>
          /\ failed \subseteq failed'
        BY <1>4, TablesAssumption DEF Enter, Detect, NoFail
    <2> QED BY <2>1, TablesAssumption DEF PriceOK, TiersOK, StockOK
<1> QED BY <1>2, <1>3, <1>4

LEMMA PriceResults ==
    ASSUME IInv, NEW r \in Requests, QueryPrice(r)
    PROVE  PriceOK(r)' /\ TiersOK(r)' /\ StockOK(r)'
<1> DEFINE now == Held(prices, stocks, call[r])
<1>1. TypeOK /\ Placed(r) /\ StockOK(r) /\ Seeing(r) /\ Detection
    BY DEF IInv
<1>2. /\ pat[r] = "query" /\ call[r].kind # "tiers" /\ schema \in Known
      /\ UNCHANGED <<tables, schema, call, sat, stock, seen>> /\ failed \subseteq failed'
    BY <1>1 DEF QueryPrice, Detection, Fail, NoFail
<1>3. /\ call[r] \in Calls /\ price[r] = Nil /\ now \in seen[r]
      /\ now.product \in Products \cup {Nil} /\ call[r].group \in Groups
    BY <1>1, <1>2 DEF TypeOK, Placed, Seeing, Running, Held, Calls
<1>4. StockOK(r)'
    BY <1>1, <1>2 DEF StockOK
<1>5. TiersOK(r)'
    BY <1>2 DEF TiersOK
<1>6. CASE Usable /\ NoFail /\ \E v \in LowestPrices(prices[call[r].sku], call[r].group) : price' = [price EXCEPT ![r] = v]
    <2>1. now.product = prices[call[r].sku]
        BY DEF Held
    <2>2. PICK v \in LowestPrices(now.product, call[r].group) : price' = [price EXCEPT ![r] = v]
        BY <1>6, <2>1
    <2>3. price'[r] = v
        BY <1>1, <2>2 DEF TypeOK
    <2>4. /\ v # Nil => now.product # Nil /\ v \in OfferedTo(call[r].group, now.product)
          /\ v = Nil => Unpriced(call[r].group, now.product)
        BY <1>3, <2>2, LowestPricesOffered
    <2>5. call' = call /\ seen' = seen
        BY <1>2
    <2> HIDE DEF now
    <2> QED BY <1>3, <1>4, <1>5, <2>3, <2>4, <2>5 DEF PriceOK, Usable
<1>7. CASE UNCHANGED price /\ (r \in failed' \/ ~Usable)
    <2>1. UNCHANGED <<enterprise, schema, call, seen>> /\ schema \in Known /\ price'[r] = Nil
        BY <1>2, <1>3, <1>7 DEF tables
    <2> QED BY <1>4, <1>5, <1>7, <2>1 DEF PriceOK, Usable
<1>8. \/ Usable /\ NoFail /\ \E v \in LowestPrices(prices[call[r].sku], call[r].group) : price' = [price EXCEPT ![r] = v]
      \/ UNCHANGED price /\ (r \in failed' \/ ~Usable)
    BY DEF QueryPrice, Fail
<1> QED BY <1>4, <1>5, <1>6, <1>7, <1>8

LEMMA TiersResults ==
    ASSUME IInv, NEW r \in Requests, QueryTiers(r)
    PROVE  PriceOK(r)' /\ TiersOK(r)' /\ StockOK(r)'
<1>1. TypeOK /\ Placed(r) /\ StockOK(r) /\ Seeing(r)
    BY DEF IInv
<1>2. /\ pat[r] = "query" /\ call[r].kind = "tiers" /\ Reply(r)
      /\ UNCHANGED <<tables, schema, call, sat, price, stock, seen>> /\ failed \subseteq failed'
    BY DEF QueryTiers, Fail, NoFail
<1>3. /\ Held(prices, stocks, call[r]) \in seen[r] /\ price[r] = Nil /\ call[r] # Nil /\ code[r] = Nil
      /\ tiers[r] = Nil
    BY <1>1, <1>2 DEF TypeOK, Placed, Seeing, Running
<1>4. StockOK(r)'
    BY <1>1, <1>2 DEF StockOK
<1>5. PriceOK(r)'
    BY <1>2, <1>3 DEF PriceOK
<1>6. tiers'[r] # Nil => \E h \in seen[r] : /\ tiers'[r] \subseteq TierRows(h.product)
                                           /\ (tiers'[r] = TierRows(h.product) \/ r \in failed')
    <2> DEFINE rows == TierRows(prices[call[r].sku])
    <2>1. Held(prices, stocks, call[r]).product = prices[call[r].sku]
        BY DEF Held
    <2>2. \/ tiers'[r] = rows
          \/ tiers'[r] \in SUBSET rows /\ r \in failed'
          \/ tiers'[r] = Nil
        BY <1>1, <1>3 DEF QueryTiers, Fail, TypeOK
    <2> QED BY <1>3, <2>1, <2>2, Zenon
<1>7. code'[r] = 200 => tiers'[r] # Nil
    BY <1>1, <1>2, <1>3, TablesAssumption DEF Reply, Status, TypeOK
<1> QED BY <1>2, <1>4, <1>5, <1>6, <1>7 DEF TiersOK

LEMMA StockResults ==
    ASSUME IInv, NEW r \in Requests, QueryStock(r)
    PROVE  PriceOK(r)' /\ TiersOK(r)' /\ StockOK(r)'
<1>1. TypeOK /\ Placed(r) /\ PriceOK(r) /\ TiersOK(r) /\ Seeing(r)
    BY DEF IInv
<1>2. /\ sat[r] = "query" /\ Reply(r)
      /\ UNCHANGED <<tables, schema, call, pat, price, tiers, seen>> /\ failed \subseteq failed'
    BY DEF QueryStock, Fail, NoFail
<1>3. Held(prices, stocks, call[r]) \in seen[r] /\ stock[r] = Nil /\ call[r] # Nil /\ code[r] = Nil
    BY <1>1, <1>2 DEF TypeOK, Placed, Seeing, Running
<1>4. PriceOK(r)'
    BY <1>1, <1>2 DEF PriceOK, Usable, tables
<1>5. code'[r] = 200 /\ call[r].kind = "tiers" => tiers[r] # Nil
    BY <1>1, <1>2, <1>3, TablesAssumption DEF Reply, Status, TypeOK
<1>6. TiersOK(r)'
    BY <1>1, <1>2, <1>5 DEF TiersOK
<1>7. (r \in failed' /\ stock'[r] = Nil) \/ stock'[r] = Held(prices, stocks, call[r]).quantity
    BY <1>1, <1>3 DEF QueryStock, Fail, Held, Quantity, TypeOK
<1> QED BY <1>2, <1>3, <1>4, <1>6, <1>7 DEF StockOK

LEMMA InvKept == IInv /\ [Next]_vars => IInv'
<1> SUFFICES ASSUME IInv, [Next]_vars PROVE IInv'
    OBVIOUS
<1>1. ASSUME NEW r \in Requests PROVE PriceOK(r)' /\ TiersOK(r)' /\ StockOK(r)'
    <2> DEFINE Kept == PriceOK(r)' /\ TiersOK(r)' /\ StockOK(r)'
    <2>1. ASSUME NEW q \in Requests, Refuse(q) \/ Start(q) \/ Step(q) PROVE Kept
        <3>1. CASE q # r
            BY <2>1, <3>1, OthersKeepResults
        <3>2. CASE q = r
            BY <2>1, <3>2, EarlyResults, PriceResults, TiersResults, StockResults DEF Step
        <3> QED BY <3>1, <3>2
    <2>2. PriceOK(r) /\ TiersOK(r) /\ StockOK(r) /\ (call[r] # Nil => seen[r] \subseteq seen'[r])
        BY SeeingKept DEF IInv
    <2>3. ASSUME NEW s \in Skus, WritePrices(s) \/ \E o \in Sources : WriteStock(s, o) PROVE Kept
        <3>1. UNCHANGED <<enterprise, schema, call, pat, sat, price, stock, tiers, code, failed>>
            BY <2>3 DEF WritePrices, WriteStock
        <3>2. CASE call[r] # Nil
            <4>1. seen[r] \subseteq seen'[r]
                BY <2>2, <3>2
            <4> QED BY <2>2, <3>1, <4>1, Monotone
        <3>3. CASE call[r] = Nil
            BY <3>1, <3>3 DEF IInv, Placed, PriceOK, TiersOK, StockOK
        <3> QED BY <3>2, <3>3
    <2>4. ASSUME UNCHANGED vars PROVE Kept
        BY <2>2, <2>4, Monotone DEF vars, tables
    <2> QED BY <2>1, <2>3, <2>4 DEF Next
<1>2. \A r \in Requests : Placed(r)' /\ Seeing(r)'
    BY PlacedKept, SeeingKept
<1> QED BY <1>1, <1>2, TypesKept, DetectionKept DEF IInv

THEOREM RealtimeInvariant == Spec => []IInv
BY InitInv, InvKept, PTL DEF Spec

-----------------------------------------------------------------------------
(* Types, for any tables and any number of requests; in particular the     *)
(* placeholder of a missing price is never answered (execPriceQuery).      *)
THEOREM RealtimeTypes == Spec => []TypeOK
<1>1. IInv => TypeOK
    BY DEF IInv
<1> QED BY <1>1, RealtimeInvariant, PTL

(* A price answered is the least of the product's own prices and of one    *)
(* tier price of the customer's group, of one moment of the request; tier  *)
(* prices are answered of one moment too, and only a query that broke off  *)
(* leaves some out.                                                        *)
THEOREM RealtimePricesCurrent == Spec => []PricesCurrent
<1>1. IInv => PricesCurrent
    <2> SUFFICES ASSUME IInv, NEW r \in Requests, code[r] = 200
                 PROVE  /\ price[r] # Nil =>
                              \E h \in seen[r] : h.product # Nil /\ price[r] \in OfferedTo(call[r].group, h.product)
                        /\ call[r].kind = "tiers" =>
                              \E h \in seen[r] : /\ tiers[r] \subseteq TierRows(h.product)
                                                 /\ tiers[r] = TierRows(h.product) \/ r \in failed
        BY DEF PricesCurrent
    <2>1. call[r] # Nil /\ pat[r] = "done"
        BY TablesAssumption DEF IInv, Placed
    <2> QED BY <2>1 DEF IInv, PriceOK, TiersOK
<1> QED BY <1>1, RealtimeInvariant, PTL

(* A price is not found only for a reason: however many requests are the   *)
(* first to need the schema, none takes it for the wrong one.              *)
THEOREM RealtimePricesFound == Spec => []PricesFound
<1>1. IInv => PricesFound
    <2> SUFFICES ASSUME IInv, NEW r \in Requests, code[r] \in {200, 404}, call[r].kind \in {"pair", "price"}, price[r] = Nil
                 PROVE  \/ r \in failed
                        \/ schema \in Known /\ ~Usable
                        \/ \E h \in seen[r] : Unpriced(call[r].group, h.product)
        BY DEF PricesFound
    <2>1. call[r] # Nil /\ pat[r] = "done"
        BY TablesAssumption DEF IInv, Placed
    <2> QED BY <2>1 DEF IInv, PriceOK
<1> QED BY <1>1, RealtimeInvariant, PTL

(* The stock endpoints answer the source's quantity at some moment.        *)
THEOREM RealtimeStockCurrent == Spec => []StockCurrent
<1>1. IInv => StockCurrent
    <2> SUFFICES ASSUME IInv, NEW r \in Requests, code[r] \in {200, 404}, call[r].kind \in {"pair", "stock"}
                 PROVE  \/ stock[r] = Nil /\ r \in failed
                        \/ \E h \in seen[r] : stock[r] = h.quantity
        BY DEF StockCurrent
    <2>1. call[r] # Nil /\ sat[r] = "done"
        BY TablesAssumption DEF IInv, Placed
    <2> QED BY <2>1 DEF IInv, StockOK
<1> QED BY <1>1, RealtimeInvariant, PTL
================================================================================
