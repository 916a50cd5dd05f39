-------------------------------- MODULE Realtime --------------------------------
(***************************************************************************)
(* The realtime API: requests for a SKU's price, its stock, both at once or *)
(* its tier prices, answered by queries of the tables while Magento writes *)
(* them.  The first request to need a price finds out which schema is in use; *)
(* the others wait for it.  A price query is atomic and so is a stock query; *)
(* what else a request does reads no shared state and is part of a step.   *)
(* The repositories themselves cannot fail to be made: main has called     *)
(* db.DB() before.                                                         *)
(***************************************************************************)
EXTENDS Naturals

CONSTANTS Requests, Skus, Sources,
          Groups,      \* customer groups, 0 for nobody logged in
          Tiers,       \* the tier prices there may be
          Products,    \* the price rows a product may have: base, special, tiers
          Quantities,
          Sentinel,    \* 999999999, for a price that is missing
          MaxWrites,   \* bound on the writes of the tables
          MaxFailures, \* bound on the queries that fail
          Nil

Amounts == Nat

ASSUME TablesAssumption ==
    /\ Sentinel \in Nat \ {0}
    /\ Tiers \subseteq [group : Groups, all : BOOLEAN, qty : Amounts, value : Amounts]
    /\ Products \subseteq [base : Amounts \cup {Nil}, special : Amounts \cup {Nil},
                           tiers : SUBSET Tiers]
    /\ Quantities \subseteq Nat /\ Groups \subseteq Nat
    /\ MaxWrites \in Nat /\ MaxFailures \in Nat
    /\ Nil \notin Nat \cup Products /\ \A rows \in SUBSET Tiers : rows # Nil

VARIABLES
    enterprise, \* whether the price rows are linked by row_id
    prices,     \* SKU -> its product and price rows, or Nil
    stocks,     \* <<SKU, source>> -> its quantity, or Nil
    schema,     \* what schemaOnce and isEnterprise hold
    call,       \* request -> what is asked for, or Nil
    pat, sat,   \* where its two goroutines are
    price, stock, tiers, \* what they have found, Nil for nothing
    code,       \* the status of the answer, or Nil
    writes, failures,
    failed,     \* ghost: requests whose query of a price, stock or tiers failed
    seen        \* ghost: what the tables held for the SKU during the request

tables == <<enterprise, prices, stocks>>
vars == <<tables, schema, call, pat, sat, price, stock, tiers, code, writes, failures, failed, seen>>

Kinds == {"pair", "price", "stock", "tiers"}
Calls == {c \in [kind : Kinds, sku : Skus, source : Sources, group : Groups] :
             c.kind \in {"stock", "tiers"} => c.group = 0}
Known == {"CE", "EE"}

ASSUME NilAssumption == Nil \notin Calls

Init ==
    /\ enterprise \in BOOLEAN
    /\ prices \in [Skus -> Products \cup {Nil}]
    /\ stocks \in [Skus \X Sources -> Quantities \cup {Nil}]
    /\ schema = "unknown"
    /\ call = [r \in Requests |-> Nil]
    /\ pat = [r \in Requests |-> "idle"]
    /\ sat = [r \in Requests |-> "idle"]
    /\ price = [r \in Requests |-> Nil]
    /\ stock = [r \in Requests |-> Nil]
    /\ tiers = [r \in Requests |-> Nil]
    /\ code = [r \in Requests |-> Nil]
    /\ writes = 0
    /\ failures = 0
    /\ failed = {}
    /\ seen = [r \in Requests |-> {}]

Held(p, q, c) == [product |-> p[c.sku], quantity |-> q[<<c.sku, c.source>>]]

-----------------------------------------------------------------------------
(* What GetLowestPriceBySKU can answer: the least of the two prices and of *)
(* one of the tiers the query joins, whichever LIMIT 1 leaves.             *)

(* Mutant: without the parentheses, qty = 1 only binds the tiers for all. *)
MatchesLoosely(t, g) == t.group = g \/ (t.all /\ t.qty = 1)
Matches(t, g) == (t.group = g \/ t.all) /\ t.qty = 1

TierValues(p, g) ==
    LET matching == {t \in p.tiers : Matches(t, g)}
    IN  IF matching = {} THEN {Sentinel} ELSE {t.value : t \in matching}

Coalesce(v) == IF v = Nil THEN Sentinel ELSE v
Lesser(v, w) == IF v <= w THEN v ELSE w
Least(p, v) == Lesser(Lesser(Coalesce(p.base), Coalesce(p.special)), v)

(* Mutant: the sentinel itself passes for a price.                         *)
PriceOrSentinel(v) == IF v > Sentinel THEN Nil ELSE v
PriceOrNil(v) == IF v >= Sentinel THEN Nil ELSE v

LowestPrices(p, g) ==
    IF p = Nil THEN {Nil} ELSE {PriceOrNil(Least(p, v)) : v \in TierValues(p, g)}

TierRows(p) == IF p = Nil THEN {} ELSE p.tiers

(* The columns the query names are those of the tables.                    *)
Usable == (schema = "EE") = enterprise

-----------------------------------------------------------------------------
(* No SKU, or no valid signature: nothing is looked up.                    *)
Refuse(r) ==
    /\ call[r] = Nil /\ code[r] = Nil
    /\ \E c \in {400, 401} : code' = [code EXCEPT ![r] = c]
    /\ UNCHANGED <<tables, schema, call, pat, sat, price, stock, tiers, writes, failures, failed, seen>>

Start(r) ==
    /\ call[r] = Nil /\ code[r] = Nil
    /\ \E c \in Calls :
        /\ call' = [call EXCEPT ![r] = c]
        /\ pat' = [pat EXCEPT ![r] = IF c.kind = "stock" THEN "done" ELSE "enter"]
        /\ sat' = [sat EXCEPT ![r] = IF c.kind \in {"pair", "stock"} THEN "query" ELSE "done"]
        /\ seen' = [seen EXCEPT ![r] = {Held(prices, stocks, c)}]
    /\ UNCHANGED <<tables, schema, price, stock, tiers, code, writes, failures, failed>>

(* schemaOnce.Do: the first goes in, the others wait until it is out.      *)

(* Mutant: a flag set before the query stands for the Once.                *)
EnterEarly(r) ==
    /\ pat[r] = "enter"
    /\ \/ /\ schema = "unknown"
          /\ schema' = "detecting"
          /\ pat' = [pat EXCEPT ![r] = "detect"]
       \/ /\ schema # "unknown"
          /\ pat' = [pat EXCEPT ![r] = "query"]
          /\ UNCHANGED schema
    /\ UNCHANGED <<tables, call, sat, price, stock, tiers, code, writes, failures, failed, seen>>
Enter(r) ==
    /\ pat[r] = "enter"
    /\ \/ /\ schema = "unknown"
          /\ schema' = "detecting"
          /\ pat' = [pat EXCEPT ![r] = "detect"]
       \/ /\ schema \in Known
          /\ pat' = [pat EXCEPT ![r] = "query"]
          /\ UNCHANGED schema
    /\ UNCHANGED <<tables, call, sat, price, stock, tiers, code, writes, failures, failed, seen>>

OneFails == failures < MaxFailures /\ failures' = failures + 1
Fail(r) == OneFails /\ failed' = failed \cup {r}
NoFail == UNCHANGED <<failures, failed>>

(* The query of information_schema names no database: one beside this one *)
(* may have a row_id.  A failed query means there is none, for good.       *)
Scanned == IF enterprise THEN {"EE"} ELSE {"CE", "EE"}

(* Mutant: a failed detection gives up without letting the others in.      *)
DetectStuck(r) ==
    /\ pat[r] = "detect"
    /\ \/ /\ schema' \in Scanned
          /\ NoFail
       \/ OneFails /\ UNCHANGED <<schema, failed>>
    /\ pat' = [pat EXCEPT ![r] = "query"]
    /\ UNCHANGED <<tables, call, sat, price, stock, tiers, code, writes, seen>>
Detect(r) ==
    /\ pat[r] = "detect"
    /\ \/ /\ schema' \in Scanned
          /\ NoFail
       \/ OneFails /\ schema' = "CE" /\ UNCHANGED failed
    /\ pat' = [pat EXCEPT ![r] = "query"]
    /\ UNCHANGED <<tables, call, sat, price, stock, tiers, code, writes, seen>>

(* eg.Wait(): the query that ends last lets the request answer.  A pair is *)
(* answered with a price of 0 when only the stock was found; tier prices   *)
(* are an error only when their query was one.                             *)
Status(r) ==
    CASE call[r].kind = "tiers" -> IF tiers[r] = Nil THEN 500 ELSE 200
      [] OTHER -> IF price[r] = Nil /\ stock[r] = Nil THEN 404 ELSE 200

Reply(r) ==
    code' = [code EXCEPT ![r] = IF pat'[r] = "done" /\ sat'[r] = "done" THEN Status(r)' ELSE Nil]

(* GetLowestPriceBySKU's query, in the schema that was detected.           *)
QueryPrice(r) ==
    /\ pat[r] = "query" /\ call[r].kind # "tiers"
    /\ \/ Usable /\ NoFail /\ \E v \in LowestPrices(prices[call[r].sku], call[r].group) :
                                  price' = [price EXCEPT ![r] = v]
       \/ ~Usable /\ NoFail /\ UNCHANGED price
       \/ Fail(r) /\ UNCHANGED price
    /\ pat' = [pat EXCEPT ![r] = "done"]
    /\ UNCHANGED <<tables, schema, call, sat, stock, tiers, writes, seen>>
    /\ Reply(r)

(* GetTierPricesBySKU.  A query that cannot start fails the request; one    *)
(* that breaks off, or a row that does not scan, only leaves rows out: the *)
(* loop goes on after a scan error and nobody asks for rows.Err().         *)
QueryTiers(r) ==
    /\ pat[r] = "query" /\ call[r].kind = "tiers"
    /\ \/ Usable /\ NoFail /\ tiers' = [tiers EXCEPT ![r] = TierRows(prices[call[r].sku])]
       \/ Usable /\ Fail(r) /\ \E some \in SUBSET TierRows(prices[call[r].sku]) :
                                 tiers' = [tiers EXCEPT ![r] = some]
       \/ ~Usable /\ NoFail /\ UNCHANGED tiers
       \/ Fail(r) /\ UNCHANGED tiers
    /\ pat' = [pat EXCEPT ![r] = "done"]
    /\ UNCHANGED <<tables, schema, call, sat, price, stock, writes, seen>>
    /\ Reply(r)

(* GetQuantityBySKU.                                                       *)

(* Mutant: a quantity that is missing counts as zero.                      *)
QuantityOrZero(s, o) == IF stocks[<<s, o>>] = Nil THEN 0 ELSE stocks[<<s, o>>]
Quantity(s, o) == stocks[<<s, o>>]

QueryStock(r) ==
    /\ sat[r] = "query"
    /\ \/ NoFail /\ stock' = [stock EXCEPT ![r] = Quantity(call[r].sku, call[r].source)]
       \/ Fail(r) /\ UNCHANGED stock
    /\ sat' = [sat EXCEPT ![r] = "done"]
    /\ UNCHANGED <<tables, schema, call, pat, price, tiers, writes, seen>>
    /\ Reply(r)

-----------------------------------------------------------------------------
(* Magento: prices and stock change, products come and go.  A write while   *)
(* no request runs would only be another start.                            *)

Running(r) == call[r] # Nil /\ code[r] = Nil

Noticed(p, q) ==
    seen' = [r \in Requests |-> IF Running(r) THEN seen[r] \cup {Held(p, q, call[r])} ELSE seen[r]]

WritePrices(s) ==
    /\ writes < MaxWrites /\ \E r \in Requests : Running(r)
    /\ \E p \in Products \cup {Nil} : prices' = [prices EXCEPT ![s] = p]
    /\ writes' = writes + 1
    /\ Noticed(prices', stocks)
    /\ UNCHANGED <<enterprise, stocks, schema, call, pat, sat, price, stock, tiers, code, failures, failed>>

WriteStock(s, o) ==
    /\ writes < MaxWrites /\ \E r \in Requests : Running(r)
    /\ \E q \in Quantities \cup {Nil} : stocks' = [stocks EXCEPT ![<<s, o>>] = q]
    /\ writes' = writes + 1
    /\ Noticed(prices, stocks')
    /\ UNCHANGED <<enterprise, prices, schema, call, pat, sat, price, stock, tiers, code, failures, failed>>

Step(r) ==
    Enter(r) \/ Detect(r) \/ QueryPrice(r) \/ QueryTiers(r) \/ QueryStock(r)

Next ==
    \/ \E r \in Requests : Refuse(r) \/ Start(r) \/ Step(r)
    \/ \E s \in Skus : WritePrices(s) \/ \E o \in Sources : WriteStock(s, o)

Spec == Init /\ [][Next]_vars

(* Goroutines run on, and the database answers or fails.                   *)
FairSpec == Spec /\ \A r \in Requests : WF_vars(Step(r))

-----------------------------------------------------------------------------
(* Types, and that a price answered is one: the placeholder of a missing   *)
(* price never leaves execPriceQuery.                                      *)
TypeOK ==
    /\ enterprise \in BOOLEAN
    /\ prices \in [Skus -> Products \cup {Nil}]
    /\ stocks \in [Skus \X Sources -> Quantities \cup {Nil}]
    /\ schema \in {"unknown", "detecting"} \cup Known
    /\ call \in [Requests -> Calls \cup {Nil}]
    /\ pat \in [Requests -> {"idle", "enter", "detect", "query", "done"}]
    /\ sat \in [Requests -> {"idle", "query", "done"}]
    /\ price \in [Requests -> 0..(Sentinel - 1) \cup {Nil}]
    /\ stock \in [Requests -> Nat \cup {Nil}]
    /\ tiers \in [Requests -> {Nil} \cup SUBSET Tiers]
    /\ code \in [Requests -> {200, 400, 401, 404, 500, Nil}]
    /\ writes \in 0..MaxWrites /\ failures \in 0..MaxFailures
    /\ failed \subseteq Requests
    /\ seen \in [Requests -> SUBSET [product : Products \cup {Nil}, quantity : Quantities \cup {Nil}]]

(* What a group may be answered for a product: the least of its own prices *)
(* and, if tiers for a single piece match the group, of one of these.  A   *)
(* price of the placeholder or more counts as none.                        *)
OwnPrices(p) == {p.base, p.special} \ {Nil}
TierPrices(g, p) == {t.value : t \in {t \in p.tiers : t.qty = 1 /\ (t.all \/ t.group = g)}}
LeastOf(v, S) == v \in S /\ \A w \in S : v <= w
OfferedTo(g, p) ==
    {v \in OwnPrices(p) \cup TierPrices(g, p) :
        \/ TierPrices(g, p) = {} /\ LeastOf(v, OwnPrices(p))
        \/ \E w \in TierPrices(g, p) : LeastOf(v, OwnPrices(p) \cup {w})}
Unpriced(g, p) ==
    \/ p = Nil
    \/ /\ \A v \in OwnPrices(p) : v >= Sentinel
       /\ TierPrices(g, p) = {} \/ \E v \in TierPrices(g, p) : v >= Sentinel

(* However Magento changes prices and tiers meanwhile, a price that is     *)
(* answered, alone or with the stock, is the least of the product's own    *)
(* prices and of one tier price of the group, all of one moment of the     *)
(* request: no own price undercuts it, no tier for another group or for    *)
(* more than one piece is taken, and a tier that matches is not left out.  *)
(* Which of several tiers it is, the query leaves open (see LowestPrice).  *)
(* The tier prices answered are all of one moment, and all there were      *)
(* unless their query broke off.                                           *)
PricesCurrent ==
    \A r \in Requests :
        code[r] = 200 =>
            /\ price[r] # Nil =>
                   \E h \in seen[r] : h.product # Nil /\ price[r] \in OfferedTo(call[r].group, h.product)
            /\ call[r].kind = "tiers" =>
                   \E h \in seen[r] : /\ tiers[r] \subseteq TierRows(h.product)
                                      /\ tiers[r] = TierRows(h.product) \/ r \in failed

(* "GetLowestPriceBySKU returns the lowest price considering base, special, *)
(* and tier prices": at some moment of the request neither an own price    *)
(* nor a tier price of the group was lower.                                *)
LowestPrice ==
    \A r \in Requests :
        code[r] = 200 /\ price[r] # Nil =>
            \E h \in seen[r] :
                /\ h.product # Nil
                /\ LeastOf(price[r], OwnPrices(h.product) \cup TierPrices(call[r].group, h.product))

(* A price is not found only if at some moment there was none, the query   *)
(* failed, or the detection of the schema, which happens once, went wrong; *)
(* in particular no request takes the schema for the other one because it  *)
(* came before the detection was over.                                     *)
PricesFound ==
    \A r \in Requests :
        (code[r] \in {200, 404} /\ call[r].kind \in {"pair", "price"} /\ price[r] = Nil) =>
            \/ r \in failed
            \/ schema \in Known /\ ~Usable
            \/ \E h \in seen[r] : Unpriced(call[r].group, h.product)

(* The stock answered is the source's at some moment of the request, and it *)
(* is not found only if there was none or the query failed.                *)
StockCurrent ==
    \A r \in Requests :
        (code[r] \in {200, 404} /\ call[r].kind \in {"pair", "stock"}) =>
            \/ stock[r] = Nil /\ r \in failed
            \/ \E h \in seen[r] : stock[r] = h.quantity

(* Every request is answered, those that wait for the schema too.          *)
RequestsAnswered == \A r \in Requests : (call[r] # Nil) ~> (code[r] # Nil)
================================================================================
