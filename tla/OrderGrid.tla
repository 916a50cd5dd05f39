------------------------------- MODULE OrderGrid -------------------------------
(***************************************************************************)
(* The sales order grid: requests that list, create, replace and delete    *)
(* orders, and the list of all orders kept in Redis for five minutes, which *)
(* no write touches.  Reading one order, and a list found in Redis, change *)
(* nothing and are no actions; nor is a request that ends in an error      *)
(* before it has changed anything.                                         *)
(***************************************************************************)
EXTENDS Naturals

CONSTANTS Clients, OrderIds,
          OrderFields, Texts, \* an order's columns and their contents
          Blank,              \* the zero value of a column
          Now,                \* what time.Now() gives; no two times are told apart
          MaxOrderWrites,     \* bound on the writes
          Nil

Fields == OrderFields \cup {"created_at", "updated_at"}
Orders == [Fields -> Texts \cup {Now}]
Bodies == [Fields -> Texts \cup {Nil}]
Grids == [OrderIds -> Orders \cup {Nil}]

ASSUME GridAssumption ==
    /\ Blank \in Texts /\ MaxOrderWrites \in Nat
    /\ Nil \notin Texts /\ Nil \notin Orders

VARIABLES
    redis,     \* whether Redis answered when the program started
    orders,    \* the table: id -> order, or Nil
    listed,    \* what Redis has under orders:all, or Nil
    at,        \* client -> "idle", "store" a list, "save" an order
    list,      \* the list it has read
    source, target, \* the order a PUT has read, and the one it will save
    body,      \* the columns its body gives
    order,     \* the order with them
    changed,   \* ghost: columns of the order a PUT has read, changed since
    latest,    \* ghost: id -> the values last given for its columns, or Nil
    lost,      \* ghost: columns a PUT has put back to what it had read
    orderWrites

history == <<changed, latest, lost>>
gridVars == <<redis, orders, listed, at, list, source, target, body, order, history, orderWrites>>

GridInit ==
    /\ redis \in BOOLEAN
    /\ orders \in {[i \in OrderIds |-> Nil], [i \in OrderIds |-> [f \in Fields |-> Blank]]}
    /\ listed = Nil
    /\ at = [c \in Clients |-> "idle"]
    /\ list = [c \in Clients |-> Nil]
    /\ source = [c \in Clients |-> Nil]
    /\ target = [c \in Clients |-> Nil]
    /\ body = [c \in Clients |-> Nil]
    /\ order = [c \in Clients |-> Nil]
    /\ changed = [c \in Clients |-> {}]
    /\ latest = orders
    /\ lost = {}
    /\ orderWrites = 0

-----------------------------------------------------------------------------
(* GET /orders without an answer from Redis, which may fail.               *)
ListOrders(c) ==
    /\ at[c] = "idle" /\ redis
    /\ list' = [list EXCEPT ![c] = orders]
    /\ at' = [at EXCEPT ![c] = "store"]
    /\ UNCHANGED <<redis, orders, listed, source, target, body, order, history, orderWrites>>

(* The result of Set is not looked at.                                     *)
StoreList(c) ==
    /\ at[c] = "store"
    /\ listed' \in {list[c], listed}
    /\ at' = [at EXCEPT ![c] = "idle"]
    /\ list' = [list EXCEPT ![c] = Nil]
    /\ UNCHANGED <<redis, orders, source, target, body, order, history, orderWrites>>

(* Mutant: the list is stored without an expiry.                           *)
NeverExpire == FALSE /\ UNCHANGED gridVars
ExpireList ==
    /\ listed # Nil
    /\ listed' = Nil
    /\ UNCHANGED <<redis, orders, at, list, source, target, body, order, history, orderWrites>>

-----------------------------------------------------------------------------
(* The columns in which two states of an order's row differ.               *)
Differing(o, p) == {f \in Fields : o = Nil \/ p = Nil \/ o[f] # p[f]}

(* Ghost: order i becomes o for the PUTs that have read it.                *)
ChangedFor(d, i, o) == changed[d] \cup
    (IF at[d] = "save" /\ source[d] = i /\ orders[i] # o THEN Differing(orders[i], o) ELSE {})

(* A request that gives the whole of order i, or takes it away.            *)
Write(c, i, o) ==
    /\ orders' = [orders EXCEPT ![i] = o]
    /\ changed' = [d \in Clients |-> ChangedFor(d, i, o)]
    /\ latest' = [latest EXCEPT ![i] = o]
    /\ lost' = lost \ ({i} \X Fields)

CreateOrder(c) ==
    /\ at[c] = "idle" /\ orderWrites < MaxOrderWrites
    /\ \E i \in OrderIds, b \in [Fields -> Texts] :
          orders[i] = Nil /\ Write(c, i, [b EXCEPT !["created_at"] = Now])
    /\ orderWrites' = orderWrites + 1
    /\ UNCHANGED <<redis, listed, at, list, source, target, body, order>>

DeleteOrder(c) ==
    /\ at[c] = "idle" /\ orderWrites < MaxOrderWrites
    /\ \E i \in OrderIds : Write(c, i, Nil)
    /\ orderWrites' = orderWrites + 1
    /\ UNCHANGED <<redis, listed, at, list, source, target, body, order>>

(* Bind sets the columns its body gives in what First has read; then the   *)
(* order is stamped.                                                       *)

(* Mutant: the body is bound to an order of its own.                       *)
BoundAlone(o, b) ==
    [f \in Fields |-> CASE f = "updated_at" -> Now [] b[f] = Nil -> Blank [] OTHER -> b[f]]
(* Mutant: a column the body does not give becomes null.                   *)
BoundNull(o, b) == b
Bound(o, b) ==
    [f \in Fields |-> CASE f = "updated_at" -> Now [] b[f] = Nil -> o[f] [] OTHER -> b[f]]

(* The body may give another EntityID than the path.                       *)
ReadOrder(c) ==
    /\ at[c] = "idle" /\ orderWrites < MaxOrderWrites
    /\ \E i, j \in OrderIds, b \in Bodies :
        /\ orders[i] # Nil
        /\ source' = [source EXCEPT ![c] = i]
        /\ target' = [target EXCEPT ![c] = j]
        /\ body' = [body EXCEPT ![c] = b]
        /\ order' = [order EXCEPT ![c] = Bound(orders[i], b)]
    /\ at' = [at EXCEPT ![c] = "save"]
    /\ orderWrites' = orderWrites + 1
    /\ UNCHANGED <<redis, orders, listed, list, history>>

(* Ghosts of a PUT's success: it gives the columns of its body and the     *)
(* stamp; of the others it puts those back that have changed, or that are  *)
(* of another order.                                                       *)
GivenBy(c) == {f \in Fields : body[c][f] # Nil} \cup {"updated_at"}
PutBack(c) == (IF target[c] = source[c] THEN changed[c] ELSE Fields) \ GivenBy(c)
Saved(c) ==
    LET j == target[c]
    IN  /\ latest' = [latest EXCEPT ![j] =
                         [f \in Fields |-> IF f \in GivenBy(c) \/ latest[j] = Nil THEN order[c][f]
                                                                               ELSE latest[j][f]]]
        /\ lost' = (lost \ ({j} \X GivenBy(c))) \cup ({j} \X PutBack(c))
        /\ changed' = [d \in Clients |-> IF d = c THEN {} ELSE ChangedFor(d, j, order[c])]

(* Save updates the row, or inserts it if there is none: one deleted        *)
(* meanwhile is back.  It may fail.                                        *)
SaveOrder(c) ==
    /\ at[c] = "save"
    /\ \/ orders' = [orders EXCEPT ![target[c]] = order[c]] /\ Saved(c)
       \/ changed' = [changed EXCEPT ![c] = {}] /\ UNCHANGED <<orders, latest, lost>>
    /\ at' = [at EXCEPT ![c] = "idle"]
    /\ source' = [source EXCEPT ![c] = Nil]
    /\ target' = [target EXCEPT ![c] = Nil]
    /\ body' = [body EXCEPT ![c] = Nil]
    /\ order' = [order EXCEPT ![c] = Nil]
    /\ UNCHANGED <<redis, listed, list, orderWrites>>

GridNext ==
    \/ ExpireList
    \/ \E c \in Clients : \/ ListOrders(c) \/ StoreList(c)
                          \/ CreateOrder(c) \/ DeleteOrder(c) \/ ReadOrder(c) \/ SaveOrder(c)

(* A request that has begun goes on, and Redis keeps its clock.            *)
GridFairness ==
    /\ WF_gridVars(ExpireList)
    /\ \A c \in Clients : WF_gridVars(StoreList(c)) /\ WF_gridVars(SaveOrder(c))

-----------------------------------------------------------------------------
(* Whatever requests overlap: every column of an order holds the value last *)
(* given for it by a request that succeeded (the times a create and a PUT  *)
(* stamp among them), unless a PUT that does not give the column has put it *)
(* back to what it read, which it only does when the column changed between *)
(* its read and its save, or when its body names another order.  So what a *)
(* PUT gives is there after it, and a PUT alone loses nothing; an order    *)
(* that is deleted comes back in no other way either.                      *)
UpdatesKept ==
    \A i \in OrderIds :
        /\ orders[i] = Nil <=> latest[i] = Nil
        /\ orders[i] # Nil => \A f \in Fields : orders[i][f] = latest[i][f] \/ <<i, f>> \in lost

(* When the orders are no longer written, the list in Redis and the lists  *)
(* about to be stored and answered are in the end those of the table,      *)
(* although no write removes the list and an old one may replace a newer.  *)
ListsSettle ==
    <>[](/\ listed # Nil => listed = orders
         /\ \A c \in Clients : at[c] = "store" => list[c] = orders)
================================================================================
