-------------------------- MODULE VnPyFills_proofs --------------------------
(***************************************************************************)
(* Proofs about the vn.py gateway, for every number of remembered trades,  *)
(* of redeliveries and of restarts: no trade of the window is applied      *)
(* again, and no fill is booked on another symbol than its order's; and    *)
(* about the adapter that polls: a trade is handed on at most once, in     *)
(* order, and lost only when it raced the poll.                            *)
(***************************************************************************)
EXTENDS VnPyAdapter, Portfolio_proofs, SequenceTheorems, FiniteSetTheorems, TLAPS

OrderRecord == [sym : Symbols, q : SignedVolumes, life : Nat]
TradeRecord == [of : Nat, q : SignedVolumes, px : Prices]

\* The part of the type the arguments below rest on.
GatewayType ==
    /\ life \in Nat
    /\ order \in Seq(OrderRecord)
    /\ trade \in Seq(TradeRecord)
    /\ \A i \in DOMAIN order : order[i].life <= life
    /\ \A t \in DOMAIN trade : trade[t].of \in DOMAIN order
    /\ known \in [Names -> Symbols \cup {NoSymbol}]
    /\ window \in Seq(Nat)
    /\ applied \in Seq([t : Nat, s : Symbols])
    /\ \A i \in DOMAIN applied : applied[i].t \in DOMAIN trade

\* The mapper answers with a symbol ordered in this life, when there is one.
KnownIsOrdered ==
    \A n \in Names : OrderedInThisLife(n) # {} => known[n] \in OrderedInThisLife(n)

GatewayInv ==
    /\ GatewayType
    /\ WindowIsRecent
    /\ AppliedOncePerWindow
    /\ KnownIsOrdered
    /\ BookedWhereOrdered
-----------------------------------------------------------------------------
LEMMA FromVnPyType ==
    ASSUME GatewayType, NEW n \in Names PROVE FromVnPy(n) \in Symbols
  BY VnPyAssumption DEF GatewayType, FromVnPy

\* The trades of the window are distinct, since no two applications of one
\* trade are that close.
LEMMA WindowIsDistinct ==
    ASSUME GatewayType, WindowIsRecent, AppliedOncePerWindow,
           NEW i \in 1..Len(window), NEW j \in 1..Len(window), i < j
    PROVE  window[i] # window[j]
  <1> DEFINE k == Len(applied) - Len(window)
  <1>1. /\ Len(window) \in Nat /\ Len(applied) \in Nat /\ k \in Nat /\ MaxRemembered \in Nat
        /\ DOMAIN applied = 1..Len(applied)
    <2>1. window \in Seq(Nat) /\ applied \in Seq([t : Nat, s : Symbols])
      BY DEF GatewayType
    <2>2. Len(applied) - Len(window) >= 0
      BY DEF WindowIsRecent
    <2>3. QED
      BY <2>1, <2>2, VnPyAssumption
  <1>2. k + i \in DOMAIN applied /\ k + j \in DOMAIN applied /\ k + i < k + j
    BY <1>1
  <1>3. window[i] = applied[k + i].t /\ window[j] = applied[k + j].t
    BY DEF WindowIsRecent
  <1>4. (k + j) - (k + i) <= MaxRemembered
    BY <1>1 DEF WindowIsRecent
  <1>5. QED
    BY <1>1, <1>2, <1>3, <1>4 DEF AppliedOncePerWindow

\* _remember_trade of a trade that is not remembered moves the window by one.
LEMMA RememberMovesWindow ==
    ASSUME GatewayType, WindowIsRecent, AppliedOncePerWindow,
           NEW t \in DOMAIN trade, t \notin ids, NEW s \in Symbols,
           Remember(t), applied' = Append(applied, [t |-> t, s |-> s])
    PROVE  /\ window' \in Seq(Nat)
           /\ WindowIsRecent'
           /\ AppliedOncePerWindow'
  <1>0. /\ window \in Seq(Nat) /\ applied \in Seq([t : Nat, s : Symbols])
        /\ t \in Nat /\ MaxRemembered \in Nat
    BY VnPyAssumption DEF GatewayType
  <1>1. PICK w \in Nat, n \in Nat, k \in Nat :
            /\ w = Len(window) /\ n = Len(applied) /\ n = k + w
            /\ w <= MaxRemembered /\ (k > 0 => w = MaxRemembered)
    <2>1. Len(window) \in Nat /\ Len(applied) \in Nat
      BY <1>0
    <2>2. Len(applied) - Len(window) >= 0
      BY DEF WindowIsRecent
    <2>3. Len(applied) - Len(window) \in Nat
      BY <2>1, <2>2
    <2>4. QED
      BY <2>1, <2>3 DEF WindowIsRecent
  <1>2. /\ \A i \in 1..w : window[i] = applied[k + i].t
        /\ ids = {window[i] : i \in 1..w}
        /\ \A i, j \in 1..w : i < j => window[i] # window[j]
    <2>1. k = Len(applied) - Len(window)
      BY <1>1
    <2>2. QED
      BY <1>1, <2>1, WindowIsDistinct DEF WindowIsRecent
  <1>3. /\ applied' \in Seq([t : Nat, s : Symbols]) /\ Len(applied') = n + 1
        /\ DOMAIN applied' = 1..(n + 1) /\ DOMAIN applied = 1..n
        /\ applied'[n + 1].t = t
        /\ \A i \in 1..n : applied'[i] = applied[i]
    <2>1. PICK e \in [t : Nat, s : Symbols] : e = [t |-> t, s |-> s]
      BY <1>0
    <2>2. /\ Append(applied, e) \in Seq([t : Nat, s : Symbols])
          /\ Len(Append(applied, e)) = Len(applied) + 1
          /\ \A i \in 1..Len(applied) : Append(applied, e)[i] = applied[i]
          /\ Append(applied, e)[Len(applied) + 1] = e
      BY <1>0, AppendProperties
    <2>3. applied' = Append(applied, e) /\ e.t = t
      BY <2>1
    <2>4. DOMAIN applied = 1..Len(applied) /\ DOMAIN applied' = 1..Len(applied')
      BY <1>0, <2>2, <2>3
    <2>5. QED
      BY <1>1, <2>2, <2>3, <2>4
  <1>4. PICK longer \in Seq(Nat) :
            /\ longer = Append(window, t)
            /\ Len(longer) = w + 1 /\ longer[w + 1] = t /\ longer # <<>>
            /\ \A i \in 1..w : longer[i] = window[i]
    <2>1. /\ Append(window, t) \in Seq(Nat) /\ Append(window, t) # <<>>
          /\ Len(Append(window, t)) = Len(window) + 1
          /\ \A i \in 1..Len(window) : Append(window, t)[i] = window[i]
          /\ Append(window, t)[Len(window) + 1] = t
      BY SMTT(30), <1>0, AppendProperties
    <2>2. QED
      BY <1>1, <2>1, Zenon
  <1>r. /\ Len(longer) > MaxRemembered =>
               window' = Tail(longer) /\ ids' = (ids \cup {t}) \ {Head(longer)}
        /\ ~(Len(longer) > MaxRemembered) => window' = longer /\ ids' = ids \cup {t}
    BY <1>4, Zenon DEF Remember
  <1>5. AppliedOncePerWindow'
    <2> SUFFICES ASSUME NEW i \in DOMAIN applied', NEW j \in DOMAIN applied',
                        i < j, applied'[i].t = applied'[j].t
                 PROVE  j - i > MaxRemembered
      BY DEF AppliedOncePerWindow
    <2>1. CASE j <= n
      BY <1>1, <1>3, <2>1 DEF AppliedOncePerWindow
    <2>2. CASE j = n + 1
      <3>1. i \in 1..n /\ applied[i].t = t
        BY <1>1, <1>3, <2>2
      <3>2. i <= k
        <4> SUFFICES ASSUME i > k PROVE FALSE
          BY <1>1, <3>1
        <4>1. i - k \in 1..w /\ k + (i - k) = i
          BY <1>1, <3>1
        <4>2. window[i - k] = t
          BY <1>2, <3>1, <4>1
        <4>3. QED
          BY <1>2, <4>1, <4>2
      <3>3. QED
        BY <1>1, <2>2, <3>1, <3>2
    <2>3. QED
      BY <1>1, <1>3, <2>1, <2>2
  <1>6. CASE w + 1 > MaxRemembered
    <2>1. /\ window' = Tail(longer) /\ ids' = (ids \cup {t}) \ {Head(longer)}
          /\ w = MaxRemembered
      BY <1>0, <1>1, <1>4, <1>6, <1>r
    <2>2. /\ window' \in Seq(Nat) /\ Len(window') = w
          /\ \A i \in 1..w : window'[i] = longer[i + 1]
          /\ Head(longer) = longer[1]
      BY <1>1, <1>4, <2>1, HeadTailProperties
    <2>3. \A i \in 1..w : window'[i] = applied'[k + 1 + i].t
      <3> SUFFICES ASSUME NEW i \in 1..w PROVE window'[i] = applied'[k + 1 + i].t
        OBVIOUS
      <3>1. CASE i = w
        BY SMTT(30), <1>1, <1>3, <1>4, <2>2, <3>1
      <3>2. CASE i < w
        <4>1. i + 1 \in 1..w /\ k + (i + 1) \in 1..n /\ k + (i + 1) = k + 1 + i
          BY <1>1, <3>2
        <4>2. window'[i] = window[i + 1] /\ window[i + 1] = applied[k + (i + 1)].t
          BY <1>2, <1>4, <2>2, <4>1
        <4>3. QED
          BY <1>3, <4>1, <4>2
      <3>3. i \in Nat /\ i <= w
        OBVIOUS
      <3>4. i = w \/ i < w
        BY <1>1, <3>3
      <3>5. QED
        BY <3>1, <3>2, <3>4
    <2>4. \A i \in 1..(w + 1) : i # 1 => longer[i] # longer[1]
      <3> SUFFICES ASSUME NEW i \in 1..(w + 1), i # 1 PROVE longer[i] # longer[1]
        OBVIOUS
      <3>0. 1 \in 1..w /\ longer[1] = window[1]
        BY <1>1, <1>4
      <3>1. CASE i = w + 1
        BY <1>2, <1>4, <3>0, <3>1
      <3>2. CASE i <= w
        <4>1. i \in 1..w /\ 1 < i
          BY <1>1, <3>2
        <4>2. window[1] # window[i]
          BY <1>2, <3>0, <4>1
        <4>3. QED
          BY <1>4, <3>0, <4>1, <4>2
      <3>3. QED
        BY <1>1, <3>1, <3>2
    <2>5. ids \cup {t} = {longer[i] : i \in 1..(w + 1)}
      BY <1>1, <1>2, <1>4
    <2>6. ids' = {window'[i] : i \in 1..w}
      <3>1. \A x \in ids' : \E i \in 1..w : x = window'[i]
        <4> SUFFICES ASSUME NEW x \in ids' PROVE \E i \in 1..w : x = window'[i]
          OBVIOUS
        <4>1. PICK i \in 1..(w + 1) : x = longer[i]
          BY <2>1, <2>5
        <4>2. i # 1
          BY <2>1, <2>2, <4>1
        <4>3. i - 1 \in 1..w /\ (i - 1) + 1 = i
          BY <1>1, <4>2
        <4>4. QED
          BY <2>2, <4>1, <4>3
      <3>2. \A i \in 1..w : window'[i] \in ids'
        <4> SUFFICES ASSUME NEW i \in 1..w PROVE window'[i] \in ids'
          OBVIOUS
        <4>1. i + 1 \in 1..(w + 1) /\ i + 1 # 1
          BY <1>1
        <4>2. QED
          BY <2>1, <2>2, <2>4, <2>5, <4>1
      <3>3. QED
        BY <3>1, <3>2
    <2>7. Len(applied') - Len(window') = k + 1
      BY <1>1, <1>3, <2>2
    <2>8. /\ Len(window') <= MaxRemembered /\ k + 1 >= 0
          /\ (k + 1 > 0 => Len(window') = MaxRemembered)
      BY <1>0, <2>1, <2>2
    <2>9. WindowIsRecent'
      BY <2>2, <2>3, <2>6, <2>7, <2>8 DEF WindowIsRecent
    <2>10. QED
      BY <1>5, <2>2, <2>9
  <1>7. CASE w + 1 <= MaxRemembered
    <2>1. window' = longer /\ ids' = ids \cup {t} /\ k = 0 /\ n = w
      BY <1>0, <1>1, <1>4, <1>7, <1>r
    <2>2. \A i \in 1..(w + 1) : window'[i] = applied'[i].t
      BY <1>1, <1>2, <1>3, <1>4, <2>1
    <2>3. ids' = {window'[i] : i \in 1..(w + 1)}
      BY <1>1, <1>2, <1>4, <2>1
    <2>4. Len(applied') - Len(window') = 0 /\ Len(window') = w + 1
      BY <1>1, <1>3, <1>4, <2>1
    <2>5. \A i \in 1..(w + 1) : 0 + i = i
      OBVIOUS
    <2>6. WindowIsRecent'
      <3>1. \A i \in 1..Len(window') : window'[i] = applied'[(Len(applied') - Len(window')) + i].t
        BY <2>2, <2>4, <2>5
      <3>2. /\ Len(window') <= MaxRemembered
            /\ Len(applied') - Len(window') >= 0
            /\ ~(Len(applied') - Len(window') > 0)
        BY <1>7, <2>4
      <3>3. ids' = {window'[i] : i \in 1..Len(window')}
        BY <2>3, <2>4
      <3>4. QED
        BY <3>1, <3>2, <3>3 DEF WindowIsRecent
    <2>7. QED
      BY <1>4, <1>5, <2>1, <2>6
  <1>8. w + 1 \in Int /\ MaxRemembered \in Int
    BY <1>0, <1>1
  <1>9. QED
    BY <1>6, <1>7, <1>8
-----------------------------------------------------------------------------
LEMMA GatewayInit == VnPyInit => GatewayInv
  <1> SUFFICES ASSUME VnPyInit PROVE GatewayInv
    OBVIOUS
  <1>1. /\ order = <<>> /\ trade = <<>> /\ window = <<>> /\ applied = <<>> /\ ids = {} /\ life = 0
        /\ known = [n \in Names |-> NoSymbol]
    BY DEF VnPyInit
  <1>2. GatewayType
    BY <1>1 DEF GatewayType
  <1>3. WindowIsRecent
    BY <1>1, VnPyAssumption DEF WindowIsRecent
  <1>4. AppliedOncePerWindow /\ BookedWhereOrdered
    BY <1>1 DEF AppliedOncePerWindow, BookedWhereOrdered
  <1>5. KnownIsOrdered
    BY <1>1 DEF KnownIsOrdered, OrderedInThisLife
  <1>6. QED
    BY <1>2, <1>3, <1>4, <1>5 DEF GatewayInv

\* An order sent: the mapper learns its symbol, nothing is booked.
LEMMA SendKeepsInv ==
    ASSUME GatewayInv, NEW s \in Symbols, NEW q \in SignedVolumes,
           NEW table, SendOrder(s, q, table)
    PROVE  GatewayInv'
  <1>1. /\ order' = Append(order, [sym |-> s, q |-> q, life |-> life])
        /\ known' = [known EXCEPT ![NameOf[s]] = s]
        /\ UNCHANGED <<trade, window, ids, life, applied>>
    BY DEF SendOrder, ToVnPy
  <1>2. GatewayType
    BY DEF GatewayInv
  <1>3. PICK o \in OrderRecord : o = [sym |-> s, q |-> q, life |-> life]
    BY <1>2 DEF OrderRecord, GatewayType
  <1>4. /\ order' \in Seq(OrderRecord) /\ DOMAIN order = 1..Len(order)
        /\ DOMAIN order' = 1..(Len(order) + 1) /\ Len(order) \in Nat
        /\ \A i \in 1..Len(order) : order'[i] = order[i]
        /\ order'[Len(order) + 1] = o /\ o.sym = s /\ o.life = life
    <2>1. order \in Seq(OrderRecord)
      BY <1>2 DEF GatewayType
    <2>2. order' = Append(order, o) /\ o.sym = s /\ o.life = life
      BY <1>1, <1>3
    <2>3. /\ Append(order, o) \in Seq(OrderRecord)
          /\ Len(Append(order, o)) = Len(order) + 1
          /\ \A i \in 1..Len(order) : Append(order, o)[i] = order[i]
          /\ Append(order, o)[Len(order) + 1] = o
      BY <2>1, AppendProperties
    <2>4. DOMAIN order = 1..Len(order) /\ DOMAIN order' = 1..Len(order')
      BY <2>1, <2>2, <2>3
    <2>5. QED
      BY <2>1, <2>2, <2>3, <2>4
  <1>5. GatewayType'
    <2>1. \A i \in DOMAIN order : i \in DOMAIN order'
      BY <1>4
    <2>2. known' \in [Names -> Symbols \cup {NoSymbol}]
      BY <1>1, <1>2 DEF GatewayType
    <2>3. \A i \in DOMAIN order' : order'[i].life <= life
      <3> SUFFICES ASSUME NEW i \in DOMAIN order' PROVE order'[i].life <= life
        OBVIOUS
      <3>1. CASE i \in 1..Len(order)
        BY <1>2, <1>4, <3>1 DEF GatewayType
      <3>2. CASE i = Len(order) + 1
        BY <1>2, <1>4, <3>2 DEF GatewayType
      <3>3. QED
        BY <1>4, <3>1, <3>2
    <2>4. QED
      BY <1>1, <1>2, <1>4, <2>1, <2>2, <2>3 DEF GatewayType
  <1>6. WindowIsRecent' /\ AppliedOncePerWindow'
    BY <1>1 DEF GatewayInv, WindowIsRecent, AppliedOncePerWindow
  <1>7. \A n \in Names : OrderedInThisLife(n)' =
            IF n = NameOf[s] THEN OrderedInThisLife(n) \cup {s} ELSE OrderedInThisLife(n)
    <2> SUFFICES ASSUME NEW n \in Names, NEW x \in Symbols
                 PROVE  x \in OrderedInThisLife(n)'
                          <=> x \in OrderedInThisLife(n) \/ (n = NameOf[s] /\ x = s)
      BY DEF OrderedInThisLife
    <2>1. (\E j \in DOMAIN order' : order'[j].sym = x /\ order'[j].life = life)
              <=> \/ \E j \in DOMAIN order : order[j].sym = x /\ order[j].life = life
                  \/ x = s
      BY <1>4
    <2>2. life' = life
      BY <1>1
    <2>3. QED
      BY <2>1, <2>2 DEF OrderedInThisLife
  <1>8. KnownIsOrdered'
    <2> SUFFICES ASSUME NEW n \in Names, OrderedInThisLife(n)' # {}
                 PROVE  known'[n] \in OrderedInThisLife(n)'
      BY DEF KnownIsOrdered
    <2>1. CASE n = NameOf[s]
      BY <1>1, <1>2, <1>7, <2>1 DEF GatewayType
    <2>2. CASE n # NameOf[s]
      BY <1>1, <1>2, <1>7, <2>2 DEF GatewayType, GatewayInv, KnownIsOrdered
    <2>3. QED
      BY <2>1, <2>2
  <1>9. BookedWhereOrdered'
    <2> SUFFICES ASSUME NEW i \in DOMAIN applied', NEW x \in Symbols,
                        OrderOf(applied[i].t)'.sym = x, OrderOf(applied[i].t)'.life = life',
                        OrderedInThisLife(NameOf[x])' = {x}
                 PROVE  applied'[i].s = x
      BY DEF BookedWhereOrdered
    <2>1. i \in DOMAIN applied /\ applied[i].t \in DOMAIN trade
          /\ trade[applied[i].t].of \in DOMAIN order
      BY <1>1, <1>2 DEF GatewayType
    <2>2. OrderOf(applied[i].t)' = OrderOf(applied[i].t)
      BY <1>1, <1>4, <2>1 DEF OrderOf
    <2>3. NameOf[x] \in Names /\ OrderOf(applied[i].t).sym = x /\ OrderOf(applied[i].t).life = life
      BY <1>1, <2>2, VnPyAssumption
    <2>4. OrderedInThisLife(NameOf[x]) \subseteq {x}
      BY <1>7, <2>3
    <2>5. x \in OrderedInThisLife(NameOf[x])
      BY <2>1, <2>3 DEF OrderedInThisLife, OrderOf
    <2>6. QED
      BY <1>1, <2>1, <2>3, <2>4, <2>5 DEF GatewayInv, BookedWhereOrdered
  <1>10. QED
    BY <1>5, <1>6, <1>8, <1>9 DEF GatewayInv

\* vn.py executes: one more trade, of an order that exists.
LEMMA ExecuteKeepsInv ==
    ASSUME GatewayInv, NEW i \in DOMAIN order, NEW q \in SignedVolumes,
           NEW p \in Prices, Execute(i, q, p)
    PROVE  GatewayInv'
  <1>1. /\ trade' = Append(trade, [of |-> i, q |-> q, px |-> p])
        /\ UNCHANGED <<order, known, window, ids, life, applied>>
    BY DEF Execute, gatewayVars
  <1>2. GatewayType /\ order \in Seq(OrderRecord) /\ trade \in Seq(TradeRecord) /\ i \in Nat
    BY DEF GatewayInv, GatewayType
  <1>3. PICK o \in TradeRecord : o = [of |-> i, q |-> q, px |-> p]
    BY <1>2 DEF TradeRecord
  <1>4. /\ trade' \in Seq(TradeRecord) /\ DOMAIN trade = 1..Len(trade) /\ Len(trade) \in Nat
        /\ DOMAIN trade' = 1..(Len(trade) + 1)
        /\ \A t \in 1..Len(trade) : trade'[t] = trade[t]
        /\ trade'[Len(trade) + 1].of = i
    <2>1. trade' = Append(trade, o) /\ o.of = i
      BY <1>1, <1>3
    <2>2. /\ Append(trade, o) \in Seq(TradeRecord)
          /\ Len(Append(trade, o)) = Len(trade) + 1
          /\ \A t \in 1..Len(trade) : Append(trade, o)[t] = trade[t]
          /\ Append(trade, o)[Len(trade) + 1] = o
      BY <1>2, AppendProperties
    <2>3. DOMAIN trade = 1..Len(trade) /\ DOMAIN trade' = 1..Len(trade')
      BY <1>2, <2>1, <2>2
    <2>4. QED
      BY <1>2, <1>3, <2>1, <2>2, <2>3
  <1>5. GatewayType'
    <2>1. \A t \in DOMAIN trade' : trade'[t].of \in DOMAIN order
      <3> SUFFICES ASSUME NEW t \in DOMAIN trade' PROVE trade'[t].of \in DOMAIN order
        OBVIOUS
      <3>1. CASE t \in 1..Len(trade)
        BY <1>2, <1>4, <3>1 DEF GatewayType
      <3>2. CASE t = Len(trade) + 1
        BY <1>4, <3>2
      <3>3. QED
        BY <1>4, <3>1, <3>2
    <2>2. \A j \in DOMAIN applied : applied[j].t \in DOMAIN trade'
      BY <1>2, <1>4 DEF GatewayType
    <2>3. QED
      BY <1>1, <1>2, <1>4, <2>1, <2>2 DEF GatewayType
  <1>6. WindowIsRecent' /\ AppliedOncePerWindow'
    BY <1>1 DEF GatewayInv, WindowIsRecent, AppliedOncePerWindow
  <1>7. \A n \in Names : OrderedInThisLife(n)' = OrderedInThisLife(n)
    BY <1>1 DEF OrderedInThisLife
  <1>8. KnownIsOrdered'
    BY <1>1, <1>7 DEF GatewayInv, KnownIsOrdered
  <1>9. BookedWhereOrdered'
    <2> SUFFICES ASSUME NEW j \in DOMAIN applied, NEW x \in Symbols,
                        OrderOf(applied[j].t)'.sym = x, OrderOf(applied[j].t)'.life = life,
                        OrderedInThisLife(NameOf[x])' = {x}
                 PROVE  applied[j].s = x
      BY <1>1 DEF BookedWhereOrdered
    <2>1. applied[j].t \in DOMAIN trade
      BY <1>2 DEF GatewayType
    <2>2. OrderOf(applied[j].t)' = OrderOf(applied[j].t)
      BY <1>1, <1>4, <2>1 DEF OrderOf
    <2>3. NameOf[x] \in Names
      BY VnPyAssumption
    <2>4. QED
      BY <1>7, <2>2, <2>3 DEF GatewayInv, BookedWhereOrdered
  <1>10. QED
    BY <1>5, <1>6, <1>8, <1>9 DEF GatewayInv

\* An EVENT_TRADE: remembered and booked, or known already.
LEMMA OnTradeKeepsInv ==
    ASSUME GatewayInv, NEW t \in DOMAIN trade, Deliver(t)
    PROVE  GatewayInv'
  <1>1. OnTrade(t) /\ UNCHANGED <<order, trade, life>>
    BY DEF Deliver
  <1>2. GatewayType /\ WindowIsRecent /\ AppliedOncePerWindow
    BY DEF GatewayInv
  <1>3. OrderOf(t) \in OrderRecord
    BY <1>2 DEF GatewayType, OrderOf
  <1>4. NameTraded(t) \in Names
    BY <1>3, VnPyAssumption DEF NameTraded, OrderRecord
  <1>5. PICK s \in Symbols : s = FromVnPy(NameTraded(t))
    BY <1>2, <1>4, FromVnPyType
  <1>6. \A n \in Names : OrderedInThisLife(n)' = OrderedInThisLife(n)
    BY <1>1 DEF OrderedInThisLife
  <1>7. CASE t \in ids
    <2>1. UNCHANGED <<known, window, ids, applied>>
      BY <1>1, <1>7 DEF OnTrade, gatewayVars
    <2>2. GatewayType'
      BY <1>1, <1>2, <2>1 DEF GatewayType
    <2>3. WindowIsRecent' /\ AppliedOncePerWindow'
      BY <1>2, <2>1 DEF WindowIsRecent, AppliedOncePerWindow
    <2>4. KnownIsOrdered'
      BY <1>6, <2>1 DEF GatewayInv, KnownIsOrdered
    <2>5. BookedWhereOrdered'
      BY <1>1, <2>1 DEF GatewayInv, BookedWhereOrdered, OrderedInThisLife, OrderOf
    <2>6. QED
      BY <2>2, <2>3, <2>4, <2>5 DEF GatewayInv
  <1>8. CASE t \notin ids
    <2>1. /\ Remember(t) /\ UNCHANGED known
          /\ applied' = Append(applied, [t |-> t, s |-> s])
      BY <1>1, <1>5, <1>8 DEF OnTrade
    <2>2. window' \in Seq(Nat) /\ WindowIsRecent' /\ AppliedOncePerWindow'
      BY <1>2, <1>8, <2>1, RememberMovesWindow
    <2>3. /\ applied' \in Seq([t : Nat, s : Symbols])
          /\ DOMAIN applied = 1..Len(applied) /\ DOMAIN applied' = 1..(Len(applied) + 1)
          /\ \A j \in 1..Len(applied) : applied'[j] = applied[j]
          /\ applied'[Len(applied) + 1].t = t /\ applied'[Len(applied) + 1].s = s
          /\ Len(applied) \in Nat
      <3>1. applied \in Seq([t : Nat, s : Symbols]) /\ t \in Nat
        BY <1>2 DEF GatewayType
      <3>2. PICK e \in [t : Nat, s : Symbols] : e = [t |-> t, s |-> s]
        BY <3>1
      <3>3. /\ Append(applied, e) \in Seq([t : Nat, s : Symbols])
            /\ Len(Append(applied, e)) = Len(applied) + 1
            /\ \A j \in 1..Len(applied) : Append(applied, e)[j] = applied[j]
            /\ Append(applied, e)[Len(applied) + 1] = e
        BY <3>1, AppendProperties
      <3>4. applied' = Append(applied, e) /\ e.t = t /\ e.s = s
        BY <2>1, <3>2
      <3>5. DOMAIN applied = 1..Len(applied) /\ DOMAIN applied' = 1..Len(applied')
        BY <3>1, <3>3, <3>4
      <3>6. QED
        BY <3>1, <3>2, <3>3, <3>4, <3>5
    <2>4. GatewayType'
      <3>1. \A j \in DOMAIN applied' : applied'[j].t \in DOMAIN trade
        <4> SUFFICES ASSUME NEW j \in DOMAIN applied' PROVE applied'[j].t \in DOMAIN trade
          OBVIOUS
        <4>1. CASE j \in 1..Len(applied)
          BY <1>2, <2>3, <4>1 DEF GatewayType
        <4>2. CASE j = Len(applied) + 1
          BY <2>3, <4>2
        <4>3. QED
          BY <2>3, <4>1, <4>2
      <3>2. QED
        BY <1>1, <1>2, <2>1, <2>2, <2>3, <3>1 DEF GatewayType
    <2>5. KnownIsOrdered'
      BY <1>6, <2>1 DEF GatewayInv, KnownIsOrdered
    <2>6. BookedWhereOrdered'
      <3> SUFFICES ASSUME NEW j \in DOMAIN applied', NEW x \in Symbols,
                          OrderOf(applied'[j].t).sym = x, OrderOf(applied'[j].t).life = life,
                          OrderedInThisLife(NameOf[x]) = {x}
                   PROVE  applied'[j].s = x
        BY <1>1 DEF BookedWhereOrdered, OrderOf, OrderedInThisLife
      <3>1. CASE j \in 1..Len(applied)
        BY <2>3, <3>1 DEF GatewayInv, BookedWhereOrdered
      <3>2. CASE j = Len(applied) + 1
        <4>1. applied'[j].t = t /\ applied'[j].s = FromVnPy(NameTraded(t))
          BY <1>5, <2>3, <3>2
        <4>2. NameTraded(t) = NameOf[x] /\ NameOf[x] \in Names
          BY <4>1, VnPyAssumption DEF NameTraded
        <4>3. known[NameTraded(t)] = x
          BY <4>2 DEF GatewayInv, KnownIsOrdered
        <4>4. x # NoSymbol
          BY VnPyAssumption
        <4>5. QED
          BY <4>1, <4>3, <4>4 DEF FromVnPy
      <3>3. QED
        BY <2>3, <3>1, <3>2
    <2>7. QED
      BY <2>2, <2>4, <2>5, <2>6 DEF GatewayInv
  <1>9. QED
    BY <1>7, <1>8

\* A restart empties the window, the mapper and the portfolio together.
LEMMA RestartKeepsInv ==
    ASSUME GatewayInv, Restart
    PROVE  GatewayInv'
  <1>1. /\ life' = life + 1 /\ window' = <<>> /\ ids' = {} /\ applied' = <<>>
        /\ known' = [n \in Names |-> NoSymbol] /\ order' = order /\ trade' = trade
    BY DEF Restart
  <1>2. GatewayType'
    <2>1. \A i \in DOMAIN order : order[i].life <= life + 1
      <3> SUFFICES ASSUME NEW i \in DOMAIN order PROVE order[i].life <= life + 1
        OBVIOUS
      <3>1. order[i] \in OrderRecord /\ order[i].life <= life /\ life \in Nat
        BY DEF GatewayInv, GatewayType
      <3>2. order[i].life \in Nat
        BY <3>1 DEF OrderRecord
      <3>3. QED
        BY <3>1, <3>2
    <2>2. QED
      BY <1>1, <2>1 DEF GatewayInv, GatewayType
  <1>3. WindowIsRecent'
    BY <1>1, VnPyAssumption DEF WindowIsRecent
  <1>4. AppliedOncePerWindow' /\ BookedWhereOrdered'
    BY <1>1 DEF AppliedOncePerWindow, BookedWhereOrdered
  <1>5. KnownIsOrdered'
    <2>1. \A j \in DOMAIN order : order[j].life # life + 1
      BY DEF GatewayInv, GatewayType, OrderRecord
    <2>2. QED
      BY <1>1, <2>1 DEF KnownIsOrdered, OrderedInThisLife
  <1>6. QED
    BY <1>2, <1>3, <1>4, <1>5 DEF GatewayInv

LEMMA StepKeepsInv == GatewayInv /\ [VnPyNext]_vnpyVars => GatewayInv'
  <1> SUFFICES ASSUME GatewayInv, [VnPyNext]_vnpyVars PROVE GatewayInv'
    OBVIOUS
  <1>1. ASSUME NEW s \in Symbols, NEW q \in SignedVolumes, NEW p \in Prices \cup {NoPrice},
               SendOrder(s, q, Quote(s, p))
        PROVE  GatewayInv'
    BY <1>1, SendKeepsInv
  <1>2. ASSUME NEW i \in DOMAIN order, NEW q \in SignedVolumes, NEW p \in Prices, Execute(i, q, p)
        PROVE  GatewayInv'
    BY <1>2, ExecuteKeepsInv
  <1>3. ASSUME NEW t \in DOMAIN trade, Deliver(t) PROVE GatewayInv'
    BY <1>3, OnTradeKeepsInv
  <1>4. ASSUME UNCHANGED <<order, trade, known, window, ids, life, applied>>
        PROVE  GatewayInv'
    <2>1. GatewayType' /\ WindowIsRecent' /\ AppliedOncePerWindow'
      BY <1>4 DEF GatewayInv, GatewayType, WindowIsRecent, AppliedOncePerWindow
    <2>2. KnownIsOrdered' /\ BookedWhereOrdered'
      BY <1>4 DEF GatewayInv, KnownIsOrdered, BookedWhereOrdered, OrderedInThisLife, OrderOf
    <2>3. QED
      BY <2>1, <2>2 DEF GatewayInv
  <1>5. ASSUME NEW n \in Names, NEW p \in Prices, Tick(n, p) PROVE GatewayInv'
    BY <1>4, <1>5 DEF Tick, gatewayVars
  <1>6. ASSUME Restart PROVE GatewayInv'
    BY <1>6, RestartKeepsInv
  <1>7. CASE UNCHANGED vnpyVars
    BY <1>4, <1>7 DEF vnpyVars, gatewayVars
  <1>8. QED
    BY <1>1, <1>2, <1>3, <1>5, <1>6, <1>7 DEF VnPyNext

\* on_trade applies no trade again before max_remembered_trades others have been
\* applied, however vn.py repeats and reorders EVENT_TRADE and however often the
\* process restarts.
THEOREM TradesAppliedOncePerWindow == VnPySpec => []AppliedOncePerWindow
  <1>1. GatewayInv => AppliedOncePerWindow
    BY DEF GatewayInv
  <1>2. QED
    BY GatewayInit, StepKeepsInv, <1>1, PTL DEF VnPySpec

\* A fill of an order of this life is booked on the symbol of the order, when
\* its name was ordered under no other asset class.
THEOREM FillsBookedWhereOrdered == VnPySpec => []BookedWhereOrdered
  <1>1. GatewayInv => BookedWhereOrdered
    BY DEF GatewayInv
  <1>2. QED
    BY GatewayInit, StepKeepsInv, <1>1, PTL DEF VnPySpec
-----------------------------------------------------------------------------
\* The portfolio behind the gateway is an account that a restart opens anew.
LEMMA VnPyMovesPortfolio ==
    ASSUME GatewayInv, [VnPyNext]_vnpyVars
    PROVE  [PortfolioEvent]_portfolioVars \/ PortfolioInit'
<1>0. GatewayType
  BY DEF GatewayInv
<1>1. ASSUME NEW t \in DOMAIN trade, Deliver(t) PROVE [PortfolioEvent]_portfolioVars
  <2>1. CASE t \in ids
    BY <1>1, <2>1 DEF Deliver, OnTrade
  <2>2. CASE t \notin ids
    <3> DEFINE s == FromVnPy(NameTraded(t))
    <3>1. OnFill(s, trade[t].q, trade[t].px, 0)
      BY <1>1, <2>2 DEF Deliver, OnTrade
    <3>2. trade[t] \in TradeRecord
      BY <1>0 DEF GatewayType
    <3>3. trade[t].q \in Int \ {0} /\ trade[t].px \in Nat \ {0} /\ 0 \in Nat
      BY <3>2, SignedAreWhole, PortfolioAssumption DEF TradeRecord
    <3>4. s \in Symbols
      <4>1. trade[t].of \in DOMAIN order
        BY <1>0 DEF GatewayType
      <4>2. order[trade[t].of] \in OrderRecord
        BY <1>0, <4>1 DEF GatewayType
      <4>3. NameTraded(t) \in Names
        BY <4>2, VnPyAssumption DEF NameTraded, OrderOf, OrderRecord
      <4> QED
        BY <1>0, <4>3, FromVnPyType
    <3> HIDE DEF s
    <3> QED
      BY <3>1, <3>3, <3>4, FillIsEvent
  <2> QED
    BY <2>1, <2>2
<1>2. ASSUME NEW n \in Names, NEW p \in Prices, Tick(n, p)
      PROVE  [PortfolioEvent]_portfolioVars
  <2>1. FromVnPy(n) \in Symbols
    BY <1>0, FromVnPyType
  <2> QED
    BY <1>2, <2>1 DEF Tick, PortfolioEvent
<1>3. ASSUME NEW s \in Symbols, NEW q \in SignedVolumes, NEW p \in Prices \cup {NoPrice},
             SendOrder(s, q, Quote(s, p))
      PROVE  [PortfolioEvent]_portfolioVars
  BY <1>3 DEF SendOrder
<1>4. ASSUME NEW i \in DOMAIN order, NEW q \in SignedVolumes, NEW p \in Prices,
             Execute(i, q, p)
      PROVE  [PortfolioEvent]_portfolioVars
  BY <1>4 DEF Execute
<1>5. CASE Restart
  BY <1>5 DEF Restart, FreshPortfolio, PortfolioInit
<1>6. CASE UNCHANGED vnpyVars
  BY <1>6 DEF vnpyVars
<1> QED
  BY <1>1, <1>2, <1>3, <1>4, <1>5, <1>6 DEF VnPyNext

\* Trades delivered late, twice or after a restart leave the account explained: what
\* the gateway applies is fills of whole units at a price, to an account that a new
\* process opens anew.
THEOREM VnPyAccountIsSound ==
    VnPySpec => []RealizedPnlExplainsCash /\ []EquityIsExplained
<1>1. EquityInv => EquityIsExplained /\ RealizedPnlExplainsCash
  BY EquityExplains DEF EquityInv, BookInv
<1>2. VnPyInit => GatewayInv /\ EquityInv
  BY GatewayInit, EquityInitial DEF VnPyInit
<1>3. (PortfolioInit => EquityInv)'
  BY EquityInitial, PTL
<1>4. GatewayInv /\ EquityInv /\ [VnPyNext]_vnpyVars => GatewayInv' /\ EquityInv'
  BY <1>3, StepKeepsInv, VnPyMovesPortfolio, EquityInductive
<1> QED
  BY <1>1, <1>2, <1>4, PTL DEF VnPySpec
-----------------------------------------------------------------------------
\* How often a trade was published and applied in this life.
Publications(x) == {i \in DOMAIN told : told[i] = x}
Applications(x) == {i \in DOMAIN applied : applied[i].t = x}

CountsInv ==
    /\ told \in Seq(Nat)
    /\ \A x \in Nat : Cardinality(Publications(x)) <= Cardinality(Applications(x))

LEMMA OneMore ==
    ASSUME NEW n \in Nat, NEW A, A \subseteq 1..n
    PROVE  /\ IsFiniteSet(A) /\ Cardinality(A) \in Nat
           /\ Cardinality(A \cup {n + 1}) = Cardinality(A) + 1
  <1>1. IsFiniteSet(1..n)
    BY FS_Interval
  <1>2. IsFiniteSet(A)
    BY <1>1, FS_Subset
  <1>3. n + 1 \notin A
    OBVIOUS
  <1>4. QED
    BY <1>2, <1>3, FS_CardinalityType, FS_AddElement

LEMMA NothingCounted == (told = <<>> /\ applied = <<>> => CountsInv)
                        /\ (told' = <<>> /\ applied' = <<>> => CountsInv')
  <1>1. Cardinality({}) = 0 /\ <<>> \in Seq(Nat)
    BY FS_EmptySet
  <1>2. ASSUME told = <<>>, applied = <<>> PROVE CountsInv
    <2>1. \A x : Publications(x) = {} /\ Applications(x) = {}
      BY <1>2 DEF Publications, Applications
    <2>2. QED
      BY <1>1, <1>2, <2>1 DEF CountsInv
  <1>3. ASSUME told' = <<>>, applied' = <<>> PROVE CountsInv'
    <2>1. \A x : Publications(x)' = {} /\ Applications(x)' = {}
      BY <1>3 DEF Publications, Applications
    <2>2. QED
      BY <1>1, <1>3, <2>1 DEF CountsInv
  <1>4. QED
    BY <1>2, <1>3

LEMMA OnTradeKeepsCounts ==
    ASSUME GatewayInv, CountsInv, NEW t \in DOMAIN trade, OnTrade(t)
    PROVE  CountsInv'
  <1>1. CASE t \in ids
    BY <1>1 DEF OnTrade, CountsInv, Publications, Applications
  <1>2. CASE t \notin ids
    <2>1. PICK s : /\ applied' = Append(applied, [t |-> t, s |-> s])
                   /\ told' \in {told, Append(told, t)}
      BY <1>2 DEF OnTrade
    <2>2. /\ t \in Nat /\ told \in Seq(Nat)
          /\ Len(applied) \in Nat /\ DOMAIN applied = 1..Len(applied)
          /\ Len(told) \in Nat /\ DOMAIN told = 1..Len(told)
      BY DEF GatewayInv, GatewayType, CountsInv
    <2>3. applied \in Seq([t : Nat, s : Symbols])
      BY DEF GatewayInv, GatewayType
    <2>4. ASSUME NEW x \in Nat
          PROVE  Cardinality(Publications(x)') <= Cardinality(Applications(x)')
      <3>1. Applications(x)' = Applications(x) \cup (IF x = t THEN {Len(applied) + 1} ELSE {})
        <4>1. /\ DOMAIN applied' = 1..(Len(applied) + 1)
              /\ applied'[Len(applied) + 1].t = t
              /\ \A i \in 1..Len(applied) : applied'[i] = applied[i]
          BY <2>1, <2>2, <2>3
        <4>2. QED
          BY <2>2, <4>1 DEF Applications
      <3>2. \/ Publications(x)' = Publications(x)
            \/ Publications(x)' = Publications(x) \cup (IF x = t THEN {Len(told) + 1} ELSE {})
        <4>1. CASE told' = told
          BY <4>1 DEF Publications
        <4>2. CASE told' = Append(told, t)
          <5>1. /\ DOMAIN told' = 1..(Len(told) + 1)
                /\ told'[Len(told) + 1] = t
                /\ \A i \in 1..Len(told) : told'[i] = told[i]
            BY <2>2, <4>2
          <5>2. QED
            BY <2>2, <5>1 DEF Publications
        <4>3. QED
          BY <2>1, <4>1, <4>2
      <3>3. Publications(x) \subseteq 1..Len(told) /\ Applications(x) \subseteq 1..Len(applied)
        BY <2>2 DEF Publications, Applications
      <3>4. /\ Cardinality(Publications(x)) \in Nat
            /\ Cardinality(Publications(x) \cup {Len(told) + 1}) = Cardinality(Publications(x)) + 1
        BY <2>2, <3>3, OneMore
      <3>5. /\ Cardinality(Applications(x)) \in Nat
            /\ Cardinality(Applications(x) \cup {Len(applied) + 1})
                   = Cardinality(Applications(x)) + 1
        BY <2>2, <3>3, OneMore
      <3>6. Cardinality(Publications(x)) <= Cardinality(Applications(x))
        BY DEF CountsInv
      <3>7. CASE x = t
        <4>1. Applications(x)' = Applications(x) \cup {Len(applied) + 1}
          BY <3>1, <3>7
        <4>2. \/ Publications(x)' = Publications(x)
              \/ Publications(x)' = Publications(x) \cup {Len(told) + 1}
          BY <3>2, <3>7
        <4>3. Cardinality(Applications(x)') = Cardinality(Applications(x)) + 1
          BY <3>5, <4>1
        <4>4. \/ Cardinality(Publications(x)') = Cardinality(Publications(x))
              \/ Cardinality(Publications(x)') = Cardinality(Publications(x)) + 1
          BY <3>4, <4>2
        <4>5. QED
          BY <3>4, <3>5, <3>6, <4>3, <4>4
      <3>8. CASE x # t
        BY <3>1, <3>2, <3>6, <3>8
      <3>9. QED
        BY <3>7, <3>8
    <2>5. told' \in Seq(Nat)
      <3>1. Append(told, t) \in Seq(Nat)
        BY <2>2
      <3>2. QED
        BY <2>1, <2>2, <3>1
    <2>6. QED
      BY <2>4, <2>5 DEF CountsInv
  <1>3. QED
    BY <1>1, <1>2

LEMMA StepKeepsCounts == GatewayInv /\ CountsInv /\ [VnPyNext]_vnpyVars => CountsInv'
  <1> SUFFICES ASSUME GatewayInv, CountsInv, [VnPyNext]_vnpyVars PROVE CountsInv'
    OBVIOUS
  <1>1. ASSUME NEW t \in DOMAIN trade, Deliver(t) PROVE CountsInv'
    BY <1>1, OnTradeKeepsCounts DEF Deliver
  <1>2. CASE Restart
    <2>1. told' = <<>> /\ applied' = <<>>
      BY <1>2 DEF Restart
    <2>2. QED
      BY <2>1, NothingCounted
  <1>3. CASE UNCHANGED <<applied, told>>
    BY <1>3 DEF CountsInv, Publications, Applications
  <1>4. QED
    BY <1>1, <1>2, <1>3 DEF VnPyNext, SendOrder, Execute, Tick, vnpyVars

\* The list of the adapter: in the order of the deliveries and after what was handed
\* out; between the copy and the clear, the copy and then what raced it.
QueueInv ==
    /\ arrived \in Nat
    /\ queue \in Seq(Nat) /\ copy \in Seq(Nat) /\ handed \in Seq(Nat)
    /\ poll \in {"idle", "copied"}
    /\ HandedInOrder
    /\ \A i, j \in DOMAIN queue : i < j => queue[i] < queue[j]
    /\ \A i \in DOMAIN queue : queue[i] <= arrived /\ \A j \in DOMAIN handed : handed[j] < queue[i]
    /\ \A j \in DOMAIN handed : handed[j] <= arrived
    /\ poll = "copied" =>
          /\ Len(copy) <= Len(queue)
          /\ \A i \in 1..Len(copy) : copy[i] = queue[i]
          /\ \A i \in 1..Len(queue) : i > Len(copy) => queue[i] \in raced
    /\ \A f \in 1..arrived : \/ \E j \in DOMAIN handed : handed[j] = f
                             \/ \E i \in DOMAIN queue : queue[i] = f
                             \/ f \in raced

LEMMA OnTradeKeepsQueue ==
    ASSUME QueueInv, NEW t, AdapterOnTrade(t)
    PROVE  QueueInv'
  <1>1. /\ arrived' = arrived + 1 /\ queue' = Append(queue, arrived + 1)
        /\ raced' = IF poll = "copied" THEN raced \cup {arrived + 1} ELSE raced
        /\ UNCHANGED <<poll, copy, handed>>
    BY DEF AdapterOnTrade
  <1>2. /\ arrived \in Nat /\ queue \in Seq(Nat) /\ copy \in Seq(Nat) /\ handed \in Seq(Nat)
        /\ Len(queue) \in Nat /\ DOMAIN queue = 1..Len(queue) /\ Len(copy) \in Nat
        /\ DOMAIN handed = 1..Len(handed)
    BY DEF QueueInv
  <1>3. /\ queue' \in Seq(Nat) /\ Len(queue') = Len(queue) + 1
        /\ DOMAIN queue' = 1..(Len(queue) + 1)
        /\ queue'[Len(queue) + 1] = arrived + 1
        /\ \A i \in 1..Len(queue) : queue'[i] = queue[i]
    BY <1>1, <1>2
  <1>4. /\ \A i \in 1..Len(queue) : queue[i] \in Nat /\ queue[i] <= arrived
        /\ \A i, j \in 1..Len(queue) : i < j => queue[i] < queue[j]
    <2>1. \A i \in 1..Len(queue) : queue[i] \in Nat
      BY <1>2
    <2>2. QED
      BY <1>2, <2>1 DEF QueueInv
  <1>5. \A j \in DOMAIN handed : handed[j] \in Nat /\ handed[j] <= arrived
    BY <1>2 DEF QueueInv
  <1>6. ASSUME NEW i \in DOMAIN queue', NEW j \in DOMAIN queue', i < j
        PROVE  queue'[i] < queue'[j]
    <2>1. CASE j = Len(queue) + 1
      <3>1. i \in 1..Len(queue)
        BY <1>2, <1>3, <1>6, <2>1
      <3>2. queue'[i] \in Nat /\ queue'[i] <= arrived /\ queue'[j] = arrived + 1
        BY <1>3, <1>4, <2>1, <3>1
      <3>3. QED
        BY <1>2, <3>2
    <2>2. CASE j # Len(queue) + 1
      <3>1. i \in 1..Len(queue) /\ j \in 1..Len(queue)
        BY <1>2, <1>3, <1>6, <2>2
      <3>2. QED
        BY <1>3, <1>4, <1>6, <3>1
    <2>3. QED
      BY <2>1, <2>2
  <1>7. ASSUME NEW i \in DOMAIN queue'
        PROVE  queue'[i] <= arrived' /\ \A j \in DOMAIN handed' : handed'[j] < queue'[i]
    <2>1. CASE i = Len(queue) + 1
      BY <1>1, <1>2, <1>3, <1>5, <2>1
    <2>2. CASE i # Len(queue) + 1
      BY <1>1, <1>2, <1>3, <1>4, <2>2 DEF QueueInv
    <2>3. QED
      BY <2>1, <2>2
  <1>8. poll' = "copied" =>
          /\ Len(copy') <= Len(queue')
          /\ \A i \in 1..Len(copy') : copy'[i] = queue'[i]
          /\ \A i \in 1..Len(queue') : i > Len(copy') => queue'[i] \in raced'
    BY <1>1, <1>2, <1>3 DEF QueueInv
  <1>9. ASSUME NEW f \in 1..arrived'
        PROVE  \/ \E j \in DOMAIN handed' : handed'[j] = f
               \/ \E i \in DOMAIN queue' : queue'[i] = f
               \/ f \in raced'
    <2>1. CASE f = arrived + 1
      <3>1. Len(queue) + 1 \in DOMAIN queue' /\ queue'[Len(queue) + 1] = f
        BY <1>2, <1>3, <2>1
      <3>2. QED
        BY <3>1
    <2>2. CASE f # arrived + 1
      <3>1. f \in 1..arrived
        BY <1>1, <1>2, <2>2
      <3>2. \/ \E j \in DOMAIN handed : handed[j] = f
            \/ \E i \in DOMAIN queue : queue[i] = f
            \/ f \in raced
        BY <3>1 DEF QueueInv
      <3>3. ASSUME NEW i \in DOMAIN queue, queue[i] = f
            PROVE  i \in DOMAIN queue' /\ queue'[i] = f
        BY <1>2, <1>3, <3>3
      <3>4. QED
        BY <1>1, <3>2, <3>3
    <2>3. QED
      BY <2>1, <2>2
  <1>10. \A j \in DOMAIN handed' : handed'[j] <= arrived'
    BY <1>1, <1>2, <1>5
  <1>11. HandedInOrder' /\ poll' \in {"idle", "copied"} /\ arrived' \in Nat
    BY <1>1, <1>2 DEF QueueInv, HandedInOrder
  <1>12. copy' \in Seq(Nat) /\ handed' \in Seq(Nat)
    BY <1>1, <1>2
  <1>13. \A i, j \in DOMAIN queue' : i < j => queue'[i] < queue'[j]
    BY <1>6
  <1>14. \A i \in DOMAIN queue' :
            queue'[i] <= arrived' /\ \A j \in DOMAIN handed' : handed'[j] < queue'[i]
    BY <1>7
  <1>15. queue' \in Seq(Nat)
    BY <1>3
  <1>16. QED
    BY <1>8, <1>9, <1>10, <1>11, <1>12, <1>13, <1>14, <1>15 DEF QueueInv

LEMMA Concatenated ==
    ASSUME NEW g \in Seq(Nat), NEW c \in Seq(Nat)
    PROVE  /\ g \o c \in Seq(Nat)
           /\ \A i \in DOMAIN g : i \in DOMAIN (g \o c) /\ (g \o c)[i] = g[i]
           /\ \A i \in 1..Len(c) : /\ Len(g) + i \in DOMAIN (g \o c)
                                   /\ (g \o c)[Len(g) + i] = c[i]
           /\ \A j \in DOMAIN (g \o c) : j \in DOMAIN g \/ \E i \in 1..Len(c) : j = Len(g) + i
  <1> DEFINE l == Len(g)
             m == Len(c)
  <1>1. /\ g \o c \in Seq(Nat) /\ Len(g \o c) = l + m
        /\ \A i \in 1..(l + m) : (g \o c)[i] = IF i <= l THEN g[i] ELSE c[i - l]
    BY ConcatProperties
  <1>2. l \in Nat /\ m \in Nat /\ DOMAIN g = 1..l /\ DOMAIN (g \o c) = 1..(l + m)
    BY <1>1
  <1> HIDE DEF l, m
  <1>3. \A i \in 1..m : l + i \in 1..(l + m) /\ ~(l + i <= l) /\ (l + i) - l = i
    BY <1>2
  <1>4. \A i \in 1..l : i \in 1..(l + m) /\ i <= l
    BY <1>2
  <1>5. \A j \in 1..(l + m) : j \in 1..l \/ \E i \in 1..m : j = l + i
    <2>1. ASSUME NEW j \in 1..(l + m), j \notin 1..l
          PROVE  j - l \in 1..m /\ j = l + (j - l)
      BY <1>2, <2>1
    <2>2. QED
      BY <2>1
  <1>6. \A i \in 1..m : (g \o c)[l + i] = c[i]
    BY <1>1, <1>3
  <1>7. \A i \in 1..l : (g \o c)[i] = g[i]
    BY <1>1, <1>4
  <1>8. QED
    BY <1>1, <1>2, <1>3, <1>4, <1>5, <1>6, <1>7 DEF l, m

LEMMA PollReturnKeepsQueue ==
    ASSUME QueueInv, PollReturn
    PROVE  QueueInv'
  <1>1. /\ poll = "copied" /\ poll' = "idle" /\ handed' = handed \o copy
        /\ copy' = <<>> /\ queue' = <<>> /\ UNCHANGED <<arrived, raced>>
    BY DEF PollReturn, vnpyVars
  <1>2. /\ arrived \in Nat /\ queue \in Seq(Nat) /\ copy \in Seq(Nat) /\ handed \in Seq(Nat)
        /\ Len(queue) \in Nat /\ DOMAIN queue = 1..Len(queue)
        /\ Len(handed) \in Nat /\ DOMAIN handed = 1..Len(handed) /\ Len(copy) \in Nat
    BY DEF QueueInv
  <1>3. /\ Len(copy) <= Len(queue)
        /\ \A i \in 1..Len(copy) : i \in DOMAIN queue /\ copy[i] = queue[i]
        /\ \A i \in 1..Len(queue) : i > Len(copy) => queue[i] \in raced
    BY <1>1, <1>2 DEF QueueInv
  <1>4. /\ handed' \in Seq(Nat)
        /\ \A i \in DOMAIN handed : i \in DOMAIN handed' /\ handed'[i] = handed[i]
        /\ \A i \in 1..Len(copy) : /\ Len(handed) + i \in DOMAIN handed'
                                   /\ handed'[Len(handed) + i] = copy[i]
        /\ \A j \in DOMAIN handed' : \/ j \in DOMAIN handed
                                     \/ \E i \in 1..Len(copy) : j = Len(handed) + i
    BY <1>1, <1>2, Concatenated
  <1>5. /\ \A i \in 1..Len(copy) : handed'[Len(handed) + i] = queue[i] /\ queue[i] <= arrived
        /\ \A i, j \in 1..Len(copy) : i < j => queue[i] < queue[j]
        /\ \A i \in DOMAIN handed, j \in 1..Len(copy) : handed[i] < queue[j]
    BY <1>3, <1>4 DEF QueueInv
  <1>6. ASSUME NEW i \in DOMAIN handed', NEW j \in DOMAIN handed', i < j
        PROVE  handed'[i] < handed'[j]
    <2>1. CASE i \in DOMAIN handed /\ j \in DOMAIN handed
      BY <1>4, <1>6, <2>1 DEF QueueInv, HandedInOrder
    <2>2. ASSUME i \in DOMAIN handed, NEW m \in 1..Len(copy), j = Len(handed) + m
          PROVE  handed'[i] < handed'[j]
      BY <1>4, <1>5, <2>2
    <2>3. ASSUME NEW l \in 1..Len(copy), i = Len(handed) + l,
                 NEW m \in 1..Len(copy), j = Len(handed) + m
          PROVE  handed'[i] < handed'[j]
      <3>1. l < m
        BY <1>2, <1>6, <2>3
      <3>2. QED
        BY <1>5, <2>3, <3>1
    <2>4. ASSUME NEW l \in 1..Len(copy), i = Len(handed) + l, j \in DOMAIN handed
          PROVE  FALSE
      BY <1>2, <1>6, <2>4
    <2>5. QED
      BY <1>4, <2>1, <2>2, <2>3, <2>4
  <1>7. ASSUME NEW j \in DOMAIN handed'
        PROVE  handed'[j] <= arrived
    BY <1>4, <1>5 DEF QueueInv
  <1>8. ASSUME NEW f \in 1..arrived'
        PROVE  (\E j \in DOMAIN handed' : handed'[j] = f) \/ f \in raced'
    <2>1. CASE \E j \in DOMAIN handed : handed[j] = f
      BY <1>4, <2>1
    <2>2. CASE \E i \in DOMAIN queue : queue[i] = f
      <3>1. PICK i \in 1..Len(queue) : queue[i] = f
        BY <1>2, <2>2
      <3>2. CASE i <= Len(copy)
        <4>1. i \in 1..Len(copy)
          BY <1>2, <3>2
        <4>2. QED
          BY <1>4, <1>5, <3>1, <4>1
      <3>3. CASE i > Len(copy)
        BY <1>1, <1>3, <3>1, <3>3
      <3>4. QED
        BY <1>2, <3>2, <3>3
    <2>3. CASE f \in raced
      BY <1>1, <2>3
    <2>4. QED
      BY <1>1, <2>1, <2>2, <2>3 DEF QueueInv
  <1>9. HandedInOrder'
    BY <1>6 DEF HandedInOrder
  <1>10. /\ arrived' \in Nat /\ queue' \in Seq(Nat) /\ copy' \in Seq(Nat)
         /\ DOMAIN queue' = {} /\ poll' # "copied" /\ poll' \in {"idle", "copied"}
    BY <1>1, <1>2
  <1>11. \A j \in DOMAIN handed' : handed'[j] <= arrived'
    BY <1>1, <1>7
  <1>12. handed' \in Seq(Nat)
    BY <1>4
  <1>13. QED
    BY <1>8, <1>9, <1>10, <1>11, <1>12 DEF QueueInv

\* A process is wired with the gateway, and the list stays empty, or with the adapter,
\* and the mapper and the portfolio are never told of a trade.
LiveInv ==
    \/ /\ wiring = "gateway" /\ GatewayInv /\ CountsInv /\ handed = <<>>
    \/ /\ wiring = "adapter" /\ QueueInv /\ applied = <<>> /\ told = <<>>

LEMMA LiveInvInit == LiveInit => LiveInv
  <1> SUFFICES ASSUME LiveInit PROVE LiveInv
    OBVIOUS
  <1>1. GatewayInv
    BY GatewayInit DEF LiveInit
  <1>2. /\ arrived = 0 /\ applied = <<>> /\ told = <<>> /\ queue = <<>> /\ copy = <<>>
        /\ handed = <<>> /\ poll = "idle" /\ wiring \in {"gateway", "adapter"}
    BY DEF LiveInit, VnPyInit
  <1>3. CountsInv
    BY <1>2, NothingCounted
  <1>4. QueueInv
    BY <1>2 DEF QueueInv, HandedInOrder
  <1>5. QED
    BY <1>1, <1>2, <1>3, <1>4 DEF LiveInv

LEMMA LiveInvStep == LiveInv /\ [LiveNext]_liveVars => LiveInv'
  <1> SUFFICES ASSUME LiveInv, [LiveNext]_liveVars PROVE LiveInv'
    OBVIOUS
  <1>1. CASE wiring = "gateway"
    <2>1. GatewayInv /\ CountsInv /\ handed = <<>>
      BY <1>1 DEF LiveInv
    <2>2. [VnPyNext]_vnpyVars /\ UNCHANGED <<wiring, handed>>
      BY <1>1 DEF LiveNext, liveVars, adapterVars
    <2>3. QED
      BY <1>1, <2>1, <2>2, StepKeepsInv, StepKeepsCounts DEF LiveInv
  <1>2. CASE wiring = "adapter"
    <2>1. QueueInv /\ applied = <<>> /\ told = <<>>
      BY <1>2 DEF LiveInv
    <2>2. CASE UNCHANGED <<adapterVars, arrived, applied, told>>
      BY <1>2, <2>1, <2>2 DEF LiveInv, QueueInv, HandedInOrder, adapterVars
    <2>3. ASSUME NEW t, AdapterOnTrade(t) PROVE LiveInv'
      BY <1>2, <2>1, <2>3, OnTradeKeepsQueue DEF LiveInv, AdapterOnTrade
    <2>4. CASE PollCopy
      <3>1. poll' = "copied" /\ copy' = queue
              /\ UNCHANGED <<wiring, queue, handed, raced, arrived, applied, told>>
        BY <2>4 DEF PollCopy, vnpyVars
      <3>2. QueueInv'
        BY <2>1, <3>1 DEF QueueInv, HandedInOrder
      <3>3. QED
        BY <1>2, <2>1, <3>1, <3>2 DEF LiveInv
    <2>5. CASE PollReturn
      BY <1>2, <2>1, <2>5, PollReturnKeepsQueue DEF LiveInv, PollReturn, vnpyVars
    <2>6. ASSUME NEW s, NEW q, NEW table, AdapterSend(s, q, table) PROVE LiveInv'
      BY <2>2, <2>6 DEF AdapterSend
    <2>7. ASSUME NEW i, NEW q, NEW p, Execute(i, q, p), UNCHANGED adapterVars PROVE LiveInv'
      BY <2>2, <2>7 DEF Execute
    <2>8. CASE UNCHANGED liveVars
      BY <2>2, <2>8 DEF liveVars, vnpyVars
    <2>9. QED
      BY <1>2, <2>3, <2>4, <2>5, <2>6, <2>7, <2>8 DEF LiveNext, AdapterNext
  <1>3. QED
    BY <1>1, <1>2 DEF LiveInv

\* Of the fills of vn.py, the bus carries none that was not applied, poll_fills returns
\* them in the order of their deliveries, and loses only those that come between its
\* copy and its clear: for any number of trades, deliveries, polls and restarts.
THEOREM FillsAlwaysReachTheirReader == LiveSpec => []FillsReachTheirReader
  <1>1. ASSUME GatewayInv, CountsInv PROVE PublishedOnlyIfApplied
    <2>1. DOMAIN trade \subseteq Nat
      BY <1>1 DEF GatewayInv, GatewayType
    <2>2. QED
      BY <1>1, <2>1 DEF CountsInv, PublishedOnlyIfApplied, Publications, Applications
  <1>2. ASSUME told = <<>>, applied = <<>> PROVE PublishedOnlyIfApplied
    <2>1. \A t : {i \in DOMAIN told : told[i] = t} = {} /\ {i \in DOMAIN applied : applied[i].t = t} = {}
      BY <1>2
    <2>2. Cardinality({}) = 0
      BY FS_EmptySet
    <2>3. QED
      BY <2>1, <2>2 DEF PublishedOnlyIfApplied
  <1>3. QueueInv => HandedInOrder /\ OnlyRacedFillsLost
    BY DEF QueueInv, OnlyRacedFillsLost, Range
  <1>4. LiveInv => FillsReachTheirReader
    <2>1. handed = <<>> => HandedInOrder
      BY DEF HandedInOrder
    <2>2. QED
      BY <1>1, <1>2, <1>3, <2>1 DEF LiveInv, FillsReachTheirReader, OnlyRacedFillsLost
  <1>5. QED
    BY <1>4, LiveInvInit, LiveInvStep, PTL DEF LiveSpec
=============================================================================
