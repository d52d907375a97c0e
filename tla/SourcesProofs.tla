--------------------------- MODULE SourcesProofs ---------------------------
(***************************************************************************)
(* Proofs about Sources, for all sources, objects and ConfigMaps.          *)
(*                                                                         *)
(* Sources implements RuleBook because the keys of two sources coincide    *)
(* exactly if their pages do (KeysArePages), and because each branch of    *)
(* the callbacks does to the keys what an action of the book does to the   *)
(* pages.  That the lists of rules themselves are the declared ones is     *)
(* ListsAreDeclared, a hypothesis here: the lists come out of filters and  *)
(* folds over annotations, ports and paths.                                *)
(***************************************************************************)
EXTENDS Sources, SequenceTheorems, TLAPS

(***************************************************************************)
(* Keys and pages.                                                         *)
(***************************************************************************)
(* A key is a kind and the words of the namespace and of the name: nothing *)
(* is left of where the one ends and the other begins.                     *)
LEMMA KeyText ==
    ASSUME NEW s \in Sources
    PROVE  \E p, x \in Seq(Words) : /\ Len(p) = 1 /\ p[1] = s.kind
                                    /\ x = s.ns \o s.name /\ KeyOf(s) = p \o x
<1>1. s.kind \in Words /\ s.ns \in Seq(Words) /\ s.name \in Seq(Words)
  BY SourcesAssumption DEF Words
<1>2. \E k \in Words : \E a, b \in Seq(Words) : k = s.kind /\ a = s.ns /\ b = s.name
  BY <1>1, Zenon
<1>3. PICK k \in Words, a \in Seq(Words), b \in Seq(Words) :
         k = s.kind /\ a = s.ns /\ b = s.name
  BY <1>2
<1>4. <<k>> \in Seq(Words)
  OBVIOUS
<1>5. PICK p \in Seq(Words) : p = <<k>>
  BY <1>4
<1>6. Len(p) = 1 /\ p[1] = k
  BY <1>5
<1>7. (p \o a) \o b = p \o (a \o b)
  BY ConcatAssociative
<1>8. a \o b \in Seq(Words)
  BY ConcatProperties
<1>9. KeyOf(s) = (p \o a) \o b
  BY <1>3, <1>5, Zenon DEF KeyOf, cmKey
<1>10. KeyOf(s) = p \o (a \o b)
  BY <1>7, <1>9, Zenon
<1> QED
  BY <1>3, <1>6, <1>8, <1>10, Zenon

(* cmKey (tunnel_config_maps.go) gives two Services or Ingresses one key   *)
(* exactly if users, who do not count dashes, give them one page.          *)
THEOREM KeysArePages ==
    ASSUME NEW s \in Sources, NEW t \in Sources
    PROVE  KeyOf(s) = KeyOf(t) <=> Page[s] = Page[t]
<1>1. PICK p \in Seq(Words), x \in Seq(Words) :
         /\ Len(p) = 1 /\ p[1] = s.kind
         /\ x = s.ns \o s.name /\ KeyOf(s) = p \o x
  BY KeyText
<1>2. PICK q \in Seq(Words), y \in Seq(Words) :
         /\ Len(q) = 1 /\ q[1] = t.kind
         /\ y = t.ns \o t.name /\ KeyOf(t) = q \o y
  BY KeyText
<1>3. Len(p) = 1 /\ Len(q) = 1
  BY <1>1, <1>2
<1>4. ASSUME p \o x = q \o y PROVE p[1] = q[1] /\ x = y
  <2>1. /\ Len(p \o x) = Len(p) + Len(x)
        /\ \A i \in 1 .. Len(p) + Len(x) :
              (p \o x)[i] = IF i <= Len(p) THEN p[i] ELSE x[i - Len(p)]
    BY ConcatProperties
  <2>2. /\ Len(q \o y) = Len(q) + Len(y)
        /\ \A i \in 1 .. Len(q) + Len(y) :
              (q \o y)[i] = IF i <= Len(q) THEN q[i] ELSE y[i - Len(q)]
    BY ConcatProperties
  <2>3. Len(x) \in Nat /\ Len(y) \in Nat /\ Len(x) = Len(y)
    <3>1. Len(x) \in Nat /\ Len(y) \in Nat
      OBVIOUS
    <3>2. Len(p \o x) = Len(q \o y)
      BY <1>4, Zenon
    <3>3. Len(p) + Len(x) = Len(q) + Len(y)
      BY <2>1, <2>2, <3>2, Zenon
    <3>4. 1 + Len(x) = 1 + Len(y)
      BY <1>3, <3>3, Zenon
    <3> QED
      BY <3>1, <3>4
  <2>4. p[1] = q[1]
    <3>1. (p \o x)[1] = p[1]
      BY <1>3, <2>1, <2>3
    <3>2. (q \o y)[1] = q[1]
      BY <1>3, <2>2, <2>3
    <3> QED
      BY <1>3, <1>4, <3>1, <3>2
  <2>5. ASSUME NEW i \in 1 .. Len(x) PROVE x[i] = y[i]
    <3>1. (p \o x)[i + 1] = x[i]
      BY <1>3, <2>1, <2>3
    <3>2. (q \o y)[i + 1] = y[i]
      BY <1>3, <2>2, <2>3
    <3> QED
      BY <1>4, <3>1, <3>2
  <2> QED
    BY <2>3, <2>4, <2>5, SeqEqual
<1>5. p[1] = q[1] => p = q
  BY <1>3
<1>6. p \o x = q \o y <=> p[1] = q[1] /\ x = y
  BY <1>4, <1>5
<1>7. Page[s] = Page[t] <=> p[1] = q[1] /\ x = y
  BY <1>1, <1>2, PageAssumption, Zenon
<1> QED
  BY <1>1, <1>2, <1>6, <1>7

-----------------------------------------------------------------------------
(***************************************************************************)
(* Objects: the rules for HTTP, the tunnel's ConfigMap, usable names.      *)
(***************************************************************************)
LEMMA HttpSame == ASSUME NEW o PROVE HttpRules(o) = RB!Http(o)
  BY DEF HttpRules, RB!Http

LEMMA HomeSame ==
    ASSUME NEW o, o.tunnel \in Seq(STRING), Len(o.tunnel) >= 1
    PROVE  K8SConfigMapName(TunnelParam(o.tunnel)) = RB!Home(o)
<1>1. CASE Len(o.tunnel) >= 2
  BY <1>1 DEF K8SConfigMapName, TunnelParam, RB!Home
<1>2. CASE Len(o.tunnel) = 1
  BY <1>2 DEF K8SConfigMapName, TunnelParam, RB!Home
<1>3. Len(o.tunnel) \in Nat
  OBVIOUS
<1>4. Len(o.tunnel) >= 2 \/ Len(o.tunnel) = 1
  BY <1>3
<1> QED
  BY <1>1, <1>2, <1>4, Zenon

LEMMA TunnelSame ==
    ASSUME NEW p \in Seq(STRING), Len(p) >= 1
    PROVE  TunnelParamOk(p) <=> ~ \E k \in DOMAIN p \cap {1, 2} : p[k] = ""
<1>1. PICK e : e = ""
  BY Zenon
<1>2. TunnelParamOk(p) <=> TunnelParam(p).namespace # e /\ TunnelParam(p).name # e
  BY <1>1, Zenon DEF TunnelParamOk
<1>3. DefaultNs # e
  BY <1>1, TunnelAssumption, Zenon
<1>4. TunnelParam(p).namespace # e /\ TunnelParam(p).name # e
         <=> ~ \E k \in DOMAIN p \cap {1, 2} : p[k] = e
  <2>1. CASE Len(p) >= 2
    BY <2>1 DEF TunnelParam
  <2>2. CASE Len(p) = 1
    BY <1>3, <2>2 DEF TunnelParam
  <2>3. Len(p) \in Nat
    OBVIOUS
  <2>4. Len(p) >= 2 \/ Len(p) = 1
    BY <2>3
  <2> QED
    BY <2>1, <2>2, <2>4, Zenon
<1> QED
  BY <1>1, <1>2, <1>4, Zenon

(* rules is a function on ConfigMaps, of functions on Keys.                *)
Shape == rules = [c \in ConfigMaps |-> [k \in Keys |-> rules[c][k]]]

SourcesInv == menu \in DOMAIN Menus /\ Shape

LEMMA BookSame == ASSUME rules' = rules PROVE Book' = Book
  BY DEF Book

-----------------------------------------------------------------------------
(***************************************************************************)
(* What the callbacks do to keys is what happens to the book's pages.      *)
(***************************************************************************)
(* Taking a key out of all ConfigMaps strikes its page.                    *)
LEMMA Struck ==
    ASSUME Shape, NEW s \in Sources, RemoveConfigMap(s)
    PROVE  RB!Strike(s)
<1> DEFINE P == {Page[t] : t \in Sources}
<1>1. ASSUME NEW t \in Sources, NEW c \in ConfigMaps
      PROVE  rules'[c][KeyOf(t)] = IF Page[t] = Page[s] THEN None ELSE rules[c][KeyOf(t)]
  <2>1. KeyOf(t) \in Keys /\ (KeyOf(t) = KeyOf(s) <=> Page[t] = Page[s])
    BY KeysArePages DEF Keys
  <2>2. rules'[c] = [rules[c] EXCEPT ![KeyOf(s)] = None]
    BY DEF RemoveConfigMap
  <2>3. rules[c] = [k \in Keys |-> rules[c][k]]
    BY DEF Shape
  <2> QED
    BY <2>1, <2>2, <2>3
<1>2. ASSUME NEW p \in P
      PROVE  [c \in ConfigMaps |-> rules'[c][KeyOf(Owner(p))]]
                = IF p = Page[s] THEN [c \in ConfigMaps |-> None]
                                 ELSE [c \in ConfigMaps |-> rules[c][KeyOf(Owner(p))]]
  <2>1. Owner(p) \in Sources /\ Page[Owner(p)] = p
    BY DEF Owner
  <2> QED
    BY <1>1, <2>1
<1>3. Book' = [p \in P |-> [c \in ConfigMaps |-> rules'[c][KeyOf(Owner(p))]]]
  BY DEF Book
<1>4. [Book EXCEPT ![Page[s]] = [c \in ConfigMaps |-> None]]
         = [p \in P |-> IF p = Page[s] THEN [c \in ConfigMaps |-> None]
                         ELSE [c \in ConfigMaps |-> rules[c][KeyOf(Owner(p))]]]
  BY DEF Book
<1> HIDE DEF P
<1> QED
  BY <1>2, <1>3, <1>4 DEF RB!Strike

(* Writing a list under a key writes it on the page.                       *)
LEMMA Promised ==
    ASSUME Shape, NEW s \in Sources, NEW h, NEW list,
           rules' = [rules EXCEPT ![h][KeyOf(s)] = list]
    PROVE  Book' = [Book EXCEPT ![Page[s]][h] = list]
<1> DEFINE P == {Page[t] : t \in Sources}
<1>1. ASSUME NEW t \in Sources, NEW c \in ConfigMaps
      PROVE  rules'[c][KeyOf(t)] = IF Page[t] = Page[s] /\ c = h THEN list
                                   ELSE rules[c][KeyOf(t)]
  <2>1. KeyOf(t) \in Keys /\ (KeyOf(t) = KeyOf(s) <=> Page[t] = Page[s])
    BY KeysArePages DEF Keys
  <2>2. rules'[c] = IF c = h THEN [rules[c] EXCEPT ![KeyOf(s)] = list] ELSE rules[c]
    BY DEF Shape
  <2>3. rules[c] = [k \in Keys |-> rules[c][k]]
    BY DEF Shape
  <2> QED
    BY <2>1, <2>2, <2>3
<1>2. ASSUME NEW p \in P
      PROVE  [c \in ConfigMaps |-> rules'[c][KeyOf(Owner(p))]]
                = IF p = Page[s]
                  THEN [[c \in ConfigMaps |-> rules[c][KeyOf(Owner(p))]] EXCEPT ![h] = list]
                  ELSE [c \in ConfigMaps |-> rules[c][KeyOf(Owner(p))]]
  <2>1. Owner(p) \in Sources /\ Page[Owner(p)] = p
    BY DEF Owner
  <2> QED
    BY <1>1, <2>1
<1>3. Book' = [p \in P |-> [c \in ConfigMaps |-> rules'[c][KeyOf(Owner(p))]]]
  BY DEF Book
<1>4. [Book EXCEPT ![Page[s]][h] = list]
         = [p \in P |-> IF p = Page[s]
                         THEN [[c \in ConfigMaps |-> rules[c][KeyOf(Owner(p))]]
                                  EXCEPT ![h] = list]
                         ELSE [c \in ConfigMaps |-> rules[c][KeyOf(Owner(p))]]]
  BY DEF Book
<1> HIDE DEF P
<1> QED
  BY <1>2, <1>3, <1>4

(* The tunnel of an object is in the ConfigMap that its author means, if   *)
(* no part of its name is empty.                                           *)
LEMMA ObjectsTunnel ==
    ASSUME NEW m \in DOMAIN Menus, NEW s \in Sources, NEW o \in Menus[m][s], o.tunnel # None
    PROVE  /\ K8SConfigMapName(TunnelParam(o.tunnel)) = RB!Home(o)
           /\ TunnelParamOk(o.tunnel)
                 <=> ~ \E k \in DOMAIN o.tunnel \cap {1, 2} : o.tunnel[k] = ""
<1>1. o.tunnel \in Seq(STRING) /\ Len(o.tunnel) >= 1
  BY TunnelAssumption, Zenon
<1>2. PICK p \in Seq(STRING) : p = o.tunnel /\ Len(p) >= 1
  BY <1>1, Zenon
<1>3. TunnelParamOk(p) <=> ~ \E k \in DOMAIN p \cap {1, 2} : p[k] = ""
  BY <1>2, TunnelSame, Zenon
<1>4. K8SConfigMapName(TunnelParam(o.tunnel)) = RB!Home(o)
  BY <1>1, HomeSame, Zenon
<1> QED
  BY <1>2, <1>3, <1>4, Zenon

(* A step of updateConfigMap, classIngress or stackedIngress that writes   *)
(* what the object declares, or nothing because it is silent.              *)
LEMMA Wrote ==
    ASSUME Shape, NEW m \in DOMAIN Menus, NEW s \in Sources, NEW o \in Menus[m][s],
           o.tunnel # None, NEW list, list = RB!Declared(s, o),
           ~RB!Silent(s, o), ~RB!Unwanted(s, o), UpsertConfigMap(s, o.tunnel, list)
    PROVE  RB!Promise(s, o)
<1>1. PICK h : h = K8SConfigMapName(TunnelParam(o.tunnel))
  OBVIOUS
<1>2. rules' = IF h \in ConfigMaps THEN [rules EXCEPT ![h][KeyOf(s)] = list] ELSE rules
  BY <1>1, Zenon DEF UpsertConfigMap
<1>3. Book' = IF h \in ConfigMaps THEN [Book EXCEPT ![Page[s]][h] = list] ELSE Book
  <2>1. CASE h \in ConfigMaps
    BY <1>2, <2>1, Promised
  <2>2. CASE h \notin ConfigMaps
    BY <1>2, <2>2, BookSame
  <2> QED
    BY <2>1, <2>2
<1>4. h = RB!Home(o)
  BY <1>1, ObjectsTunnel, Zenon
<1> QED
  BY <1>3, <1>4, Zenon DEF RB!Promise

(* A callback that returns early does what the book does for an object     *)
(* that is silent.                                                         *)
LEMMA Ignored ==
    ASSUME NEW s, NEW o, rules' = rules, RB!Silent(s, o), ~RB!Unwanted(s, o)
    PROVE  RB!Ignore(s, o)
  BY BookSame, Zenon DEF RB!Ignore

(* An event about a Service is an action of the book.                      *)
LEMMA ServiceStep ==
    ASSUME Shape, ListsAreDeclared, NEW m \in DOMAIN Menus, NEW s \in Sources,
           NEW o \in Menus[m][s], ServiceEvent(s, o)
    PROVE  RB!Withdraw(s, o) \/ RB!Ignore(s, o) \/ RB!Promise(s, o)
<1>1. RB!IsService(s)
  BY DEF ServiceEvent, RB!IsService
<1>2. CASE o.tunnel = None \/ o.external = None
  <2>1. RemoveConfigMap(s)
    BY <1>2, Zenon DEF ServiceEvent, updateConfigMap
  <2>2. RB!Unwanted(s, o)
    BY <1>1, <1>2, Zenon DEF RB!Unwanted
  <2> QED
    BY <2>1, <2>2, Struck, Zenon DEF RB!Withdraw
<1>3. CASE o.tunnel # None /\ o.external # None
  <2>1. updateConfigMap(s, o) /\ ~RB!Unwanted(s, o)
    BY <1>3, Zenon DEF ServiceEvent, RB!Unwanted
  <2>2. SvcConfig(s, o) = RB!SvcRules(s, o) /\ RB!SvcRules(s, o) = RB!Declared(s, o)
    BY <1>1, <1>3, Zenon DEF ListsAreDeclared, RB!Declared, RB!IsService
  <2>3. RB!Silent(s, o) <=> ~TunnelParamOk(o.tunnel) \/ SvcConfig(s, o) = <<>>
    BY <1>1, <1>3, <2>2, ObjectsTunnel, Zenon DEF RB!Silent
  <2>4. CASE ~TunnelParamOk(o.tunnel) \/ SvcConfig(s, o) = <<>>
    <3>1. rules' = rules
      BY <1>3, <2>1, <2>4, Zenon DEF updateConfigMap
    <3> QED
      BY <2>1, <2>3, <2>4, <3>1, Ignored, Zenon
  <2>5. CASE TunnelParamOk(o.tunnel) /\ SvcConfig(s, o) # <<>>
    <3>1. UpsertConfigMap(s, o.tunnel, SvcConfig(s, o))
      BY <1>3, <2>1, <2>5, Zenon DEF updateConfigMap
    <3>2. PICK list : list = SvcConfig(s, o)
      OBVIOUS
    <3>3. UpsertConfigMap(s, o.tunnel, list) /\ list = RB!Declared(s, o)
      BY <2>2, <3>1, <3>2, Zenon
    <3>4. RB!Promise(s, o)
      BY <1>3, <2>1, <2>3, <2>5, <3>3, Wrote, Zenon
    <3> QED
      BY <3>4
  <2> QED
    BY <2>4, <2>5, Zenon
<1> QED
  BY <1>2, <1>3, Zenon

(* The branch of processEvent for an ingress, with the test before it and  *)
(* the rules after it.                                                     *)
LEMMA IngressBranch ==
    ASSUME Shape, NEW m \in DOMAIN Menus, NEW s \in Sources, NEW o \in Menus[m][s],
           o.tunnel # None, ~RB!IsService(s),
           NEW rs, rs = IF o.class THEN RB!Http(o) ELSE o.rules,
           NEW list, list = RB!Declared(s, o),
           IF rs # <<>> /\ TunnelParamOk(o.tunnel) THEN UpsertConfigMap(s, o.tunnel, list)
                                                   ELSE UNCHANGED rules
    PROVE  RB!Ignore(s, o) \/ RB!Promise(s, o)
<1>1. ~RB!Unwanted(s, o)
  BY Zenon DEF RB!Unwanted
<1>2. RB!Silent(s, o) <=> ~(rs # <<>> /\ TunnelParamOk(o.tunnel))
  BY ObjectsTunnel, Zenon DEF RB!Silent
<1>3. CASE rs # <<>> /\ TunnelParamOk(o.tunnel)
  BY <1>1, <1>2, <1>3, Wrote, Zenon
<1>4. CASE ~(rs # <<>> /\ TunnelParamOk(o.tunnel))
  <2>1. rules' = rules
    BY <1>4, Zenon
  <2> QED
    BY <1>1, <1>2, <1>4, <2>1, Ignored, Zenon
<1> QED
  BY <1>3, <1>4, Zenon

(* An event about an Ingress is an action of the book.                     *)
LEMMA IngressStep ==
    ASSUME Shape, ListsAreDeclared, NEW m \in DOMAIN Menus, NEW s \in Sources,
           NEW o \in Menus[m][s], IngressEvent(s, o)
    PROVE  RB!Withdraw(s, o) \/ RB!Ignore(s, o) \/ RB!Promise(s, o)
<1>1. s.kind = "ingress" /\ ~RB!IsService(s)
  BY DEF IngressEvent, RB!IsService
<1>2. CASE o.tunnel = None
  <2>1. RemoveConfigMap(s)
    BY <1>2, Zenon DEF IngressEvent
  <2> QED
    BY <1>2, <2>1, Struck, Zenon DEF RB!Withdraw, RB!Unwanted
<1>3. CASE o.tunnel # None /\ o.class
  <2>1. PICK rs : rs = HttpRules(o)
    OBVIOUS
  <2>2. PICK list : list = ClassConfig(s, o)
    OBVIOUS
  <2>3. IF rs # <<>> /\ TunnelParamOk(o.tunnel) THEN UpsertConfigMap(s, o.tunnel, list)
                                                ELSE UNCHANGED rules
    BY <1>3, <2>1, <2>2, Zenon DEF IngressEvent, processEvent, classIngress
  <2>4. rs = IF o.class THEN RB!Http(o) ELSE o.rules
    BY <1>3, <2>1, HttpSame, Zenon
  <2>5. list = RB!Declared(s, o)
    BY <1>1, <1>3, <2>2, Zenon DEF ListsAreDeclared, RB!Declared
  <2> QED
    BY <1>1, <1>3, <2>3, <2>4, <2>5, IngressBranch, Zenon
<1>4. CASE o.tunnel # None /\ ~o.class
  <2>1. PICK rs : rs = o.rules
    OBVIOUS
  <2>2. PICK list : list = StackConfig(s, o)
    OBVIOUS
  <2>3. IF rs # <<>> /\ TunnelParamOk(o.tunnel) THEN UpsertConfigMap(s, o.tunnel, list)
                                                ELSE UNCHANGED rules
    BY <1>4, <2>1, <2>2, Zenon DEF IngressEvent, processEvent, stackedIngress
  <2>4. rs = IF o.class THEN RB!Http(o) ELSE o.rules
    BY <1>4, <2>1, Zenon
  <2>5. list = RB!Declared(s, o)
    BY <1>1, <1>4, <2>2, Zenon DEF ListsAreDeclared, RB!Declared
  <2> QED
    BY <1>1, <1>4, <2>3, <2>4, <2>5, IngressBranch, Zenon
<1> QED
  BY <1>2, <1>3, <1>4, Zenon

-----------------------------------------------------------------------------
(***************************************************************************)
(* The invariant: each ConfigMap has something, or None, under each key.   *)
(***************************************************************************)
LEMMA ShapeStruck ==
    ASSUME Shape, NEW s, RemoveConfigMap(s)
    PROVE  Shape'
<1>1. ASSUME NEW c \in ConfigMaps
      PROVE  rules'[c] = [k \in Keys |-> rules'[c][k]]
  <2>1. rules'[c] = [rules[c] EXCEPT ![KeyOf(s)] = None]
    BY DEF RemoveConfigMap
  <2>2. rules[c] = [k \in Keys |-> rules[c][k]]
    BY DEF Shape
  <2> QED
    BY <2>1, <2>2
<1>2. rules' = [c \in ConfigMaps |-> rules'[c]]
  BY DEF RemoveConfigMap
<1>3. rules' = [c \in ConfigMaps |-> [k \in Keys |-> rules'[c][k]]]
  BY <1>1, <1>2
<1> QED
  BY <1>3 DEF Shape, Keys

LEMMA ShapePromised ==
    ASSUME Shape, NEW s, NEW h, NEW list, rules' = [rules EXCEPT ![h][KeyOf(s)] = list]
    PROVE  Shape'
<1>1. ASSUME NEW c \in ConfigMaps
      PROVE  rules'[c] = [k \in Keys |-> rules'[c][k]]
  <2>1. rules'[c] = IF c = h THEN [rules[c] EXCEPT ![KeyOf(s)] = list] ELSE rules[c]
    BY DEF Shape
  <2>2. rules[c] = [k \in Keys |-> rules[c][k]]
    BY DEF Shape
  <2> QED
    BY <2>1, <2>2
<1>2. rules' = [c \in ConfigMaps |-> rules'[c]]
  BY DEF Shape
<1>3. rules' = [c \in ConfigMaps |-> [k \in Keys |-> rules'[c][k]]]
  BY <1>1, <1>2
<1> QED
  BY <1>3 DEF Shape, Keys

(* The three things that an event does to the rules.                       *)
Effects(s) ==
    \/ RemoveConfigMap(s)
    \/ UNCHANGED rules
    \/ \E h, list : rules' = [rules EXCEPT ![h][KeyOf(s)] = list]

LEMMA UpsertEffect ==
    ASSUME NEW s, NEW o, NEW list, UpsertConfigMap(s, o.tunnel, list)
    PROVE  Effects(s)
  BY Zenon DEF Effects, UpsertConfigMap

LEMMA EventEffects ==
    ASSUME NEW s, NEW o, ServiceEvent(s, o) \/ IngressEvent(s, o)
    PROVE  Effects(s)
<1>1. CASE ServiceEvent(s, o)
  <2>1. \/ RemoveConfigMap(s)
        \/ UNCHANGED rules
        \/ UpsertConfigMap(s, o.tunnel, SvcConfig(s, o))
    BY <1>1, Zenon DEF ServiceEvent, updateConfigMap
  <2> QED
    BY <2>1, UpsertEffect, Zenon DEF Effects
<1>2. CASE IngressEvent(s, o)
  <2>1. \/ RemoveConfigMap(s)
        \/ UNCHANGED rules
        \/ UpsertConfigMap(s, o.tunnel, ClassConfig(s, o))
        \/ UpsertConfigMap(s, o.tunnel, StackConfig(s, o))
    BY <1>2, Zenon DEF IngressEvent, processEvent, classIngress, stackedIngress
  <2> QED
    BY <2>1, UpsertEffect, Zenon DEF Effects
<1> QED
  BY <1>1, <1>2

(* Every event is about one source, and does one of these to its key.      *)
LEMMA StepEffects ==
    ASSUME Next
    PROVE  UNCHANGED menu /\ \E s \in Sources : event'.source = s /\ Effects(s)
<1>1. PICK s \in Sources :
         \/ DeletedEvent(s)
         \/ \E o \in Menus[menu][s] : ServiceEvent(s, o) \/ IngressEvent(s, o)
  BY Zenon DEF Next
<1>2. CASE DeletedEvent(s)
  <2>1. event' = [source |-> s, object |-> None] /\ UNCHANGED menu /\ RemoveConfigMap(s)
    BY <1>2, Zenon DEF DeletedEvent, Seen
  <2>2. event'.source = s
    BY <2>1
  <2> QED
    BY <2>1, <2>2, Zenon DEF Effects
<1>3. ASSUME NEW o \in Menus[menu][s], ServiceEvent(s, o) \/ IngressEvent(s, o)
      PROVE  UNCHANGED menu /\ event'.source = s /\ Effects(s)
  <2>1. event' = [source |-> s, object |-> o] /\ UNCHANGED menu
    BY <1>3, Zenon DEF ServiceEvent, IngressEvent, Seen
  <2>2. event'.source = s
    BY <2>1
  <2> QED
    BY <1>3, <2>1, <2>2, EventEffects, Zenon
<1> QED
  BY <1>1, <1>2, <1>3, Zenon

LEMMA SourcesInvInit == ASSUME Init PROVE SourcesInv
  BY DEF Init, SourcesInv, Shape

LEMMA SourcesInvStep ==
    ASSUME SourcesInv, [Next]_vars
    PROVE  SourcesInv'
<1>1. CASE Next
  <2>1. PICK s \in Sources : UNCHANGED menu /\ Effects(s)
    BY <1>1, StepEffects, Zenon
  <2>2. CASE RemoveConfigMap(s)
    BY <2>1, <2>2, ShapeStruck, Zenon DEF SourcesInv
  <2>3. CASE UNCHANGED rules
    BY <2>1, <2>3 DEF SourcesInv, Shape, Keys
  <2>4. CASE \E h, list : rules' = [rules EXCEPT ![h][KeyOf(s)] = list]
    BY <2>1, <2>4, ShapePromised, Zenon DEF SourcesInv
  <2> QED
    BY <2>1, <2>2, <2>3, <2>4, Zenon DEF Effects
<1>2. CASE UNCHANGED vars
  BY <1>2 DEF vars, SourcesInv, Shape, Keys
<1> QED
  BY <1>1, <1>2

(* In every state of the callbacks there is a menu, and each ConfigMap has *)
(* rules or None under the key of each source.                             *)
THEOREM SourcesInvariant == Spec => []SourcesInv
<1>1. Init => SourcesInv
  BY SourcesInvInit
<1>2. SourcesInv /\ [Next]_vars => SourcesInv'
  BY SourcesInvStep
<1> QED
  BY <1>1, <1>2, PTL DEF Spec

(* What is under the keys of other pages stays as it is.                   *)
LEMMA Minded ==
    ASSUME Shape, NEW s \in Sources, Effects(s),
           NEW t \in Sources, Page[t] # Page[s], NEW c \in ConfigMaps
    PROVE  rules'[c][KeyOf(t)] = rules[c][KeyOf(t)]
<1>1. KeyOf(t) # KeyOf(s) /\ KeyOf(t) \in Keys
  BY KeysArePages DEF Keys
<1>2. rules[c] = [k \in Keys |-> rules[c][k]]
  BY DEF Shape
<1>3. CASE RemoveConfigMap(s)
  <2>1. rules'[c] = [rules[c] EXCEPT ![KeyOf(s)] = None]
    BY <1>3 DEF RemoveConfigMap
  <2> QED
    BY <1>1, <1>2, <2>1
<1>4. ASSUME NEW h, NEW list, rules' = [rules EXCEPT ![h][KeyOf(s)] = list]
      PROVE  rules'[c][KeyOf(t)] = rules[c][KeyOf(t)]
  <2>1. rules'[c] = IF c = h THEN [rules[c] EXCEPT ![KeyOf(s)] = list] ELSE rules[c]
    BY <1>4 DEF Shape
  <2> QED
    BY <1>1, <1>2, <2>1
<1> QED
  BY <1>3, <1>4, Zenon DEF Effects

-----------------------------------------------------------------------------
(***************************************************************************)
(* The theorems.                                                           *)
(***************************************************************************)
(* An event about a Service or an Ingress, be it deleted, withdrawn, put   *)
(* up or without usable rules, leaves alone what any ConfigMap has under   *)
(* the keys of all the sources that are not on its page: those of the      *)
(* other kind, and those whose namespace and name differ once dashes do    *)
(* not count.  This holds whatever the callbacks compute as rules.         *)
THEOREM EventsMindTheirPage ==
    Spec => [][\A t \in Sources, c \in ConfigMaps :
                  Page[t] # Page[event'.source] =>
                      rules'[c][KeyOf(t)] = rules[c][KeyOf(t)]]_vars
<1>1. ASSUME SourcesInv, Next
      PROVE  \A t \in Sources, c \in ConfigMaps :
                Page[t] # Page[event'.source] =>
                    rules'[c][KeyOf(t)] = rules[c][KeyOf(t)]
  <2>1. PICK s \in Sources : event'.source = s /\ Effects(s)
    BY <1>1, StepEffects, Zenon
  <2>2. Shape
    BY <1>1 DEF SourcesInv
  <2>3. ASSUME NEW t \in Sources, NEW c \in ConfigMaps, Page[t] # Page[event'.source]
        PROVE  rules'[c][KeyOf(t)] = rules[c][KeyOf(t)]
    BY <2>1, <2>2, <2>3, Minded, Zenon
  <2> QED
    BY <2>3, Zenon
<1> QED
  BY <1>1, SourcesInvariant, PTL DEF Spec

(* At first nothing is written down.                                       *)
LEMMA RuleBookInit == ASSUME Init PROVE RB!Init
<1>1. ASSUME NEW s \in Sources
      PROVE  [c \in ConfigMaps |-> rules[c][KeyOf(s)]] = [c \in ConfigMaps |-> None]
  <2>1. KeyOf(s) \in Keys
    BY DEF Keys
  <2> QED
    BY <2>1 DEF Init
<1>2. ASSUME NEW p \in {Page[s] : s \in Sources}
      PROVE  [c \in ConfigMaps |-> rules[c][KeyOf(Owner(p))]] = [c \in ConfigMaps |-> None]
  <2>1. Owner(p) \in Sources
    BY DEF Owner
  <2> QED
    BY <1>1, <2>1
<1>3. Book = [p \in {Page[s] : s \in Sources} |-> [c \in ConfigMaps |-> None]]
  BY <1>2 DEF Book
<1> QED
  BY <1>3 DEF RB!Init, RB!Pages, Init

(* Every step is one of the book, or changes nothing of it.                *)
LEMMA RuleBookStep ==
    ASSUME ListsAreDeclared, SourcesInv, [Next]_vars
    PROVE  [RB!Next]_(RB!vars)
<1>1. ASSUME NEW s \in Sources, DeletedEvent(s)
      PROVE  RB!Next
  <2>1. RB!Strike(s)
    BY <1>1, Struck, Zenon DEF DeletedEvent, SourcesInv
  <2> QED
    BY <1>1, <2>1, Zenon DEF DeletedEvent, Seen, RB!Next, RB!Happens, RB!Delete
<1>2. ASSUME NEW s \in Sources, NEW o \in Menus[menu][s],
             ServiceEvent(s, o) \/ IngressEvent(s, o)
      PROVE  RB!Next
  <2>1. Shape /\ menu \in DOMAIN Menus
    BY DEF SourcesInv
  <2>2. RB!Withdraw(s, o) \/ RB!Ignore(s, o) \/ RB!Promise(s, o)
    <3>1. PICK m \in DOMAIN Menus : m = menu
      BY <2>1
    <3>2. o \in Menus[m][s]
      BY <3>1, Zenon
    <3>3. CASE ServiceEvent(s, o)
      BY <2>1, <3>2, <3>3, ServiceStep, Zenon
    <3>4. CASE IngressEvent(s, o)
      BY <2>1, <3>2, <3>4, IngressStep, Zenon
    <3> QED
      BY <1>2, <3>3, <3>4
  <2>3. RB!Happens(s, o)
    BY <1>2, Zenon DEF ServiceEvent, IngressEvent, Seen, RB!Happens
  <2>4. o \in Offers[s]
    BY <2>1 DEF Offers
  <2> QED
    BY <2>2, <2>3, <2>4, Zenon DEF RB!Next
<1>3. CASE UNCHANGED vars
  <2>1. rules' = rules /\ event' = event
    BY <1>3 DEF vars
  <2> QED
    BY <2>1, BookSame DEF RB!vars
<1>4. CASE Next
  BY <1>1, <1>2, <1>4, Zenon DEF Next
<1> QED
  BY <1>3, <1>4, Zenon

(* Sources implements RuleBook: if the lists that the callbacks compute    *)
(* are those which the objects declare, then every event does to the       *)
(* ConfigMaps what the author of the object is promised, under the right   *)
(* key, in the ConfigMap of the right tunnel, and to nothing else; it      *)
(* takes out what is not wanted any more and keeps what a silent object    *)
(* had.                                                                    *)
THEOREM RuleBookImplemented ==
    ASSUME ListsAreDeclared
    PROVE  Spec => ImplementsRuleBook
<1>1. Init => RB!Init
  BY RuleBookInit
<1>2. SourcesInv /\ [Next]_vars => [RB!Next]_(RB!vars)
  BY RuleBookStep
<1> QED
  BY <1>1, <1>2, SourcesInvariant, PTL DEF Spec, ImplementsRuleBook, RB!Spec
=============================================================================
