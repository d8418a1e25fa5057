---------------------------- MODULE Info_proofs ----------------------------
(***************************************************************************)
(* Theorems about Info, for every instruction shaped as the decoders build *)
(* it and however its touches meet in the lists: nothing is made up, and   *)
(* nothing is lost when the registers it touches number no more than the   *)
(* list holds.                                                             *)
(***************************************************************************)
EXTENDS Info, Lists_proofs, FiniteSetTheorems, TLAPS

(***************************************************************************)
(* Touches and facts                                                       *)
(***************************************************************************)

Access == {"None", "Read", "Write", "ReadWrite"}
IsTouch(t) ==
  /\ t.mem \in BOOLEAN /\ t.acc \in Access
  /\ ~t.mem => t = Touch(t.reg, t.acc)
Touches(s) == IsList(s) /\ \A t \in ToSet(s) : IsTouch(t)
OnlyRegisters(s) == Touches(s) /\ \A t \in ToSet(s) : ~t.mem

(* The facts one touch states. *)
Says(t) ==
  IF t.mem \/ t.reg # NoReg THEN {<<t.mem, t.reg, t.idx, t.val, e>> : e \in Effects(t.acc)} ELSE {}

LEMMA TouchParts ==
  ASSUME NEW r, NEW acc
  PROVE  /\ Touch(r, acc).mem = FALSE /\ Touch(r, acc).reg = r /\ Touch(r, acc).acc = acc
         /\ Touch(r, acc).idx = NoReg /\ Touch(r, acc).val = 0
         /\ acc \in Access => IsTouch(Touch(r, acc))
BY DEF Touch, IsTouch

LEMMA FactsAre ==
  ASSUME NEW s
  PROVE  \A f : f \in FactsOf(s) <=> \E t \in ToSet(s) : f \in Says(t)
<1> DEFINE S == ToSet(s)
           F(t) == {<<t.mem, t.reg, t.idx, t.val, e>> : e \in Effects(t.acc)}
<1>1. FactsOf(s) = UNION {F(t) : t \in {u \in S : u.mem \/ u.reg # NoReg}} BY DEF FactsOf
<1>2. \A t : Says(t) = IF t.mem \/ t.reg # NoReg THEN F(t) ELSE {} BY DEF Says
<1> HIDE DEF S, F
<1>3. \A f : f \in FactsOf(s) <=> \E t \in S : f \in Says(t) BY <1>1, <1>2, Zenon
<1> QED BY <1>3 DEF S

LEMMA FactsOfNone == FactsOf(<<>>) = {}
  BY FactsAre, EmptyList

LEMMA FactsOfBoth ==
  ASSUME NEW s, IsList(s), NEW t, IsList(t)
  PROVE  FactsOf(s \o t) = FactsOf(s) \cup FactsOf(t)
<1>1. ToSet(s \o t) = ToSet(s) \cup ToSet(t) BY JoinedList
<1> QED BY <1>1, FactsAre, Zenon

LEMMA FactsOfFirst ==
  ASSUME NEW s, IsList(s), s # <<>>
  PROVE  FactsOf(s) = Says(Head(s)) \cup FactsOf(Tail(s))
<1>1. ToSet(s) = {Head(s)} \cup ToSet(Tail(s)) BY TailList
<1> QED BY <1>1, FactsAre, Zenon

LEMMA RegisterSays ==
  ASSUME NEW r, NEW acc
  PROVE  \A f : f \in Says(Touch(r, acc)) <=>
                  r # NoReg /\ \E e \in Effects(acc) : f = <<FALSE, r, NoReg, 0, e>>
<1> DEFINE t == Touch(r, acc)
           E == Effects(acc)
<1>1. t.mem = FALSE /\ t.reg = r /\ t.idx = NoReg /\ t.val = 0 /\ t.acc = acc
  BY DEF Touch
<1>2. Says(t) = IF t.mem \/ t.reg # NoReg
                THEN {<<t.mem, t.reg, t.idx, t.val, e>> : e \in Effects(t.acc)} ELSE {}
  BY DEF Says
<1> HIDE DEF t, E
<1>3. Says(t) = IF r # NoReg THEN {<<FALSE, r, NoReg, 0, e>> : e \in Effects(acc)} ELSE {}
  BY <1>1, <1>2
<1>4. \A f : f \in Says(t) <=> r # NoReg /\ \E e \in Effects(acc) : f = <<FALSE, r, NoReg, 0, e>>
  BY <1>3, Zenon
<1> QED BY <1>4 DEF t

(* OpAccess::merge joins what two accesses state. *)
LEMMA MergeEffects ==
  ASSUME NEW a \in Access, NEW b \in Access
  PROVE  /\ Merge(a, b) \in Access /\ (Merge(a, b) = "None" => a = "None" /\ b = "None")
         /\ Effects(Merge(a, b)) = Effects(a) \cup Effects(b)
BY DEF Access, Merge, Effects

LEMMA AccessEffects ==
  /\ Effects("None") = {} /\ Effects("Read") = {"read"} /\ Effects("Write") = {"write"}
  /\ Effects("ReadWrite") = {"read", "write"}
BY DEF Effects

(***************************************************************************)
(* A list of registers                                                     *)
(***************************************************************************)

(* Every register once, with an access. *)
Holds(list, max) ==
  /\ IsList(list) /\ Len(list) <= max
  /\ \A i \in 1..Len(list) :
       /\ list[i] = [reg |-> list[i].reg, acc |-> list[i].acc]
       /\ list[i].reg # NoReg /\ list[i].acc \in Access \ {"None"}
  /\ \A i, j \in 1..Len(list) : list[i].reg = list[j].reg => i = j

NamedIn(list) == {list[i].reg : i \in 1..Len(list)}

LEMMA ListFacts ==
  ASSUME NEW list, IsList(list)
  PROVE  /\ IsList(Listed(list)) /\ Len(Listed(list)) = Len(list)
         /\ \A t : t \in ToSet(Listed(list)) <=>
                     \E i \in 1..Len(list) : t = Touch(list[i].reg, list[i].acc)
         /\ \A f : f \in FactsOf(Listed(list)) <=>
                     \E i \in 1..Len(list) : f \in Says(Touch(list[i].reg, list[i].acc))
<1> DEFINE n == Len(list)
           d == Listed(list)
<1>1. n \in Nat /\ DOMAIN list = 1..n BY ListParts
<1>2. d = [i \in 1..n |-> d[i]] /\ \A i \in 1..n : d[i] = Touch(list[i].reg, list[i].acc)
  BY <1>1 DEF Listed
<1> HIDE DEF n, d
<1>3. /\ IsList(d) /\ Len(d) = n
      /\ \A t : t \in ToSet(d) <=> \E i \in 1..n : t = d[i]
  BY <1>1, <1>2, MadeList
<1>4. ASSUME NEW t PROVE t \in ToSet(d) <=> \E i \in 1..n : t = Touch(list[i].reg, list[i].acc)
  <2>1. t \in ToSet(d) <=> \E i \in 1..n : t = d[i] BY <1>3
  <2> QED BY <1>2, <2>1, Zenon
<1>5. \A f : f \in FactsOf(d) <=> \E i \in 1..n : f \in Says(Touch(list[i].reg, list[i].acc))
  BY <1>4, FactsAre, Zenon
<1> QED BY <1>3, <1>4, <1>5 DEF n, d

(* The list has r, with the effect e. *)
HasFact(list, r, e) == \E i \in 1..Len(list) : list[i].reg = r /\ e \in Effects(list[i].acc)

LEMMA ListStates ==
  ASSUME NEW max, NEW list, Holds(list, max)
  PROVE  \A f : f \in FactsOf(Listed(list)) <=>
                  \E r, e : f = <<FALSE, r, NoReg, 0, e>> /\ HasFact(list, r, e)
<1>1. \A i \in 1..Len(list) : list[i].reg # NoReg BY DEF Holds
<1>2. \A f : f \in FactsOf(Listed(list)) <=>
               \E i \in 1..Len(list) : f \in Says(Touch(list[i].reg, list[i].acc))
  BY ListFacts DEF Holds
<1>3. \A i \in 1..Len(list) : \A f : f \in Says(Touch(list[i].reg, list[i].acc)) <=>
        \E e \in Effects(list[i].acc) : f = <<FALSE, list[i].reg, NoReg, 0, e>>
  BY <1>1, RegisterSays, Zenon
<1> QED BY <1>2, <1>3, Zenon DEF HasFact

LEMMA MergedEntry ==
  ASSUME NEW max, NEW list, Holds(list, max), NEW r, NEW acc \in Access \ {"None"}, r # NoReg,
         r \in NamedIn(list)
  PROVE  LET l == AddReg(list, r, acc, max)
         IN  /\ l = [i \in 1..Len(list) |-> l[i]] /\ Len(list) \in Nat
             /\ \A i \in 1..Len(list) :
                  l[i] = IF list[i].reg = r THEN [reg |-> r, acc |-> Merge(list[i].acc, acc)]
                         ELSE list[i]
<1> DEFINE n == Len(list)
           same == {i \in DOMAIN list : list[i].reg = r}
           l == [i \in DOMAIN list |->
                  IF i \in same THEN [list[i] EXCEPT !.acc = Merge(@, acc)] ELSE list[i]]
<1>1. n \in Nat /\ DOMAIN list = 1..n BY ListParts DEF Holds
<1>2. same # {} BY <1>1 DEF NamedIn
<1>3. AddReg(list, r, acc, max) = l BY <1>2 DEF AddReg
<1>4. ASSUME NEW i \in 1..n
      PROVE  l[i] = IF list[i].reg = r THEN [reg |-> r, acc |-> Merge(list[i].acc, acc)] ELSE list[i]
  <2>1. list[i] = [reg |-> list[i].reg, acc |-> list[i].acc] BY DEF Holds
  <2>2. l[i] = IF list[i].reg = r THEN [list[i] EXCEPT !.acc = Merge(@, acc)] ELSE list[i] BY <1>1
  <2> HIDE DEF l
  <2> QED BY <2>1, <2>2
<1>5. l = [i \in 1..n |-> l[i]] BY <1>1
<1> QED
  <2> HIDE DEF l
  <2> QED BY <1>1, <1>3, <1>4, <1>5

LEMMA AddRegMerges ==
  ASSUME NEW max, NEW list, Holds(list, max), NEW r, NEW acc \in Access \ {"None"}, r # NoReg,
         r \in NamedIn(list)
  PROVE  LET l == AddReg(list, r, acc, max)
         IN  /\ Holds(l, max) /\ NamedIn(l) = NamedIn(list)
             /\ \A q, e : HasFact(l, q, e) <=>
                           HasFact(list, q, e) \/ (q = r /\ e \in Effects(acc))
<1> DEFINE n == Len(list)
           l == AddReg(list, r, acc, max)
<1>1. /\ l = [i \in 1..n |-> l[i]] /\ n \in Nat
      /\ \A i \in 1..n : l[i] = IF list[i].reg = r THEN [reg |-> r, acc |-> Merge(list[i].acc, acc)]
                                ELSE list[i]
  BY MergedEntry
<1>2. /\ IsList(list) /\ n <= max
      /\ \A i \in 1..n : /\ list[i] = [reg |-> list[i].reg, acc |-> list[i].acc]
                         /\ list[i].reg # NoReg /\ list[i].acc \in Access \ {"None"}
      /\ \A i, j \in 1..n : list[i].reg = list[j].reg => i = j
  BY DEF Holds
<1>3. PICK k \in 1..n : list[k].reg = r BY DEF NamedIn
<1> HIDE DEF l
<1>4. IsList(l) /\ Len(l) = n BY <1>1, MadeList
<1>5. ASSUME NEW i \in 1..n
      PROVE  /\ l[i].reg = list[i].reg /\ l[i] = [reg |-> l[i].reg, acc |-> l[i].acc]
             /\ l[i].acc = IF list[i].reg = r THEN Merge(list[i].acc, acc) ELSE list[i].acc
             /\ l[i].acc \in Access \ {"None"}
  <2>1. Merge(list[i].acc, acc) \in Access \ {"None"}
    <3>1. list[i].acc \in Access /\ acc \in Access /\ acc # "None" BY <1>2
    <3>2. Merge(list[i].acc, acc) \in Access BY <3>1, MergeEffects
    <3>3. Merge(list[i].acc, acc) # "None" BY <3>1, MergeEffects
    <3> QED BY <3>2, <3>3
  <2>2. CASE list[i].reg = r
    <3>1. l[i] = [reg |-> r, acc |-> Merge(list[i].acc, acc)] BY <1>1, <2>2
    <3> QED BY <2>1, <2>2, <3>1
  <2>3. CASE list[i].reg # r
    <3>1. l[i] = list[i] BY <1>1, <2>3
    <3> QED BY <1>2, <2>3, <3>1
  <2> QED BY <2>2, <2>3
<1>6. Holds(l, max)
  <2>1. \A i, j \in 1..n : l[i].reg = l[j].reg => i = j BY <1>2, <1>5
  <2>2. \A i \in 1..n : l[i].reg # NoReg BY <1>2, <1>5
  <2>3. \A i \in 1..n : l[i].acc \in Access \ {"None"} BY <1>5
  <2>4. \A i \in 1..n : l[i] = [reg |-> l[i].reg, acc |-> l[i].acc] BY <1>5
  <2> QED BY <1>2, <1>4, <2>1, <2>2, <2>3, <2>4, Zenon DEF Holds
<1>7. NamedIn(l) = NamedIn(list) BY <1>4, <1>5 DEF NamedIn
<1>8. ASSUME NEW i \in 1..n, NEW e
      PROVE  e \in Effects(l[i].acc) <=>
               e \in Effects(list[i].acc) \/ (list[i].reg = r /\ e \in Effects(acc))
  <2>1. list[i].acc \in Access /\ acc \in Access BY <1>2
  <2>2. Effects(Merge(list[i].acc, acc)) = Effects(list[i].acc) \cup Effects(acc)
    BY <2>1, MergeEffects
  <2> QED BY <1>5, <2>2
<1>9. ASSUME NEW q, NEW e
      PROVE  HasFact(l, q, e) <=> HasFact(list, q, e) \/ (q = r /\ e \in Effects(acc))
  <2>1. HasFact(l, q, e) <=> \E i \in 1..n : l[i].reg = q /\ e \in Effects(l[i].acc)
    BY <1>4 DEF HasFact
  <2>2. HasFact(list, q, e) <=> \E i \in 1..n : list[i].reg = q /\ e \in Effects(list[i].acc)
    BY DEF HasFact
  <2>3. \A i \in 1..n : l[i].reg = list[i].reg BY <1>5
  <2> QED BY <1>3, <1>8, <2>1, <2>2, <2>3, Zenon
<1> QED BY <1>6, <1>7, <1>9 DEF l

LEMMA AddRegAppends ==
  ASSUME NEW max \in Nat, NEW list, Holds(list, max), NEW r, NEW acc \in Access \ {"None"},
         r # NoReg, r \notin NamedIn(list), Len(list) < max
  PROVE  LET l == AddReg(list, r, acc, max)
         IN  /\ Holds(l, max) /\ NamedIn(l) = NamedIn(list) \cup {r}
             /\ \A q, e : HasFact(l, q, e) <=>
                           HasFact(list, q, e) \/ (q = r /\ e \in Effects(acc))
<1> DEFINE n == Len(list)
           l == Append(list, [reg |-> r, acc |-> acc])
<1>1. n \in Nat /\ DOMAIN list = 1..n BY ListParts DEF Holds
<1>2. AddReg(list, r, acc, max) = l BY <1>1 DEF AddReg, NamedIn
<1>3. /\ IsList(list) /\ n <= max
      /\ \A i \in 1..n : /\ list[i] = [reg |-> list[i].reg, acc |-> list[i].acc]
                         /\ list[i].reg # NoReg /\ list[i].acc \in Access \ {"None"}
      /\ \A i, j \in 1..n : list[i].reg = list[j].reg => i = j
  BY DEF Holds
<1>4. /\ IsList(l) /\ Len(l) = n + 1 /\ \A i \in 1..n : l[i] = list[i]
      /\ l[n + 1] = [reg |-> r, acc |-> acc]
  BY <1>3, AppendedList
<1>5. l[n + 1].reg = r /\ l[n + 1].acc = acc BY <1>4
<1>6. \A i \in 1..n : list[i].reg # r BY DEF NamedIn
<1>7. \A i \in 1..n + 1 : i \in 1..n \/ i = n + 1 BY <1>1
<1>8. n + 1 \in 1..n + 1 /\ \A i \in 1..n : i \in 1..n + 1 BY <1>1
<1> HIDE DEF l
<1>9. Holds(l, max)
  <2>1. \A i, j \in 1..n + 1 : l[i].reg = l[j].reg => i = j BY <1>3, <1>4, <1>5, <1>6, <1>7
  <2>2. \A i \in 1..n + 1 : l[i].reg # NoReg BY <1>3, <1>4, <1>5, <1>7
  <2>3. \A i \in 1..n + 1 : l[i].acc \in Access \ {"None"} BY <1>3, <1>4, <1>5, <1>7
  <2>4. \A i \in 1..n + 1 : l[i] = [reg |-> l[i].reg, acc |-> l[i].acc]
    BY <1>3, <1>4, <1>5, <1>7
  <2>5. n + 1 <= max BY <1>1
  <2> QED BY <1>4, <2>1, <2>2, <2>3, <2>4, <2>5, Zenon DEF Holds
<1>10. NamedIn(l) = NamedIn(list) \cup {r}
  <2>1. ASSUME NEW i \in 1..n + 1 PROVE l[i].reg \in NamedIn(list) \cup {r}
    BY <1>4, <1>5, <1>7 DEF NamedIn
  <2>2. ASSUME NEW i \in 1..n PROVE \E j \in 1..n + 1 : list[i].reg = l[j].reg
    BY <1>4, <1>8
  <2>3. \E j \in 1..n + 1 : r = l[j].reg BY <1>5, <1>8
  <2>4. NamedIn(l) = {l[i].reg : i \in 1..n + 1} BY <1>4 DEF NamedIn
  <2>5. \A x \in NamedIn(list) : \E j \in 1..n + 1 : x = l[j].reg BY <2>2 DEF NamedIn
  <2> QED BY <2>1, <2>3, <2>4, <2>5
<1>11. ASSUME NEW q, NEW e
       PROVE  HasFact(l, q, e) <=> HasFact(list, q, e) \/ (q = r /\ e \in Effects(acc))
  <2>1. HasFact(l, q, e) <=> \E i \in 1..n + 1 : l[i].reg = q /\ e \in Effects(l[i].acc)
    BY <1>4 DEF HasFact
  <2>2. HasFact(list, q, e) <=> \E i \in 1..n : list[i].reg = q /\ e \in Effects(list[i].acc)
    BY DEF HasFact
  <2> QED BY <1>4, <1>5, <1>7, <1>8, <2>1, <2>2, Zenon
<1> QED BY <1>2, <1>9, <1>10, <1>11

(* Recording a touch adds what it says, or nothing when the list is full of
   other registers. *)
RoomFor(list, r, acc, max) ==
  r # NoReg /\ acc # "None" /\ r \notin NamedIn(list) => Len(list) < max

LEMMA AddRegKeeps ==
  ASSUME NEW max \in Nat, NEW list, Holds(list, max), NEW r, NEW acc \in Access
  PROVE  LET l == AddReg(list, r, acc, max)
         IN  /\ Holds(l, max)
             /\ FactsOf(Listed(list)) \subseteq FactsOf(Listed(l))
             /\ FactsOf(Listed(l)) \subseteq FactsOf(Listed(list)) \cup Says(Touch(r, acc))
             /\ RoomFor(list, r, acc, max) =>
                  FactsOf(Listed(l)) = FactsOf(Listed(list)) \cup Says(Touch(r, acc))
<1> DEFINE l == AddReg(list, r, acc, max)
           Grown == \A q, e : HasFact(l, q, e) <=>
                               HasFact(list, q, e) \/ (q = r /\ e \in Effects(acc))
<1> SUFFICES /\ Holds(l, max)
             /\ FactsOf(Listed(list)) \subseteq FactsOf(Listed(l))
             /\ FactsOf(Listed(l)) \subseteq FactsOf(Listed(list)) \cup Says(Touch(r, acc))
             /\ RoomFor(list, r, acc, max) =>
                  FactsOf(Listed(l)) = FactsOf(Listed(list)) \cup Says(Touch(r, acc))
  OBVIOUS
<1>1. ASSUME r # NoReg, Holds(l, max), Grown
      PROVE  FactsOf(Listed(l)) = FactsOf(Listed(list)) \cup Says(Touch(r, acc))
  <2> HIDE DEF l
  <2>1. \A f : f \in FactsOf(Listed(l)) <=> \E q, e : f = <<FALSE, q, NoReg, 0, e>> /\ HasFact(l, q, e)
    BY <1>1, ListStates
  <2>2. \A f : f \in FactsOf(Listed(list)) <=>
                 \E q, e : f = <<FALSE, q, NoReg, 0, e>> /\ HasFact(list, q, e)
    BY ListStates
  <2>3. \A f : f \in Says(Touch(r, acc)) <=> \E e \in Effects(acc) : f = <<FALSE, r, NoReg, 0, e>>
    BY <1>1, RegisterSays, Zenon
  <2>4. ASSUME NEW f
        PROVE  f \in FactsOf(Listed(l)) <=> f \in FactsOf(Listed(list)) \/ f \in Says(Touch(r, acc))
    BY <1>1, <2>1, <2>2, <2>3, Zenon
  <2> QED BY <2>4, Zenon
<1>2. CASE r = NoReg \/ acc = "None"
  <2>1. l = list BY <1>2 DEF AddReg
  <2>2. \A f : f \notin Says(Touch(r, acc)) BY <1>2, RegisterSays, AccessEffects
  <2> HIDE DEF l
  <2> QED BY <2>1, <2>2
<1>3. CASE r # NoReg /\ acc # "None" /\ r \in NamedIn(list)
  <2>1. acc \in Access \ {"None"} BY <1>3
  <2>2. Holds(l, max) /\ Grown BY <1>3, <2>1, AddRegMerges
  <2> HIDE DEF l, Grown
  <2> QED BY <1>1, <1>3, <2>2
<1>4. CASE r # NoReg /\ acc # "None" /\ r \notin NamedIn(list) /\ Len(list) < max
  <2>1. acc \in Access \ {"None"} BY <1>4
  <2>2. Holds(l, max) /\ Grown BY <1>4, <2>1, AddRegAppends
  <2> HIDE DEF l, Grown
  <2> QED BY <1>1, <1>4, <2>2
<1>5. CASE r # NoReg /\ acc # "None" /\ r \notin NamedIn(list) /\ ~(Len(list) < max)
  <2>1. DOMAIN list = 1..Len(list) BY ListParts DEF Holds
  <2>2. l = list BY <1>5, <2>1 DEF AddReg, NamedIn
  <2> HIDE DEF l
  <2> QED BY <1>5, <2>2 DEF RoomFor
<1> QED BY <1>2, <1>3, <1>4, <1>5

LEMMA NamedInFacts ==
  ASSUME NEW max, NEW list, Holds(list, max)
  PROVE  NamedIn(list) = RegistersIn(FactsOf(Listed(list)))
<1> DEFINE F == FactsOf(Listed(list))
<1>1. \A f : f \in F <=> \E r, e : f = <<FALSE, r, NoReg, 0, e>> /\ HasFact(list, r, e)
  BY ListStates
<1> HIDE DEF F
<1>2. ASSUME NEW i \in 1..Len(list) PROVE list[i].reg \in RegistersIn(F)
  <2>1. list[i].acc \in Access \ {"None"} BY DEF Holds
  <2>2. \E e : e \in Effects(list[i].acc)
    <3> DEFINE a == list[i].acc
    <3>1. a \in Access /\ a # "None" BY <2>1
    <3> HIDE DEF a
    <3>2. \E e : e \in Effects(a) BY <3>1, AccessEffects DEF Access
    <3> QED BY <3>2 DEF a
  <2>3. PICK e : HasFact(list, list[i].reg, e) BY <2>2 DEF HasFact
  <2> DEFINE f == <<FALSE, list[i].reg, NoReg, 0, e>>
  <2>4. f \in F BY <1>1, <2>3
  <2>5. f[2] = list[i].reg /\ ~f[1] OBVIOUS
  <2> HIDE DEF f
  <2> QED BY <2>4, <2>5, Zenon DEF RegistersIn
<1>3. ASSUME NEW f \in F PROVE f[2] \in NamedIn(list)
  <2>1. PICK r, e : f = <<FALSE, r, NoReg, 0, e>> /\ HasFact(list, r, e) BY <1>1
  <2>2. f[2] = r BY <2>1
  <2>3. PICK i \in 1..Len(list) : list[i].reg = r BY <2>1 DEF HasFact
  <2> QED BY <2>2, <2>3 DEF NamedIn
<1> QED BY <1>2, <1>3 DEF NamedIn, RegistersIn, F

(***************************************************************************)
(* What one operand touches                                                *)
(***************************************************************************)

(* Never the flags; and r, with an access. *)
NoFlags(s) == \A t \in ToSet(s) : t.mem \/ t.reg # Nzcv
Shows(s, r) == \E t \in ToSet(s) : ~t.mem /\ t.reg = r /\ t.acc # "None"

LEMMA NoTouches == OnlyRegisters(<<>>) /\ NoFlags(<<>>)
  BY EmptyList DEF OnlyRegisters, Touches, NoFlags

LEMMA OneTouch ==
  ASSUME NEW t
  PROVE  IsList(<<t>>) /\ ToSet(<<t>>) = {t}
<1> DEFINE s == <<t>>
<1>1. s = [i \in 1..1 |-> s[i]] /\ s[1] = t /\ 1 \in Nat OBVIOUS
<1> HIDE DEF s
<1>2. IsList(s) /\ \A e : e \in ToSet(s) <=> \E i \in 1..1 : e = s[i] BY <1>1, MadeList
<1>3. \A i : i \in 1..1 <=> i = 1 OBVIOUS
<1>4. ToSet(s) = {t} BY <1>1, <1>2, <1>3
<1> QED BY <1>2, <1>4 DEF s

LEMMA TwoTouches ==
  ASSUME NEW t, NEW u
  PROVE  IsList(<<t, u>>) /\ ToSet(<<t, u>>) = {t, u}
<1> DEFINE s == <<t, u>>
<1>1. s = [i \in 1..2 |-> s[i]] /\ s[1] = t /\ s[2] = u /\ 2 \in Nat OBVIOUS
<1> HIDE DEF s
<1>2. IsList(s) /\ \A e : e \in ToSet(s) <=> \E i \in 1..2 : e = s[i] BY <1>1, MadeList
<1>3. \A i : i \in 1..2 <=> i = 1 \/ i = 2 OBVIOUS
<1>4. ToSet(s) = {t, u} BY <1>1, <1>2, <1>3
<1> QED BY <1>2, <1>4 DEF s

LEMMA ThreeTouches ==
  ASSUME NEW t, NEW u, NEW v
  PROVE  IsList(<<t, u, v>>) /\ ToSet(<<t, u, v>>) = {t, u, v}
<1> DEFINE s == <<t, u, v>>
<1>1. s = [i \in 1..3 |-> s[i]] /\ s[1] = t /\ s[2] = u /\ s[3] = v /\ 3 \in Nat OBVIOUS
<1> HIDE DEF s
<1>2. IsList(s) /\ \A e : e \in ToSet(s) <=> \E i \in 1..3 : e = s[i] BY <1>1, MadeList
<1>3. \A i : i \in 1..3 <=> i = 1 \/ i = 2 \/ i = 3 OBVIOUS
<1>4. ToSet(s) = {t, u, v} BY <1>1, <1>2, <1>3
<1> QED BY <1>2, <1>4 DEF s

(* A touch of a register. *)
LEMMA TouchShows ==
  ASSUME NEW s, NEW r, NEW acc, Touch(r, acc) \in ToSet(s), acc # "None"
  PROVE  Shows(s, r)
<1>1. Touch(r, acc).mem = FALSE /\ Touch(r, acc).reg = r /\ Touch(r, acc).acc = acc BY TouchParts
<1> QED BY <1>1 DEF Shows

LEMMA Registers1 ==
  ASSUME NEW r, r # Nzcv, NEW acc \in Access
  PROVE  LET s == <<Touch(r, acc)>>
         IN  OnlyRegisters(s) /\ NoFlags(s) /\ (acc # "None" => Shows(s, r))
<1> DEFINE t == Touch(r, acc)
<1>1. IsTouch(t) /\ t.mem = FALSE /\ t.reg = r BY TouchParts
<1>2. IsList(<<t>>) /\ ToSet(<<t>>) = {t} BY OneTouch
<1>3. acc # "None" => Shows(<<t>>, r) BY <1>2, TouchShows
<1> HIDE DEF t
<1>4. OnlyRegisters(<<t>>) /\ NoFlags(<<t>>) BY <1>1, <1>2 DEF OnlyRegisters, Touches, NoFlags
<1> QED BY <1>3, <1>4 DEF t

LEMMA Registers2 ==
  ASSUME NEW r, r # Nzcv, NEW acc \in Access, NEW q, q # Nzcv, NEW b \in Access
  PROVE  LET s == <<Touch(r, acc), Touch(q, b)>>
         IN  /\ OnlyRegisters(s) /\ NoFlags(s)
             /\ (acc # "None" => Shows(s, r)) /\ (b # "None" => Shows(s, q))
<1> DEFINE t == Touch(r, acc)
           u == Touch(q, b)
<1>1. IsTouch(t) /\ t.mem = FALSE /\ t.reg = r /\ IsTouch(u) /\ u.mem = FALSE /\ u.reg = q
  BY TouchParts
<1>2. IsList(<<t, u>>) /\ ToSet(<<t, u>>) = {t, u} BY TwoTouches
<1>3. (acc # "None" => Shows(<<t, u>>, r)) /\ (b # "None" => Shows(<<t, u>>, q))
  BY <1>2, TouchShows
<1> HIDE DEF t, u
<1>4. OnlyRegisters(<<t, u>>) /\ NoFlags(<<t, u>>)
  BY <1>1, <1>2 DEF OnlyRegisters, Touches, NoFlags
<1> QED BY <1>3, <1>4 DEF t, u

LEMMA GroupTouches ==
  ASSUME NEW bank, bank # "Nzcv", NEW first, NEW count \in Nat, NEW stride, NEW acc \in Access
  PROVE  LET s == Group(bank, first, count, stride, acc)
         IN  /\ OnlyRegisters(s) /\ NoFlags(s)
             /\ acc # "None" =>
                  \A i \in 0..(count - 1) : Shows(s, <<bank, (first + i * stride) % 32>>)
<1> DEFINE s == Group(bank, first, count, stride, acc)
           r(i) == <<bank, (first + (i - 1) * stride) % 32>>
<1>1. s = [i \in 1..count |-> s[i]] /\ \A i \in 1..count : s[i] = Touch(r(i), acc) BY DEF Group
<1>2. \A i : r(i) # Nzcv BY DEF Nzcv
<1> HIDE DEF s
<1>3. IsList(s) /\ \A e : e \in ToSet(s) <=> \E i \in 1..count : e = s[i] BY <1>1, MadeList
<1> SUFFICES /\ OnlyRegisters(s) /\ NoFlags(s)
             /\ acc # "None" =>
                  \A i \in 0..(count - 1) : Shows(s, <<bank, (first + i * stride) % 32>>)
  BY DEF s
<1>4. ASSUME NEW t \in ToSet(s) PROVE IsTouch(t) /\ t.mem = FALSE /\ t.reg # Nzcv
  <2> HIDE DEF r
  <2>1. PICK i \in 1..count : t = Touch(r(i), acc) BY <1>1, <1>3
  <2> DEFINE q == r(i)
  <2>2. t = Touch(q, acc) /\ q # Nzcv BY <1>2, <2>1
  <2> HIDE DEF q
  <2> QED BY <2>2, TouchParts
<1>5. ASSUME acc # "None", NEW i \in 0..(count - 1)
      PROVE  Shows(s, <<bank, (first + i * stride) % 32>>)
  <2> DEFINE k == i + 1
  <2>1. k \in 1..count /\ k - 1 = i OBVIOUS
  <2> HIDE DEF k
  <2>2. s[k] = Touch(<<bank, (first + i * stride) % 32>>, acc)
    <3>1. s[k] = Touch(r(k), acc) BY <1>1, <2>1
    <3>2. r(k) = <<bank, (first + i * stride) % 32>> BY <2>1
    <3> HIDE DEF r
    <3> QED BY <3>1, <3>2
  <2>3. s[k] \in ToSet(s) BY <1>3, <2>1
  <2> QED BY <1>5, <2>2, <2>3, TouchShows
<1>6. OnlyRegisters(s) /\ NoFlags(s) BY <1>3, <1>4 DEF OnlyRegisters, Touches, NoFlags
<1> QED BY <1>5, <1>6

(* The register a memory operand indexes with is not one of those. *)
LEMMA OperandRegsTouch ==
  ASSUME NEW o, ShapedOperand(o), NEW acc \in Access
  PROVE  LET s == OperandRegs(o, acc)
         IN  /\ OnlyRegisters(s) /\ NoFlags(s)
             /\ o.kind \notin MemKinds /\ acc # "None" => \A r \in RegistersOf(o) : Shows(s, r)
<1> DEFINE s == OperandRegs(o, acc)
           Good == /\ OnlyRegisters(s) /\ NoFlags(s)
                   /\ o.kind \notin MemKinds /\ acc # "None" => \A r \in RegistersOf(o) : Shows(s, r)
<1> SUFFICES Good OBVIOUS
<1>1. o.reg # Nzcv /\ o.idx # Nzcv
  <2>1. BankOf(Nzcv) = "Nzcv" BY DEF BankOf, Nzcv
  <2> QED BY <2>1 DEF ShapedOperand
<1>2. Za # Nzcv /\ Zt0 # Nzcv /\ "Read" \in Access /\ "Read" # "None"
  BY DEF Za, Zt0, Nzcv, Access
<1>3. CASE o.kind \in {"Reg", "RegBang", "PredCounter"}
  <2>1. s = <<Touch(o.reg, acc)>> BY <1>3 DEF OperandRegs
  <2>2. RegistersOf(o) \subseteq {o.reg}
    BY <1>3 DEF RegistersOf, ShapedOperand, IsPair, GroupKinds
  <2> HIDE DEF s
  <2> QED BY <1>1, <2>1, <2>2, Registers1
<1>4. CASE o.kind = "MultiReg"
  <2>1. s = Group(BankOf(o.reg), NumberOf(o.reg), o.val, 1, acc) BY <1>4 DEF OperandRegs
  <2>2. RegistersOf(o) = {<<BankOf(o.reg), (NumberOf(o.reg) + i) % 32>> : i \in 0..(o.val - 1)}
    BY <1>4 DEF RegistersOf
  <2>3. o.val \in Nat /\ BankOf(o.reg) # "Nzcv" BY <1>4 DEF ShapedOperand, GroupKinds
  <2> HIDE DEF s
  <2>4. /\ OnlyRegisters(s) /\ NoFlags(s)
        /\ acc # "None" => \A i \in 0..(o.val - 1) :
             Shows(s, <<BankOf(o.reg), (NumberOf(o.reg) + i * 1) % 32>>)
    BY <2>1, <2>3, GroupTouches
  <2>5. \A i \in 0..(o.val - 1) : i * 1 = i BY <2>3
  <2> QED BY <2>2, <2>4, <2>5
<1>5. CASE o.kind = "SveVecGroup"
  <2>1. s = Group("Z", NumberOf(o.reg), o.val, o.dec[1], acc) BY <1>5 DEF OperandRegs
  <2>2. RegistersOf(o) = {<<"Z", (NumberOf(o.reg) + i * o.dec[1]) % 32>> : i \in 0..(o.val - 1)}
    BY <1>5 DEF RegistersOf
  <2>3. o.val \in Nat BY <1>5 DEF ShapedOperand, GroupKinds
  <2> HIDE DEF s
  <2>4. /\ OnlyRegisters(s) /\ NoFlags(s)
        /\ acc # "None" => \A i \in 0..(o.val - 1) :
             Shows(s, <<"Z", (NumberOf(o.reg) + i * o.dec[1]) % 32>>)
    BY <2>1, <2>3, GroupTouches
  <2> QED BY <2>2, <2>4
<1>6. CASE IsPair(o)
  <2>1. s = <<Touch(o.reg, acc), Touch(o.idx, acc)>> BY <1>6 DEF OperandRegs, IsPair
  <2>2. RegistersOf(o) \subseteq {o.reg, o.idx} BY <1>6 DEF RegistersOf, IsPair
  <2> HIDE DEF s
  <2> QED BY <1>1, <2>1, <2>2, Registers2
<1>7. CASE o.kind = "IndexedElement"
  <2>1. s = <<Touch(o.reg, acc), Touch(o.idx, "Read")>> BY <1>7 DEF OperandRegs
  <2>2. RegistersOf(o) \subseteq {o.reg, o.idx} BY <1>7 DEF RegistersOf
  <2> HIDE DEF s
  <2> QED BY <1>1, <1>2, <2>1, <2>2, Registers2
<1>8. CASE o.kind \in {"SmeTileSlice", "SmeZaSlice"}
  <2>1. s = <<Touch(o.reg, "Read"), Touch(Za, acc)>> BY <1>8 DEF OperandRegs
  <2>2. RegistersOf(o) \subseteq {o.reg}
    BY <1>8 DEF RegistersOf, ShapedOperand, IsPair, GroupKinds
  <2> HIDE DEF s
  <2> QED BY <1>1, <1>2, <2>1, <2>2, Registers2
<1>9. CASE o.kind \in {"SmeTile", "SmeZaMask", "SmeZt0Index"}
  <2>1. PICK q \in {Za, Zt0} : s = <<Touch(q, acc)>> BY <1>9 DEF OperandRegs
  <2>2. RegistersOf(o) = {}
    BY <1>9 DEF RegistersOf, ShapedOperand, IsPair, OneRegister, GroupKinds, MemKinds
  <2> HIDE DEF s
  <2> QED BY <1>2, <2>1, <2>2, Registers1
<1>10. CASE /\ o.kind \notin {"Reg", "RegBang", "PredCounter", "MultiReg", "SveVecGroup",
                               "IndexedElement", "SmeTileSlice", "SmeZaSlice", "SmeTile",
                               "SmeZaMask", "SmeZt0Index"}
            /\ ~IsPair(o)
  <2>1. s = <<>> BY <1>10 DEF OperandRegs, IsPair
  <2>2. o.kind \notin MemKinds => RegistersOf(o) = {}
    BY <1>10 DEF RegistersOf, ShapedOperand, OneRegister, GroupKinds, MemKinds
  <2> HIDE DEF s
  <2> QED BY <2>1, <2>2, NoTouches
<1> QED BY <1>3, <1>4, <1>5, <1>6, <1>7, <1>8, <1>9, <1>10

(* The base, the index and the location. *)
LEMMA MemoryTouchesTouch ==
  ASSUME NEW o, ShapedOperand(o), NEW acc \in Access
  PROVE  LET s == MemoryTouches(o, acc)
         IN  /\ Touches(s) /\ NoFlags(s)
             /\ o.kind \in MemKinds => \A r \in RegistersOf(o) : Shows(s, r)
<1> DEFINE s == MemoryTouches(o, acc)
           Good == /\ Touches(s) /\ NoFlags(s)
                   /\ o.kind \in MemKinds => \A r \in RegistersOf(o) : Shows(s, r)
<1> SUFFICES Good OBVIOUS
<1>1. o.reg # Nzcv /\ o.idx # Nzcv
  <2>1. BankOf(Nzcv) = "Nzcv" BY DEF BankOf, Nzcv
  <2> QED BY <2>1 DEF ShapedOperand
<1>2. \A i, v : TouchMem(o.reg, i, v, acc).mem = TRUE /\ TouchMem(o.reg, i, v, acc).acc = acc
  BY DEF TouchMem
<1>3. \A i, v : IsTouch(TouchMem(o.reg, i, v, acc)) BY <1>2 DEF IsTouch
<1>4. CASE o.kind = "MemImm"
  <2> DEFINE b == IF o.dec[1] \in Writeback THEN "ReadWrite" ELSE "Read"
             t == Touch(o.reg, b)
             u == TouchMem(o.reg, NoReg, o.val, acc)
  <2>1. s = <<t, u>> BY <1>4 DEF MemoryTouches
  <2>2. RegistersOf(o) \subseteq {o.reg}
    BY <1>4 DEF RegistersOf, ShapedOperand, IsPair, GroupKinds
  <2>3. b \in Access /\ b # "None" BY DEF Access
  <2>4. u.mem = TRUE /\ IsTouch(u) BY <1>2, <1>3
  <2> HIDE DEF s, b, u
  <2>5. IsTouch(t) /\ t.mem = FALSE /\ t.reg = o.reg BY <2>3, TouchParts
  <2>6. IsList(s) /\ ToSet(s) = {t, u} BY <2>1, TwoTouches
  <2>7. Shows(s, o.reg) BY <2>3, <2>6, TouchShows
  <2> HIDE DEF t
  <2>8. Touches(s) /\ NoFlags(s) BY <1>1, <2>4, <2>5, <2>6 DEF Touches, NoFlags
  <2> QED BY <2>2, <2>7, <2>8
<1>5. CASE o.kind \in {"MemExt", "SveMem"}
  <2> DEFINE t == Touch(o.reg, "Read")
             w == Touch(o.idx, "Read")
             u == TouchMem(o.reg, o.idx, IF o.kind = "SveMem" THEN o.val ELSE 0, acc)
  <2>1. s = <<t, w, u>> BY <1>5 DEF MemoryTouches
  <2>2. RegistersOf(o) \subseteq {o.reg, o.idx} BY <1>5 DEF RegistersOf
  <2>3. "Read" \in Access /\ "Read" # "None" BY DEF Access
  <2>4. u.mem = TRUE /\ IsTouch(u) BY <1>2, <1>3
  <2> HIDE DEF s, u
  <2>5. /\ IsTouch(t) /\ t.mem = FALSE /\ t.reg = o.reg
        /\ IsTouch(w) /\ w.mem = FALSE /\ w.reg = o.idx
    <3>1. \A r : LET k == Touch(r, "Read") IN IsTouch(k) /\ k.mem = FALSE /\ k.reg = r
      BY <2>3, TouchParts
    <3> QED BY <3>1
  <2>6. IsList(s) /\ ToSet(s) = {t, w, u} BY <2>1, ThreeTouches
  <2>7. Shows(s, o.reg) /\ Shows(s, o.idx) BY <2>3, <2>6, TouchShows
  <2> HIDE DEF t, w
  <2>8. Touches(s) /\ NoFlags(s) BY <1>1, <2>4, <2>5, <2>6 DEF Touches, NoFlags
  <2> QED BY <2>2, <2>7, <2>8
<1>6. CASE o.kind \notin MemKinds
  <2>1. s = <<>> BY <1>6 DEF MemoryTouches, MemKinds
  <2> HIDE DEF s
  <2> QED BY <1>6, <2>1, NoTouches DEF OnlyRegisters
<1> QED BY <1>4, <1>5, <1>6 DEF MemKinds

(***************************************************************************)
(* What the operands touch                                                 *)
(***************************************************************************)

LEMMA SlotsTouch ==
  ASSUME NEW n \in Nat, NEW ss, ss = [i \in 1..n |-> ss[i]],
         \A i \in 1..n : Touches(ss[i]) /\ NoFlags(ss[i])
  PROVE  LET s == FlattenSeq(ss)
         IN  /\ Touches(s) /\ NoFlags(s)
             /\ \A i \in 1..n : \A r : Shows(ss[i], r) => Shows(s, r)
             /\ (\A i \in 1..n : OnlyRegisters(ss[i])) => OnlyRegisters(s)
<1> DEFINE s == FlattenSeq(ss)
<1>1. \A i \in 1..n : IsList(ss[i]) BY DEF Touches
<1>2. IsList(s) /\ \A e : e \in ToSet(s) <=> \E i \in 1..n : e \in ToSet(ss[i])
  BY <1>1, FlattenElements
<1> HIDE DEF s
<1>3. Touches(s) /\ NoFlags(s) BY <1>2 DEF Touches, NoFlags
<1>4. ASSUME NEW i \in 1..n, NEW r, Shows(ss[i], r) PROVE Shows(s, r)
  BY <1>2, <1>4 DEF Shows
<1>5. (\A i \in 1..n : OnlyRegisters(ss[i])) => OnlyRegisters(s)
  BY <1>2, <1>3 DEF OnlyRegisters
<1> QED BY <1>3, <1>4, <1>5 DEF s

LEMMA Slots ==
  ASSUME NEW x, Shaped(x), MAX_OPERANDS \in Nat
  PROVE  /\ x.cnt \in Nat
         /\ \A i \in 1..x.cnt : i - 1 \in Live(x) /\ ShapedOperand(OpAt(x, i - 1))
         /\ \A n \in Live(x) : n + 1 \in 1..x.cnt /\ (n + 1) - 1 = n
<1>1. x.cnt \in 0..MAX_OPERANDS /\ \A n \in Live(x) : ShapedOperand(OpAt(x, n)) BY DEF Shaped
<1>2. \A i \in 1..x.cnt : i - 1 \in Live(x) BY <1>1 DEF Live, Slot
<1>3. \A n \in Live(x) : n + 1 \in 1..x.cnt /\ (n + 1) - 1 = n BY <1>1 DEF Live, Slot
<1> QED BY <1>1, <1>2, <1>3

(* Every register an operand of x shows is touched, and the flags are not. *)
Covers(x, s) ==
  /\ Touches(s) /\ NoFlags(s)
  /\ \A n \in Live(x) : \A r \in RegistersOf(OpAt(x, n)) : Shows(s, r)

LEMMA FormCovers ==
  ASSUME NEW x, Shaped(x), MAX_OPERANDS \in Nat, NEW ss, ss = [i \in 1..x.cnt |-> ss[i]],
         \A i \in 1..x.cnt : /\ Touches(ss[i]) /\ NoFlags(ss[i])
                             /\ \A r \in RegistersOf(OpAt(x, i - 1)) : Shows(ss[i], r)
  PROVE  Covers(x, FlattenSeq(ss))
<1> DEFINE s == FlattenSeq(ss)
<1>1. x.cnt \in Nat /\ \A n \in Live(x) : n + 1 \in 1..x.cnt /\ (n + 1) - 1 = n BY Slots
<1>2. /\ Touches(s) /\ NoFlags(s)
      /\ \A i \in 1..x.cnt : \A r : Shows(ss[i], r) => Shows(s, r)
  BY <1>1, SlotsTouch
<1> HIDE DEF s
<1>3. ASSUME NEW n \in Live(x), NEW r \in RegistersOf(OpAt(x, n)) PROVE Shows(s, r)
  <2> DEFINE k == n + 1
  <2>1. k \in 1..x.cnt /\ k - 1 = n BY <1>1
  <2> HIDE DEF k
  <2>2. Shows(ss[k], r) BY <2>1
  <2> QED BY <1>2, <2>1, <2>2
<1> QED BY <1>2, <1>3 DEF Covers, s

LEMMA ReadFormCovers ==
  ASSUME NEW x, Shaped(x), MAX_OPERANDS \in Nat, MemSlots(x) = {}
  PROVE  Covers(x, FlattenSeq([i \in 1..x.cnt |-> OperandRegs(OpAt(x, i - 1), "Read")]))
<1> DEFINE ss == [i \in 1..x.cnt |-> OperandRegs(OpAt(x, i - 1), "Read")]
<1>1. ss = [i \in 1..x.cnt |-> ss[i]] OBVIOUS
<1>2. ASSUME NEW i \in 1..x.cnt
      PROVE  /\ Touches(ss[i]) /\ NoFlags(ss[i])
             /\ \A r \in RegistersOf(OpAt(x, i - 1)) : Shows(ss[i], r)
  <2> DEFINE o == OpAt(x, i - 1)
  <2>1. ss[i] = OperandRegs(o, "Read") OBVIOUS
  <2>2. ShapedOperand(o) /\ o.kind \notin MemKinds BY Slots DEF MemSlots
  <2>3. "Read" \in Access /\ "Read" # "None" BY DEF Access
  <2> HIDE DEF ss, o
  <2>4. Touches(ss[i]) /\ NoFlags(ss[i]) /\ \A r \in RegistersOf(o) : Shows(ss[i], r)
    BY <2>1, <2>2, <2>3, OperandRegsTouch DEF OnlyRegisters
  <2> QED BY <2>4 DEF o
<1> HIDE DEF ss
<1>3. Covers(x, FlattenSeq(ss)) BY <1>1, <1>2, FormCovers
<1> QED BY <1>3 DEF ss

LEMMA DataFormCovers ==
  ASSUME NEW x, Shaped(x), MAX_OPERANDS \in Nat, MemSlots(x) = {}
  PROVE  Covers(x, DataForm(x))
<1> DEFINE dest == CASE x.mnem \in NoDestination -> "Read"
                     [] x.mnem \in Accumulating \/ HasMergingPredicate(x) -> "ReadWrite"
                     [] OTHER -> "Write"
           ss == [i \in 1..x.cnt |-> OperandRegs(OpAt(x, i - 1), IF i - 1 = 0 THEN dest ELSE "Read")]
<1>1. ss = [i \in 1..x.cnt |-> ss[i]] OBVIOUS
<1>2. DataForm(x) = FlattenSeq(ss) BY DEF DataForm, EachSlot
<1>3. dest \in Access \ {"None"} BY DEF Access
<1>4. ASSUME NEW i \in 1..x.cnt
      PROVE  /\ Touches(ss[i]) /\ NoFlags(ss[i])
             /\ \A r \in RegistersOf(OpAt(x, i - 1)) : Shows(ss[i], r)
  <2> DEFINE o == OpAt(x, i - 1)
             acc == IF i - 1 = 0 THEN dest ELSE "Read"
  <2>1. ss[i] = OperandRegs(o, acc) OBVIOUS
  <2>2. ShapedOperand(o) /\ o.kind \notin MemKinds BY Slots DEF MemSlots
  <2> HIDE DEF ss, o, dest
  <2>3. acc \in Access /\ acc # "None" BY <1>3 DEF Access
  <2> HIDE DEF acc
  <2>4. Touches(ss[i]) /\ NoFlags(ss[i]) /\ \A r \in RegistersOf(o) : Shows(ss[i], r)
    BY <2>1, <2>2, <2>3, OperandRegsTouch DEF OnlyRegisters
  <2> QED BY <2>4 DEF o
<1> HIDE DEF ss
<1>5. Covers(x, FlattenSeq(ss)) BY <1>1, <1>4, FormCovers
<1> QED BY <1>2, <1>5

LEMMA MopsFormCovers ==
  ASSUME NEW x, Shaped(x), MAX_OPERANDS \in Nat, IsMopsRmw(x)
  PROVE  Covers(x, MopsForm(x))
<1> DEFINE D(o) == CASE IsMemBang(o) -> MemoryTouches(o, "ReadWrite")
                     [] o.kind = "RegBang" -> OperandRegs(o, "ReadWrite")
                     [] OTHER -> OperandRegs(o, "Read")
           ss == [i \in 1..x.cnt |-> D(OpAt(x, i - 1))]
<1>1. ss = [i \in 1..x.cnt |-> ss[i]] OBVIOUS
<1>2. MopsForm(x) = FlattenSeq(ss) BY DEF MopsForm, EachSlot
<1>3. ASSUME NEW i \in 1..x.cnt
      PROVE  /\ Touches(ss[i]) /\ NoFlags(ss[i])
             /\ \A r \in RegistersOf(OpAt(x, i - 1)) : Shows(ss[i], r)
  <2> DEFINE o == OpAt(x, i - 1)
  <2>1. ss[i] = D(o) OBVIOUS
  <2>2. ShapedOperand(o) /\ i - 1 \in Live(x) BY Slots
  <2>3. ~IsMemBang(o) => o.kind \notin MemKinds BY <2>2 DEF Shaped, MemSlots
  <2>4. /\ "Read" \in Access /\ "ReadWrite" \in Access
        /\ "Read" # "None" /\ "ReadWrite" # "None"
    BY DEF Access
  <2> HIDE DEF ss, o
  <2>5. CASE IsMemBang(o)
    <3>1. ss[i] = MemoryTouches(o, "ReadWrite") BY <2>1, <2>5 DEF IsMemBang
    <3>2. o.kind \in MemKinds BY <2>5 DEF IsMemBang, MemKinds
    <3>3. Touches(ss[i]) /\ NoFlags(ss[i]) /\ \A r \in RegistersOf(o) : Shows(ss[i], r)
      BY <2>2, <2>4, <3>1, <3>2, MemoryTouchesTouch
    <3> QED BY <3>3 DEF o
  <2>6. CASE ~IsMemBang(o)
    <3>1. PICK acc \in {"Read", "ReadWrite"} : ss[i] = OperandRegs(o, acc) BY <2>1, <2>6
    <3>2. Touches(ss[i]) /\ NoFlags(ss[i]) /\ \A r \in RegistersOf(o) : Shows(ss[i], r)
      BY <2>2, <2>3, <2>4, <2>6, <3>1, OperandRegsTouch DEF OnlyRegisters
    <3> QED BY <3>2 DEF o
  <2> QED BY <2>5, <2>6
<1> HIDE DEF ss
<1>4. Covers(x, FlattenSeq(ss)) BY <1>1, <1>3, FormCovers
<1> QED BY <1>2, <1>4

LEMMA JoinedTouches ==
  ASSUME NEW s, Touches(s), NEW t, Touches(t)
  PROVE  /\ Touches(s \o t)
         /\ NoFlags(s) /\ NoFlags(t) => NoFlags(s \o t)
         /\ \A r : Shows(s, r) \/ Shows(t, r) => Shows(s \o t, r)
<1>1. IsList(s \o t) /\ ToSet(s \o t) = ToSet(s) \cup ToSet(t) BY JoinedList DEF Touches
<1> DEFINE j == s \o t
<1> HIDE DEF j
<1>2. IsList(j) /\ ToSet(j) = ToSet(s) \cup ToSet(t) BY <1>1 DEF j
<1>3. Touches(j) /\ (NoFlags(s) /\ NoFlags(t) => NoFlags(j)) BY <1>2 DEF Touches, NoFlags
<1>4. \A r : Shows(s, r) \/ Shows(t, r) => Shows(j, r) BY <1>2 DEF Shows
<1> QED BY <1>3, <1>4 DEF j

LEMMA MemoryFormCovers ==
  ASSUME NEW x, Shaped(x), MAX_OPERANDS \in Nat, NEW slot \in MemSlots(x), MemSlots(x) = {slot}
  PROVE  Covers(x, MemoryForm(x, slot))
<1> DEFINE kind == MemKind(x.mnem)
           D(i) == IF i = slot THEN <<>>
                   ELSE OperandRegs(OpAt(x, i), IF i > 0 /\ IsPredicate(OpAt(x, i)) THEN "Read"
                                                ELSE DataAccess(kind, i, slot))
           front == MemoryTouches(OpAt(x, slot), MemoryAccess(kind))
           ss == [i \in 1..x.cnt |-> D(i - 1)]
<1>1. ss = [i \in 1..x.cnt |-> ss[i]] OBVIOUS
<1>2. MemoryForm(x, slot) = front \o FlattenSeq(ss) BY DEF MemoryForm, EachSlot
<1>3. /\ x.cnt \in Nat
      /\ \A i \in 1..x.cnt : i - 1 \in Live(x) /\ ShapedOperand(OpAt(x, i - 1))
      /\ \A n \in Live(x) : n + 1 \in 1..x.cnt /\ (n + 1) - 1 = n
  BY Slots
<1>4. slot \in Live(x) /\ OpAt(x, slot).kind \in MemKinds /\ ShapedOperand(OpAt(x, slot))
  BY DEF MemSlots, Shaped
<1>5. \A k, i : /\ DataAccess(k, i, slot) \in Access /\ DataAccess(k, i, slot) # "None"
                /\ MemoryAccess(k) \in Access
  BY DEF DataAccess, MemoryAccess, Access
<1>6. Touches(front) /\ NoFlags(front) /\ \A r \in RegistersOf(OpAt(x, slot)) : Shows(front, r)
  <2> DEFINE a == MemoryAccess(kind)
  <2>1. a \in Access /\ front = MemoryTouches(OpAt(x, slot), a) BY <1>5
  <2> HIDE DEF a, front
  <2> QED BY <1>4, <2>1, MemoryTouchesTouch
<1>7. ASSUME NEW i \in 1..x.cnt
      PROVE  /\ Touches(ss[i]) /\ NoFlags(ss[i])
             /\ i - 1 # slot => \A r \in RegistersOf(OpAt(x, i - 1)) : Shows(ss[i], r)
  <2> DEFINE o == OpAt(x, i - 1)
             a == IF i - 1 > 0 /\ IsPredicate(o) THEN "Read" ELSE DataAccess(kind, i - 1, slot)
  <2>1. ss[i] = IF i - 1 = slot THEN <<>> ELSE OperandRegs(o, a) OBVIOUS
  <2>2. ShapedOperand(o) /\ i - 1 \in Live(x) BY <1>3
  <2>3. i - 1 # slot => o.kind \notin MemKinds BY <2>2 DEF MemSlots
  <2>4. a \in Access /\ a # "None"
    <3>1. "Read" \in Access /\ "Read" # "None" BY DEF Access
    <3> HIDE DEF kind
    <3> QED BY <1>5, <3>1
  <2> HIDE DEF ss, o, a
  <2>5. CASE i - 1 = slot BY <2>1, <2>5, NoTouches DEF OnlyRegisters
  <2>6. CASE i - 1 # slot
    <3>1. ss[i] = OperandRegs(o, a) BY <2>1, <2>6
    <3>2. Touches(ss[i]) /\ NoFlags(ss[i]) /\ \A r \in RegistersOf(o) : Shows(ss[i], r)
      BY <2>2, <2>3, <2>4, <2>6, <3>1, OperandRegsTouch DEF OnlyRegisters
    <3> QED BY <3>2 DEF o
  <2> QED BY <2>5, <2>6
<1> HIDE DEF ss, front
<1> DEFINE back == FlattenSeq(ss)
<1>8. /\ Touches(back) /\ NoFlags(back)
      /\ \A i \in 1..x.cnt : \A r : Shows(ss[i], r) => Shows(back, r)
  BY <1>1, <1>3, <1>7, SlotsTouch
<1> HIDE DEF back
<1>9. /\ Touches(front \o back) /\ NoFlags(front \o back)
      /\ \A r : Shows(front, r) \/ Shows(back, r) => Shows(front \o back, r)
  BY <1>6, <1>8, JoinedTouches
<1>10. ASSUME NEW n \in Live(x), NEW r \in RegistersOf(OpAt(x, n)) PROVE Shows(front \o back, r)
  <2>1. CASE n = slot BY <1>6, <1>9, <2>1
  <2>2. CASE n # slot
    <3> DEFINE k == n + 1
    <3>1. k \in 1..x.cnt /\ k - 1 = n BY <1>3
    <3> HIDE DEF k
    <3>2. Shows(ss[k], r) BY <1>7, <2>2, <3>1
    <3> QED BY <1>8, <1>9, <3>1, <3>2
  <2> QED BY <2>1, <2>2
<1>11. Covers(x, front \o back) BY <1>9, <1>10 DEF Covers
<1> QED BY <1>2, <1>11 DEF back

LEMMA OperandTouchesCover ==
  ASSUME NEW x, Shaped(x), MAX_OPERANDS \in Nat
  PROVE  Covers(x, OperandTouches(x))
<1>1. CASE IsMopsRmw(x)
  <2>1. OperandTouches(x) = MopsForm(x) BY <1>1 DEF OperandTouches
  <2> QED BY <1>1, <2>1, MopsFormCovers
<1>2. CASE ~IsMopsRmw(x) /\ MemSlots(x) # {}
  <2>1. PICK slot \in MemSlots(x) : MemSlots(x) = {slot} BY <1>2 DEF Shaped
  <2>2. slot \in Int BY <2>1 DEF MemSlots, Live, Slot
  <2>3. Min(MemSlots(x)) = slot BY <2>1, <2>2 DEF Min
  <2>4. OperandTouches(x) = MemoryForm(x, slot) BY <1>2, <2>3 DEF OperandTouches
  <2> QED BY <2>1, <2>4, MemoryFormCovers
<1>3. CASE ~IsMopsRmw(x) /\ MemSlots(x) = {} /\ FlowControl(x) # "Next"
  <2>1. OperandTouches(x) = FlattenSeq([i \in 1..x.cnt |-> OperandRegs(OpAt(x, i - 1), "Read")])
    BY <1>3 DEF OperandTouches, EachSlot
  <2> QED BY <1>3, <2>1, ReadFormCovers
<1>4. CASE ~IsMopsRmw(x) /\ MemSlots(x) = {} /\ FlowControl(x) = "Next"
  <2>1. OperandTouches(x) = DataForm(x) BY <1>4 DEF OperandTouches
  <2> QED BY <1>4, <2>1, DataFormCovers
<1> QED BY <1>1, <1>2, <1>3, <1>4

(***************************************************************************)
(* What is touched without an operand                                      *)
(***************************************************************************)

(* At most k registers, none of them the flags. *)
Few(s, k) == OnlyRegisters(s) /\ NoFlags(s) /\ Len(s) <= k

LEMMA FewNone == \A k \in Nat : Few(<<>>, k)
  BY NoTouches, EmptyList DEF Few

LEMMA FewOne ==
  ASSUME NEW r, r # Nzcv, NEW acc \in Access
  PROVE  Few(<<Touch(r, acc)>>, 1)
<1> DEFINE s == <<Touch(r, acc)>>
<1>1. OnlyRegisters(s) /\ NoFlags(s) BY Registers1
<1>2. Len(s) = 1 OBVIOUS
<1> HIDE DEF s
<1>3. Few(s, 1) BY <1>1, <1>2 DEF Few
<1> QED BY <1>3 DEF s

LEMMA FewTwo ==
  ASSUME NEW r, r # Nzcv, NEW acc \in Access, NEW q, q # Nzcv, NEW b \in Access
  PROVE  Few(<<Touch(r, acc), Touch(q, b)>>, 2)
<1> DEFINE s == <<Touch(r, acc), Touch(q, b)>>
<1>1. OnlyRegisters(s) /\ NoFlags(s) BY Registers2
<1>2. Len(s) = 2 OBVIOUS
<1> HIDE DEF s
<1>3. Few(s, 2) BY <1>1, <1>2 DEF Few
<1> QED BY <1>3 DEF s

LEMMA FewBoth ==
  ASSUME NEW j \in Nat, NEW k \in Nat, NEW s, Few(s, j), NEW t, Few(t, k)
  PROVE  Few(s \o t, j + k)
<1> DEFINE c == s \o t
<1>1. IsList(s) /\ IsList(t) BY DEF Few, OnlyRegisters, Touches
<1>2. ToSet(c) = ToSet(s) \cup ToSet(t) /\ Len(c) = Len(s) + Len(t) BY <1>1, JoinedList
<1>3. Touches(c) /\ NoFlags(c) BY JoinedTouches DEF Few, OnlyRegisters
<1>4. Len(s) \in Nat /\ Len(t) \in Nat BY <1>1, ListParts
<1> HIDE DEF c
<1>5. Len(c) <= j + k BY <1>2, <1>4 DEF Few
<1>6. OnlyRegisters(c) BY <1>2, <1>3 DEF Few, OnlyRegisters
<1> QED BY <1>3, <1>5, <1>6 DEF Few, c

LEMMA PlainRegisters ==
  /\ \A n : X(n) # Nzcv
  /\ Sp # Nzcv /\ Ffr # Nzcv /\ Za # Nzcv /\ Pc # Nzcv
  /\ Nzcv # NoReg
  BY DEF X, Sp, Ffr, Za, Pc, Nzcv, Gp, GpSp, Op, RegOp, NoReg

LEMMA Accesses3 == "Read" \in Access /\ "Write" \in Access /\ "ReadWrite" \in Access /\ "None" \in Access
  BY DEF Access

LEMMA LinkFew == \A x : Few(LinkTouches(x), 1)
<1> TAKE x
<1> DEFINE w == <<Touch(X(30), "Write")>>
           r == <<Touch(X(30), "Read")>>
           A == FlowControl(x) \in {"Call", "IndirectCall"}
           B == (x.mnem = <<"Ret">> /\ x.cnt = 0) \/ x.mnem \in LinkReturns \/ x.mnem[1] = "RetSppc"
<1>1. LinkTouches(x) = CASE A -> w [] B -> r [] OTHER -> <<>> BY DEF LinkTouches
<1>2. Few(w, 1) /\ Few(r, 1) /\ Few(<<>>, 1) BY FewNone, FewOne, PlainRegisters, Accesses3
<1> HIDE DEF w, r, A, B
<1>3. LinkTouches(x) = w \/ LinkTouches(x) = r \/ LinkTouches(x) = <<>> BY <1>1
<1> QED BY <1>2, <1>3

LEMMA PauthFew == \A m : Few(PauthTouches(m), 2)
<1> TAKE m
<1> DEFINE a == <<Touch(X(30), "ReadWrite"), Touch(Sp, "Read")>>
           b == <<Touch(X(30), "ReadWrite")>>
           c == <<Touch(X(17), "ReadWrite"), Touch(X(16), "Read")>>
           d == <<Touch(Sp, "Read")>>
           A == m \in SignWithSp \/ m[1] = "AutiSppc"
           B == m \in SignWithZero
           C == m \in SignX17
           D == m \in ReturnsAuthenticated \/ m[1] = "RetSppc"
<1>1. PauthTouches(m) = CASE A -> a [] B -> b [] C -> c [] D -> d [] OTHER -> <<>>
  BY DEF PauthTouches
<1>2. Few(a, 2) /\ Few(c, 2) BY FewTwo, PlainRegisters, Accesses3
<1>3. Few(b, 1) /\ Few(d, 1) BY FewOne, PlainRegisters, Accesses3
<1>4. Few(<<>>, 2) BY FewNone
<1> HIDE DEF a, b, c, d, A, B, C, D
<1>5. Few(b, 2) /\ Few(d, 2)
  <2>1. Len(b) \in Nat /\ Len(d) \in Nat BY <1>3, ListParts DEF Few, OnlyRegisters, Touches
  <2> QED BY <1>3, <2>1 DEF Few
<1>6. PauthTouches(m) = a \/ PauthTouches(m) = b \/ PauthTouches(m) = c \/ PauthTouches(m) = d
        \/ PauthTouches(m) = <<>>
  BY <1>1
<1> QED BY <1>2, <1>4, <1>5, <1>6

LEMMA FfrFew == \A m : Few(FfrTouches(m), 1)
<1> TAKE m
<1> DEFINE a == <<Touch(Ffr, "ReadWrite")>>
           b == <<Touch(Ffr, "Read")>>
           c == <<Touch(Ffr, "Write")>>
           A == m \in FirstFaulting
           B == m \in ReadFfr
           C == m[1] \in {"Setffr", "Wrffr"}
<1>1. FfrTouches(m) = CASE A -> a [] B -> b [] C -> c [] OTHER -> <<>> BY DEF FfrTouches
<1>2. Few(a, 1) /\ Few(b, 1) /\ Few(c, 1) /\ Few(<<>>, 1)
  BY FewNone, FewOne, PlainRegisters, Accesses3
<1> HIDE DEF a, b, c, A, B, C
<1>3. FfrTouches(m) = a \/ FfrTouches(m) = b \/ FfrTouches(m) = c \/ FfrTouches(m) = <<>>
  BY <1>1
<1> QED BY <1>2, <1>3

LEMMA SmeFew == \A x : Few(SmeTouches(x), 1)
<1>1. Few(<<Touch(Za, "Write")>>, 1) /\ Few(<<>>, 1) BY FewNone, FewOne, PlainRegisters, Accesses3
<1> QED BY <1>1 DEF SmeTouches

LEMMA PcFew == \A x : Few(PcTouches(x), 1)
<1> TAKE x
<1> DEFINE a == <<Touch(Pc, "Read")>>
           A == FoldsPc(x.mnem) \/ (FlowControl(x) = "Next" /\ \E n \in Live(x) : OpAt(x, n).kind = "Label")
<1>1. PcTouches(x) = IF A THEN a ELSE <<>> BY DEF PcTouches
<1>2. Few(a, 1) /\ Few(<<>>, 1) BY FewNone, FewOne, PlainRegisters, Accesses3
<1> HIDE DEF a, A
<1> QED BY <1>1, <1>2

LEMMA GroupFew ==
  ASSUME NEW n, NEW acc \in Access
  PROVE  /\ Few(Ls64Group(n, acc), 7)
         /\ acc # "None" => \A i \in 1..7 : Touch(X(n + i), acc) \in ToSet(Ls64Group(n, acc))
<1> DEFINE s == Ls64Group(n, acc)
<1>1. s = [i \in 1..7 |-> s[i]] /\ \A i \in 1..7 : s[i] = Touch(X(n + i), acc) BY DEF Ls64Group
<1> HIDE DEF s
<1>2. 7 \in Nat OBVIOUS
<1>3. IsList(s) /\ Len(s) = 7 /\ \A e : e \in ToSet(s) <=> \E i \in 1..7 : e = s[i]
  BY <1>1, <1>2, MadeList
<1>4. ASSUME NEW t \in ToSet(s) PROVE IsTouch(t) /\ t.mem = FALSE /\ t.reg # Nzcv
  <2>1. PICK i \in 1..7 : t = Touch(X(n + i), acc) BY <1>1, <1>3
  <2> DEFINE q == X(n + i)
  <2>2. t = Touch(q, acc) /\ q # Nzcv BY <2>1, PlainRegisters
  <2> HIDE DEF q
  <2> QED BY <2>2, TouchParts
<1>5. Few(s, 7)
  <2>1. Len(s) <= 7 BY <1>3
  <2>2. OnlyRegisters(s) BY <1>3, <1>4 DEF OnlyRegisters, Touches
  <2>3. NoFlags(s) BY <1>4 DEF NoFlags
  <2> QED BY <2>1, <2>2, <2>3 DEF Few
<1>6. \A i \in 1..7 : Touch(X(n + i), acc) \in ToSet(s) BY <1>1, <1>3
<1> QED BY <1>5, <1>6 DEF s

LEMMA Ls64Few == \A x : Few(Ls64Touches(x), 7) /\ (~IsLs64(x.mnem) => Ls64Touches(x) = <<>>)
<1> TAKE x
<1> DEFINE n == RegAt(x, Ls64Slot(x.mnem))
           acc == IF x.mnem = <<"Ld64b">> THEN "Write" ELSE "Read"
<1>1. Ls64Touches(x) = Ls64Group(n, acc) \/ Ls64Touches(x) = <<>> BY DEF Ls64Touches
<1>2. acc \in Access BY Accesses3
<1>3. Few(Ls64Group(n, acc), 7) /\ Few(<<>>, 7)
  <2> HIDE DEF n, acc
  <2> QED BY <1>2, GroupFew, FewNone
<1>4. ~IsLs64(x.mnem) => Ls64Touches(x) = <<>> BY DEF Ls64Touches
<1> HIDE DEF n, acc
<1> QED BY <1>1, <1>3, <1>4

(* A 64-byte transfer neither links, nor signs, nor faults first. *)
LEMMA TransfersAlone ==
  ASSUME NEW x, IsLs64(x.mnem)
  PROVE  LinkTouches(x) = <<>> /\ PauthTouches(x.mnem) = <<>> /\ FfrTouches(x.mnem) = <<>>
<1> DEFINE m == x.mnem
           k == x.mnem[1]
<1>1. k \in {"Ld64b", "St64b", "St64bv", "St64bv0"} BY DEF IsLs64
<1>2. \A S : m \in Named(S) => k \in S BY DEF Named
<1>3. \A S, T : m \in Sized(S, T) => k \in S BY DEF Sized
<1>4. m # <<"Bl">> /\ m # <<"Ret">> BY <1>1
<1>5. m \notin IndirectCalls BY <1>1, <1>2 DEF IndirectCalls
<1>6. m \notin ReturnsAuthenticated BY <1>1, <1>2 DEF ReturnsAuthenticated
<1>7. m \notin SignWithSp /\ m \notin SignWithZero /\ m \notin SignX17
  BY <1>1, <1>2 DEF SignWithSp, SignWithZero, SignX17
<1>8. m \notin FirstFaulting /\ m \notin ReadFfr BY <1>1, <1>2, <1>3 DEF FirstFaulting, ReadFfr
<1>9. FlowControl(x) \notin {"Call", "IndirectCall"}
  <2> DEFINE A == m \in DirectConditional \/ k \in CompareBranches
             B == m \in IndirectBranches
             C == m \in Returns \/ k = "RetSppc"
             D == m \in Exceptions
             e == IF x.code = <<"B", "cond">> THEN "ConditionalBranch" ELSE "UnconditionalBranch"
  <2>1. e \notin {"Call", "IndirectCall"} OBVIOUS
  <2>2. FlowControl(x) = CASE m = <<"B">> -> e [] A -> "ConditionalBranch" [] m = <<"Bl">> -> "Call"
                           [] m \in IndirectCalls -> "IndirectCall" [] B -> "IndirectBranch"
                           [] C -> "Return" [] D -> "Exception" [] OTHER -> "Next"
    BY DEF FlowControl
  <2> HIDE DEF A, B, C, D, e, m
  <2> QED BY <1>4, <1>5, <2>1, <2>2
<1>10. k # "RetSppc" /\ k # "AutiSppc" /\ k \notin {"Setffr", "Wrffr"} BY <1>1
<1> HIDE DEF m, k
<1>11. LinkTouches(x) = <<>> BY <1>4, <1>6, <1>9, <1>10 DEF LinkTouches, LinkReturns, m, k
<1>12. PauthTouches(m) = <<>> BY <1>6, <1>7, <1>10 DEF PauthTouches, k, m
<1>13. FfrTouches(m) = <<>> BY <1>8, <1>10 DEF FfrTouches, k, m
<1> QED BY <1>11, <1>12, <1>13 DEF m

(* What is touched besides the flags. *)
Unspoken(x) ==
  LinkTouches(x) \o PauthTouches(x.mnem) \o Ls64Touches(x) \o FfrTouches(x.mnem) \o SmeTouches(x)
    \o PcTouches(x)
FlagTouch(x) == Touch(Nzcv, NzcvAccess(ReadsFlags(x), WritesFlags(x)))

LEMMA JoinsAgain ==
  ASSUME NEW p, IsList(p), NEW q, IsList(q), NEW r, IsList(r)
  PROVE  (p \o q) \o r = p \o (q \o r)
<1> DEFINE U == ToSet(p) \cup ToSet(q) \cup ToSet(r)
<1>1. ToSet(p) \subseteq U /\ ToSet(q) \subseteq U /\ ToSet(r) \subseteq U OBVIOUS
<1> HIDE DEF U
<1>2. p \in Seq(U) /\ q \in Seq(U) /\ r \in Seq(U) BY <1>1, SeqMonotonic DEF IsList
<1> QED BY <1>2, Assoc

LEMMA ImplicitParts ==
  ASSUME NEW x
  PROVE  /\ ImplicitTouches(x) = <<FlagTouch(x)>> \o Unspoken(x)
         /\ Few(Unspoken(x), MAX_IMPLICIT_REGS - 1)
         /\ NzcvAccess(ReadsFlags(x), WritesFlags(x)) \in Access
         /\ \A t \in ToSet(Ls64Touches(x)) : t \in ToSet(Unspoken(x))
<1> DEFINE a == <<FlagTouch(x)>>
           b == LinkTouches(x)
           c == PauthTouches(x.mnem)
           d == Ls64Touches(x)
           e == FfrTouches(x.mnem)
           f == SmeTouches(x)
           g == PcTouches(x)
<1>1. Few(b, 1) /\ Few(c, 2) /\ Few(d, 7) /\ Few(e, 1) /\ Few(f, 1) /\ Few(g, 1)
  BY LinkFew, PauthFew, Ls64Few, FfrFew, SmeFew, PcFew
<1>2. IsLs64(x.mnem) => b = <<>> /\ c = <<>> /\ e = <<>> BY TransfersAlone
<1>3. ~IsLs64(x.mnem) => d = <<>> BY Ls64Few
<1>4. IsList(a) BY OneTouch
<1>5. ImplicitTouches(x) = a \o b \o c \o d \o e \o f \o g BY DEF ImplicitTouches, FlagTouch
<1>6. Unspoken(x) = b \o c \o d \o e \o f \o g BY DEF Unspoken
<1> HIDE DEF a, b, c, d, e, f, g
<1>7. IsList(b) /\ IsList(c) /\ IsList(d) /\ IsList(e) /\ IsList(f) /\ IsList(g)
  BY <1>1 DEF Few, OnlyRegisters, Touches
<1>8. ImplicitTouches(x) = a \o Unspoken(x)
  <2> DEFINE p2 == b \o c
             p3 == p2 \o d
             p4 == p3 \o e
             p5 == p4 \o f
  <2>0. Unspoken(x) = p5 \o g /\ ImplicitTouches(x) = a \o b \o c \o d \o e \o f \o g
    BY <1>5, <1>6
  <2>b. IsList(b) BY <1>7
  <2>c. IsList(c) BY <1>7
  <2>d. IsList(d) BY <1>7
  <2>e. IsList(e) BY <1>7
  <2>f. IsList(f) BY <1>7
  <2>g. IsList(g) BY <1>7
  <2>2. IsList(p2) BY <2>b, <2>c, JoinedList
  <2>3. IsList(p3)
    <3> HIDE DEF p2
    <3> QED BY <2>2, <2>d, JoinedList
  <2>4. IsList(p4)
    <3> HIDE DEF p3
    <3> QED BY <2>3, <2>e, JoinedList
  <2>5. IsList(p5)
    <3> HIDE DEF p4
    <3> QED BY <2>4, <2>f, JoinedList
  <2>6. (a \o b) \o c = a \o p2 BY <1>4, <2>b, <2>c, JoinsAgain
  <2>7. (a \o p2) \o d = a \o p3
    <3> HIDE DEF p2
    <3> QED BY <1>4, <2>2, <2>d, JoinsAgain
  <2>8. (a \o p3) \o e = a \o p4
    <3> HIDE DEF p3
    <3> QED BY <1>4, <2>3, <2>e, JoinsAgain
  <2>9. (a \o p4) \o f = a \o p5
    <3> HIDE DEF p4
    <3> QED BY <1>4, <2>4, <2>f, JoinsAgain
  <2>10. (a \o p5) \o g = a \o (p5 \o g)
    <3> HIDE DEF p5
    <3> QED BY <1>4, <2>5, <2>g, JoinsAgain
  <2> HIDE DEF p2, p3, p4, p5
  <2> QED BY <2>0, <2>6, <2>7, <2>8, <2>9, <2>10
<1>9. ASSUME IsLs64(x.mnem) PROVE Few(Unspoken(x), MAX_IMPLICIT_REGS - 1)
  <2>1. Few(b, 0) /\ Few(c, 0) /\ Few(e, 0) BY <1>2, <1>9, FewNone
  <2>2. Few(b \o c, 0 + 0) BY <2>1, FewBoth
  <2>3. Few(b \o c \o d, 0 + 7) BY <1>1, <2>2, FewBoth
  <2>4. Few(b \o c \o d \o e, 7 + 0) BY <2>1, <2>3, FewBoth
  <2>5. Few(b \o c \o d \o e \o f, 7 + 1) BY <1>1, <2>4, FewBoth
  <2>6. Few(b \o c \o d \o e \o f \o g, 8 + 1) BY <1>1, <2>5, FewBoth
  <2>7. 8 + 1 = MAX_IMPLICIT_REGS - 1 BY DEF MAX_IMPLICIT_REGS
  <2>8. Few(Unspoken(x), 8 + 1) BY <1>6, <2>6
  <2> QED BY <2>7, <2>8
<1>10. ASSUME ~IsLs64(x.mnem) PROVE Few(Unspoken(x), MAX_IMPLICIT_REGS - 1)
  <2>1. Few(d, 3) BY <1>3, <1>10, FewNone
  <2>2. Few(b \o c, 1 + 2) BY <1>1, FewBoth
  <2>3. Few(b \o c \o d, 3 + 3) BY <2>1, <2>2, FewBoth
  <2>4. Few(b \o c \o d \o e, 6 + 1) BY <1>1, <2>3, FewBoth
  <2>5. Few(b \o c \o d \o e \o f, 7 + 1) BY <1>1, <2>4, FewBoth
  <2>6. Few(b \o c \o d \o e \o f \o g, 8 + 1) BY <1>1, <2>5, FewBoth
  <2>7. 8 + 1 = MAX_IMPLICIT_REGS - 1 BY DEF MAX_IMPLICIT_REGS
  <2>8. Few(Unspoken(x), 8 + 1) BY <1>6, <2>6
  <2> QED BY <2>7, <2>8
<1>11. NzcvAccess(ReadsFlags(x), WritesFlags(x)) \in Access
  BY DEF NzcvAccess, Access
<1>12. ToSet(d) \subseteq ToSet(Unspoken(x))
  <2>1. IsList(b \o c) BY <1>7, JoinedList
  <2>2. IsList(b \o c \o d) /\ ToSet(d) \subseteq ToSet(b \o c \o d) BY <1>7, <2>1, JoinedList
  <2>3. IsList(b \o c \o d \o e) /\ ToSet(b \o c \o d) \subseteq ToSet(b \o c \o d \o e)
    BY <1>7, <2>2, JoinedList
  <2>4. IsList(b \o c \o d \o e \o f) /\ ToSet(b \o c \o d \o e) \subseteq ToSet(b \o c \o d \o e \o f)
    BY <1>7, <2>3, JoinedList
  <2>5. ToSet(b \o c \o d \o e \o f) \subseteq ToSet(b \o c \o d \o e \o f \o g)
    BY <1>7, <2>4, JoinedList
  <2> QED BY <1>6, <2>2, <2>3, <2>4, <2>5
<1>13. Few(Unspoken(x), MAX_IMPLICIT_REGS - 1) BY <1>9, <1>10
<1>14. \A t \in ToSet(Ls64Touches(x)) : t \in ToSet(Unspoken(x)) BY <1>12 DEF d
<1>15. ImplicitTouches(x) = <<FlagTouch(x)>> \o Unspoken(x) BY <1>8 DEF a
<1> QED BY <1>11, <1>13, <1>14, <1>15

(***************************************************************************)
(* Facts of what is touched                                                *)
(***************************************************************************)

LEMMA FactsOfImplicit ==
  ASSUME NEW x
  PROVE  FactsOf(ImplicitTouches(x)) = Says(FlagTouch(x)) \cup FactsOf(Unspoken(x))
<1>1. /\ ImplicitTouches(x) = <<FlagTouch(x)>> \o Unspoken(x)
      /\ IsList(Unspoken(x)) /\ IsList(<<FlagTouch(x)>>) /\ ToSet(<<FlagTouch(x)>>) = {FlagTouch(x)}
  BY ImplicitParts, OneTouch DEF Few, OnlyRegisters, Touches
<1>2. FactsOf(ImplicitTouches(x)) = FactsOf(<<FlagTouch(x)>>) \cup FactsOf(Unspoken(x))
  BY <1>1, FactsOfBoth
<1>3. FactsOf(<<FlagTouch(x)>>) = Says(FlagTouch(x))
  <2> DEFINE t == FlagTouch(x)
             c == <<t>>
  <2>1. ToSet(c) = {t} BY <1>1
  <2> HIDE DEF t, c
  <2>2. \A f : f \in FactsOf(c) <=> \E u \in ToSet(c) : f \in Says(u) BY FactsAre
  <2>3. FactsOf(c) = Says(t) BY <2>1, <2>2
  <2> QED BY <2>3 DEF c, t
<1> QED BY <1>2, <1>3

LEMMA ImplicitTouchesFew ==
  ASSUME NEW x
  PROVE  OnlyRegisters(ImplicitTouches(x)) /\ Len(ImplicitTouches(x)) <= MAX_IMPLICIT_REGS
<1> DEFINE t == FlagTouch(x)
           u == Unspoken(x)
           c == <<t>> \o u
<1>1. /\ ImplicitTouches(x) = c /\ Few(u, MAX_IMPLICIT_REGS - 1)
      /\ IsList(<<t>>) /\ ToSet(<<t>>) = {t} /\ Len(<<t>>) = 1
  BY ImplicitParts, OneTouch
<1>2. IsTouch(t) /\ t.mem = FALSE BY ImplicitParts, TouchParts DEF FlagTouch
<1> HIDE DEF t, u
<1>3. IsList(u) /\ \A e \in ToSet(u) : IsTouch(e) /\ ~e.mem BY <1>1 DEF Few, OnlyRegisters, Touches
<1>4. IsList(c) /\ ToSet(c) = {t} \cup ToSet(u) /\ Len(c) = 1 + Len(u) BY <1>1, <1>3, JoinedList
<1>5. Len(u) \in Nat BY <1>3, ListParts
<1> HIDE DEF c
<1>6. OnlyRegisters(c) BY <1>2, <1>3, <1>4 DEF OnlyRegisters, Touches
<1>7. Len(c) <= MAX_IMPLICIT_REGS BY <1>1, <1>4, <1>5 DEF Few, MAX_IMPLICIT_REGS
<1> QED BY <1>1, <1>6, <1>7

(* What an analysis of x is to report. *)
Due(x) == FactsOf(OperandTouches(x) \o ImplicitTouches(x))

LEMMA DueIs ==
  ASSUME NEW x, Shaped(x), MAX_OPERANDS \in Nat
  PROVE  /\ Due(x) = FactsOf(OperandTouches(x)) \cup FactsOf(ImplicitTouches(x))
         /\ IsFiniteSet(RegistersIn(Due(x)))
<1> DEFINE s == OperandTouches(x) \o ImplicitTouches(x)
           n == Len(s)
           R == {s[i].reg : i \in 1..n}
           f == [i \in 1..n |-> s[i].reg]
<1>1. IsList(OperandTouches(x)) /\ IsList(ImplicitTouches(x))
  BY OperandTouchesCover, ImplicitTouchesFew DEF Covers, OnlyRegisters, Touches
<1>2. Due(x) = FactsOf(OperandTouches(x)) \cup FactsOf(ImplicitTouches(x)) BY <1>1, FactsOfBoth DEF Due
<1>3. IsList(s) BY <1>1, JoinedList
<1>4. FactsOf(s) = Due(x) BY DEF Due
<1> HIDE DEF s
<1>5. n \in Nat /\ \A t \in ToSet(s) : \E i \in 1..n : t = s[i] BY <1>3, ListParts
<1>6. IsFiniteSet(R)
  <2>1. f \in [1..n -> R] OBVIOUS
  <2>2. \A r \in R : \E i \in 1..n : f[i] = r OBVIOUS
  <2>3. ExistsSurjection(1..n, R) BY <2>1, <2>2 DEF ExistsSurjection, Surjection
  <2> HIDE DEF R
  <2> QED BY <1>5, <2>3, FS_NatSurjection
<1>7. ASSUME NEW g \in FactsOf(s) PROVE g[2] \in R
  <2>1. PICK t \in ToSet(s) : g \in Says(t) BY FactsAre
  <2>2. PICK i \in 1..n : t = s[i] BY <1>5
  <2>3. g[2] = t.reg BY <2>1 DEF Says
  <2> QED BY <2>2, <2>3
<1>8. RegistersIn(Due(x)) \subseteq R BY <1>4, <1>7 DEF RegistersIn
<1> HIDE DEF R
<1>9. IsFiniteSet(RegistersIn(Due(x))) BY <1>6, <1>8, FS_Subset
<1> QED BY <1>2, <1>9

(* A list that names some of finitely many registers has room for another. *)
LEMMA RoomLeft ==
  ASSUME NEW max, NEW list, Holds(list, max), NEW R, IsFiniteSet(R), NamedIn(list) \subseteq R,
         NEW r \in R, r \notin NamedIn(list)
  PROVE  Len(list) < Cardinality(R)
<1> DEFINE n == Len(list)
           f == [i \in 1..n |-> list[i].reg]
<1>1. n \in Nat BY ListParts DEF Holds
<1>2. \A i \in 1..n : list[i].reg \in R /\ list[i].reg # r BY DEF NamedIn
<1>3. \A i, j \in 1..n : list[i].reg = list[j].reg => i = j BY DEF Holds
<1>4. f \in Injection(1..n, R)
  <2>1. f \in [1..n -> R] BY <1>2
  <2>2. \A i, j \in 1..n : f[i] = f[j] => i = j BY <1>3
  <2> HIDE DEF f
  <2> QED BY <2>1, <2>2 DEF Injection, IsInjective
<1>5. f \notin Surjection(1..n, R)
  <2>1. \A i \in 1..n : f[i] # r BY <1>2
  <2> HIDE DEF f
  <2> QED BY <2>1 DEF Surjection
<1>6. Cardinality(1..n) = n BY <1>1, FS_Interval
<1> HIDE DEF f
<1>7. Cardinality(1..n) <= Cardinality(R) /\ Cardinality(1..n) # Cardinality(R)
  BY <1>4, <1>5, FS_Injection
<1>8. Cardinality(R) \in Nat BY FS_CardinalityType
<1> QED BY <1>1, <1>6, <1>7, <1>8

(* Recording the first touch leaves fewer locations to record. *)
LEMMA MemoryTail ==
  ASSUME NEW s, IsList(s), s # <<>>
  PROVE  /\ IsFiniteSet(MemoryIn(s)) /\ IsFiniteSet(MemoryIn(Tail(s)))
         /\ Cardinality(MemoryIn(Tail(s))) <= Cardinality(MemoryIn(s))
         /\ Head(s).mem => Cardinality(MemoryIn(Tail(s))) <= Cardinality(MemoryIn(s)) - 1
<1> DEFINE t == Tail(s)
           n == Len(s)
           M == {i \in 1..n : s[i].mem}
           N == {i \in 1..Len(t) : t[i].mem}
           f == [i \in N |-> i + 1]
<1>1. /\ n \in Nat /\ n > 0 /\ Len(t) = n - 1 /\ Head(s) = s[1]
      /\ DOMAIN s = 1..n /\ DOMAIN t = 1..Len(t)
      /\ \A i \in 1..Len(t) : t[i] = s[i + 1]
  BY ListParts, TailList
<1>2. MemoryIn(s) = M /\ MemoryIn(t) = N BY <1>1 DEF MemoryIn
<1> HIDE DEF t
<1>3. M \subseteq 1..n /\ IsFiniteSet(1..n) BY <1>1, FS_Interval
<1>4. IsFiniteSet(M)
  <2> HIDE DEF M
  <2> QED BY <1>3, FS_Subset
<1>5. IsFiniteSet(M \ {1})
        /\ Cardinality(M \ {1}) = IF 1 \in M THEN Cardinality(M) - 1 ELSE Cardinality(M)
  <2> HIDE DEF M
  <2> QED BY <1>4, FS_RemoveElement
<1>6. Cardinality(M) \in Nat
  <2> HIDE DEF M
  <2> QED BY <1>4, FS_CardinalityType
<1>7. f \in Injection(N, M \ {1})
  <2>1. \A i \in N : i \in Nat /\ i + 1 \in M \ {1} BY <1>1
  <2> HIDE DEF M, N
  <2>2. f \in [N -> M \ {1}] BY <2>1
  <2>3. \A i, j \in N : f[i] = f[j] => i = j BY <2>1
  <2> HIDE DEF f
  <2> QED BY <2>2, <2>3 DEF Injection, IsInjective
<1>8. IsFiniteSet(N) /\ Cardinality(N) <= Cardinality(M \ {1})
  <2> HIDE DEF M, N, f
  <2> QED BY <1>5, <1>7, FS_Injection
<1>9. Cardinality(N) \in Nat
  <2> HIDE DEF N
  <2> QED BY <1>8, FS_CardinalityType
<1>10. Head(s).mem => 1 \in M BY <1>1
<1> HIDE DEF M, N
<1> QED BY <1>2, <1>4, <1>5, <1>6, <1>8, <1>9, <1>10 DEF t

(***************************************************************************)
(* The lists stay within their arrays                                      *)
(***************************************************************************)
TypeInv ==
  /\ insn \in Sample \cup Repeat
  /\ phase \in {"operands", "collect", "merge", "done"}
  /\ Touches(todo)
  /\ phase # "operands" => OnlyRegisters(todo)
  /\ phase = "done" => todo = <<>>
  /\ Holds(regs, MAX_USED_REGS) /\ Holds(implicit, MAX_IMPLICIT_REGS)
  /\ Touches(mem) /\ Len(mem) <= MAX_USED_MEM /\ \A t \in ToSet(mem) : t.mem

LEMMA Limits == MAX_USED_REGS \in Nat /\ MAX_USED_MEM \in Nat /\ MAX_IMPLICIT_REGS \in Nat
  BY DEF MAX_USED_REGS, MAX_USED_MEM, MAX_IMPLICIT_REGS

LEMMA EmptyHolds == \A max \in Nat : Holds(<<>>, max)
  BY EmptyList DEF Holds

LEMMA HeadTouch ==
  ASSUME NEW s, Touches(s), s # <<>>
  PROVE  /\ IsTouch(Head(s)) /\ Head(s).acc \in Access
         /\ Touches(Tail(s))
         /\ OnlyRegisters(s) => ~Head(s).mem /\ OnlyRegisters(Tail(s))
<1>1. IsList(Tail(s)) /\ ToSet(s) = {Head(s)} \cup ToSet(Tail(s)) BY TailList DEF Touches
<1>2. IsTouch(Head(s)) BY <1>1 DEF Touches
<1>3. Head(s).acc \in Access BY <1>2 DEF IsTouch
<1> QED BY <1>1, <1>2, <1>3 DEF OnlyRegisters, Touches

(* The implicit registers, as touches. *)
LEMMA ListedTouches ==
  ASSUME NEW max, NEW list, Holds(list, max)
  PROVE  OnlyRegisters(Listed(list))
<1>1. IsList(Listed(list)) BY ListFacts DEF Holds
<1>2. ASSUME NEW t \in ToSet(Listed(list)) PROVE IsTouch(t) /\ ~t.mem
  <2>1. PICK i \in 1..Len(list) : t = Touch(list[i].reg, list[i].acc) BY ListFacts DEF Holds
  <2>2. list[i].acc \in Access BY DEF Holds
  <2> DEFINE r == list[i].reg
             a == list[i].acc
  <2>3. a \in Access /\ t = Touch(r, a) BY <2>1, <2>2
  <2> HIDE DEF r, a
  <2>4. IsTouch(t) /\ t.mem = FALSE BY <2>3, TouchParts
  <2> QED BY <2>4
<1> QED BY <1>1, <1>2 DEF OnlyRegisters, Touches

LEMMA StartsTyped ==
  ASSUME NEW x \in Sample \cup Repeat
  PROVE  Touches(OperandTouches(x))
<1>1. Shaped(x) /\ MAX_OPERANDS \in Nat BY InfoAssumption
<1> QED BY <1>1, OperandTouchesCover DEF Covers

LEMMA InitTyped == Init => TypeInv
<1> SUFFICES ASSUME Init PROVE TypeInv OBVIOUS
<1>1. Touches(OperandTouches(insn)) BY StartsTyped DEF Init
<1>2. Holds(<<>>, MAX_USED_REGS) /\ Holds(<<>>, MAX_IMPLICIT_REGS) BY Limits, EmptyHolds
<1>3. Touches(<<>>) /\ ToSet(<<>>) = {} /\ Len(<<>>) = 0 BY NoTouches, EmptyList DEF OnlyRegisters
<1> QED BY <1>1, <1>2, <1>3, Limits DEF Init, TypeInv

LEMMA RecordRegTyped == TypeInv /\ RecordReg => TypeInv'
<1> SUFFICES ASSUME TypeInv, RecordReg PROVE TypeInv' OBVIOUS
<1>1. /\ Touches(todo) /\ todo # <<>> /\ todo' = Tail(todo) /\ Head(todo).acc \in Access
      /\ regs' = AddReg(regs, Head(todo).reg, Head(todo).acc, MAX_USED_REGS)
      /\ phase \in {"operands", "merge"}
      /\ insn' = insn /\ phase' = phase /\ implicit' = implicit /\ mem' = mem
  BY HeadTouch DEF TypeInv, RecordReg
<1>2. Touches(todo') /\ (OnlyRegisters(todo) => OnlyRegisters(todo')) BY <1>1, HeadTouch
<1>3. Holds(regs', MAX_USED_REGS)
  <2> DEFINE r == Head(todo).reg
             a == Head(todo).acc
             max == MAX_USED_REGS
  <2>1. Holds(regs, max) /\ a \in Access /\ max \in Nat /\ regs' = AddReg(regs, r, a, max)
    BY <1>1, Limits DEF TypeInv
  <2> HIDE DEF r, a, max
  <2>2. Holds(regs', max) BY <2>1, AddRegKeeps
  <2> QED BY <2>2 DEF max
<1> QED BY <1>1, <1>2, <1>3 DEF TypeInv

LEMMA RecordMemTyped == TypeInv /\ RecordMem => TypeInv'
<1> SUFFICES ASSUME TypeInv, RecordMem PROVE TypeInv' OBVIOUS
<1>1. /\ Touches(todo) /\ todo # <<>> /\ todo' = Tail(todo) /\ Head(todo).mem /\ IsTouch(Head(todo))
      /\ mem' = AddMem(mem, Head(todo), MAX_USED_MEM) /\ phase = "operands"
      /\ insn' = insn /\ phase' = phase /\ implicit' = implicit /\ regs' = regs
  BY HeadTouch DEF TypeInv, RecordMem
<1>2. Touches(todo') BY <1>1, HeadTouch
<1>3. Touches(mem') /\ Len(mem') <= MAX_USED_MEM /\ \A t \in ToSet(mem') : t.mem
  <2>1. Touches(mem) /\ Len(mem) <= MAX_USED_MEM /\ \A t \in ToSet(mem) : t.mem BY DEF TypeInv
  <2>2. CASE Len(mem) < MAX_USED_MEM
    <3> DEFINE h == Head(todo)
               l == Append(mem, h)
    <3>1. mem' = l BY <1>1, <2>2 DEF AddMem
    <3>2. IsList(mem) /\ Len(mem) \in Nat BY <2>1, ListParts DEF Touches
    <3>3. IsList(l) /\ ToSet(l) = ToSet(mem) \cup {h} /\ Len(l) = Len(mem) + 1
      BY <3>2, AppendedList
    <3> HIDE DEF h, l
    <3>4. h.mem /\ IsTouch(h) BY <1>1 DEF h
    <3>5. Touches(l) /\ \A t \in ToSet(l) : t.mem BY <2>1, <3>3, <3>4 DEF Touches
    <3>6. Len(l) <= MAX_USED_MEM BY <2>2, <3>2, <3>3, Limits
    <3> QED BY <3>1, <3>5, <3>6
  <2>3. CASE ~(Len(mem) < MAX_USED_MEM)
    <3>1. mem' = mem BY <1>1, <2>3 DEF AddMem
    <3> QED BY <2>1, <3>1
  <2> QED BY <2>2, <2>3
<1> QED BY <1>1, <1>2, <1>3 DEF TypeInv

LEMMA CollectTyped == TypeInv /\ Collect => TypeInv'
<1> SUFFICES ASSUME TypeInv, Collect PROVE TypeInv' OBVIOUS
<1>1. /\ Touches(todo) /\ todo # <<>> /\ todo' = Tail(todo) /\ Head(todo).acc \in Access
      /\ implicit' = AddReg(implicit, Head(todo).reg, Head(todo).acc, MAX_IMPLICIT_REGS)
      /\ phase = "collect"
      /\ insn' = insn /\ phase' = phase /\ regs' = regs /\ mem' = mem
  BY HeadTouch DEF TypeInv, Collect
<1>2. Touches(todo') /\ (OnlyRegisters(todo) => OnlyRegisters(todo')) BY <1>1, HeadTouch
<1>3. Holds(implicit', MAX_IMPLICIT_REGS)
  <2> DEFINE r == Head(todo).reg
             a == Head(todo).acc
             max == MAX_IMPLICIT_REGS
  <2>1. Holds(implicit, max) /\ a \in Access /\ max \in Nat /\ implicit' = AddReg(implicit, r, a, max)
    BY <1>1, Limits DEF TypeInv
  <2> HIDE DEF r, a, max
  <2>2. Holds(implicit', max) BY <2>1, AddRegKeeps
  <2> QED BY <2>2 DEF max
<1> QED BY <1>1, <1>2, <1>3 DEF TypeInv

LEMMA AskAgainTyped == TypeInv /\ AskAgain => TypeInv'
<1> SUFFICES ASSUME TypeInv, AskAgain PROVE TypeInv' OBVIOUS
<1>1. Touches(OperandTouches(insn'))
  <2> DEFINE y == insn'
  <2>1. y \in Sample \cup Repeat BY DEF AskAgain
  <2> HIDE DEF y
  <2>2. Touches(OperandTouches(y)) BY <2>1, StartsTyped
  <2> QED BY <2>2 DEF y
<1>2. Holds(<<>>, MAX_USED_REGS) /\ Holds(<<>>, MAX_IMPLICIT_REGS) BY Limits, EmptyHolds
<1>3. Touches(<<>>) /\ ToSet(<<>>) = {} /\ Len(<<>>) = 0 BY NoTouches, EmptyList DEF OnlyRegisters
<1> QED BY <1>1, <1>2, <1>3, Limits DEF AskAgain, TypeInv

LEMMA NextTyped == TypeInv /\ [Next]_vars => TypeInv'
<1> SUFFICES ASSUME TypeInv, [Next]_vars PROVE TypeInv' OBVIOUS
<1>1. CASE RecordReg BY <1>1, RecordRegTyped
<1>2. CASE RecordMem BY <1>2, RecordMemTyped
<1>3. CASE StartImplicit
  <2>1. OnlyRegisters(ImplicitTouches(insn)) BY ImplicitTouchesFew
  <2> QED BY <1>3, <2>1 DEF StartImplicit, TypeInv, OnlyRegisters
<1>4. CASE Collect BY <1>4, CollectTyped
<1>5. CASE StartMerge
  <2>1. OnlyRegisters(Listed(implicit)) BY ListedTouches DEF TypeInv
  <2> QED BY <1>5, <2>1 DEF StartMerge, TypeInv, OnlyRegisters
<1>6. CASE Return BY <1>6 DEF Return, TypeInv
<1>7. CASE AskAgain BY <1>7, AskAgainTyped
<1>8. CASE UNCHANGED vars BY <1>8 DEF vars, TypeInv
<1> QED BY <1>1, <1>2, <1>3, <1>4, <1>5, <1>6, <1>7, <1>8 DEF Next, Advance

LEMMA TypeInvGivesTypeOK == TypeInv => TypeOK
<1> SUFFICES ASSUME TypeInv PROVE TypeOK OBVIOUS
<1>1. DOMAIN regs = 1..Len(regs) BY ListParts DEF TypeInv, Holds
<1> QED BY <1>1 DEF TypeInv, TypeOK, Holds

(* The capacities are kept and no register is listed twice, however the
   touches of an instruction meet. *)
THEOREM TypeInvAlways == Spec => []TypeInv
<1>1. Init => TypeInv BY InitTyped
<1>2. TypeInv /\ [Next]_vars => TypeInv' BY NextTyped
<1> QED BY <1>1, <1>2, PTL DEF Spec

(* Within the arrays, and no register twice: what lets a look-up stop at the
   first entry. *)
THEOREM TypeOKAlways == Spec => []TypeOK
  BY TypeInvAlways, TypeInvGivesTypeOK, PTL

(***************************************************************************)
(* Nothing is lost when the touches of an instruction fit                  *)
(***************************************************************************)
AllFit == \A x \in Sample \cup Repeat : Fits(x, MAX_USED_REGS, MAX_USED_MEM)

KnownOf(list, places) == FactsOf(Listed(list) \o places)
Known == KnownOf(regs, mem)

(* What is known and what is left to record make up what is due so far, and
   there is room for the rest. *)
OperandsInv ==
  /\ implicit = <<>>
  /\ Known \cup FactsOf(todo) = FactsOf(OperandTouches(insn))
  /\ Len(mem) + Cardinality(MemoryIn(todo)) <= MAX_USED_MEM
CollectInv ==
  /\ Known = FactsOf(OperandTouches(insn))
  /\ FactsOf(Listed(implicit)) \cup FactsOf(todo) = FactsOf(ImplicitTouches(insn))
  /\ Len(implicit) + Len(todo) <= MAX_IMPLICIT_REGS
FactInv ==
  /\ phase = "operands" => OperandsInv
  /\ phase = "collect" => CollectInv
  /\ phase = "merge" => Known \cup FactsOf(todo) = Due(insn)
  /\ phase = "done" => Known = Due(insn)

LEMMA KnownParts ==
  ASSUME NEW max, NEW list, Holds(list, max), NEW places, Touches(places)
  PROVE  KnownOf(list, places) = FactsOf(Listed(list)) \cup FactsOf(places)
<1>1. IsList(Listed(list)) /\ IsList(places) BY ListedTouches DEF OnlyRegisters, Touches
<1> QED BY <1>1, FactsOfBoth DEF KnownOf

LEMMA DueNow ==
  ASSUME AllFit, TypeInv
  PROVE  /\ Due(insn) = FactsOf(OperandTouches(insn)) \cup FactsOf(ImplicitTouches(insn))
         /\ IsFiniteSet(RegistersIn(Due(insn)))
         /\ Cardinality(RegistersIn(Due(insn))) <= MAX_USED_REGS
         /\ Cardinality(MemoryIn(OperandTouches(insn))) <= MAX_USED_MEM
<1>1. insn \in Sample \cup Repeat BY DEF TypeInv
<1>2. Shaped(insn) /\ MAX_OPERANDS \in Nat BY <1>1, InfoAssumption
<1>3. Fits(insn, MAX_USED_REGS, MAX_USED_MEM) BY <1>1 DEF AllFit
<1> QED BY <1>2, <1>3, DueIs DEF Fits, Due

(* A register that is due is recorded, whatever is in the list. *)
LEMMA DueRegisterHasRoom ==
  ASSUME NEW max \in Nat, NEW list, Holds(list, max), NEW D, IsFiniteSet(RegistersIn(D)),
         Cardinality(RegistersIn(D)) <= max, FactsOf(Listed(list)) \subseteq D,
         NEW r, NEW acc \in Access, Says(Touch(r, acc)) \subseteq D
  PROVE  RoomFor(list, r, acc, max)
<1> SUFFICES ASSUME r # NoReg, acc # "None", r \notin NamedIn(list) PROVE Len(list) < max
  BY DEF RoomFor
<1>1. NamedIn(list) \subseteq RegistersIn(D) BY NamedInFacts DEF RegistersIn
<1>2. r \in RegistersIn(D)
  <2>1. PICK e : e \in Effects(acc) BY AccessEffects DEF Access
  <2> DEFINE f == <<FALSE, r, NoReg, 0, e>>
  <2>2. f \in Says(Touch(r, acc)) BY <2>1, RegisterSays
  <2>3. f[2] = r /\ ~f[1] OBVIOUS
  <2> HIDE DEF f
  <2>4. f \in D BY <2>2
  <2> QED BY <2>3, <2>4, Zenon DEF RegistersIn
<1> DEFINE R == RegistersIn(D)
<1> HIDE DEF R
<1>3. Len(list) < Cardinality(R) BY <1>1, <1>2, RoomLeft DEF R
<1>4. Cardinality(R) <= max BY DEF R
<1>5. Len(list) \in Nat BY ListParts DEF Holds
<1>6. Cardinality(R) \in Nat BY FS_CardinalityType DEF R
<1> QED BY <1>3, <1>4, <1>5, <1>6

LEMMA RecordRegFacts ==
  ASSUME AllFit, TypeInv, Known \cup FactsOf(todo) \subseteq Due(insn), RecordReg
  PROVE  Known' \cup FactsOf(todo)' = Known \cup FactsOf(todo)
<1> DEFINE r == Head(todo).reg
           a == Head(todo).acc
           max == MAX_USED_REGS
           D == Due(insn)
<1>1. /\ Touches(todo) /\ todo # <<>> /\ todo' = Tail(todo) /\ a \in Access
      /\ regs' = AddReg(regs, r, a, max) /\ mem' = mem
      /\ ~Head(todo).mem /\ IsTouch(Head(todo))
  BY HeadTouch DEF TypeInv, RecordReg
<1>2. Head(todo) = Touch(r, a) BY <1>1 DEF IsTouch
<1>3. FactsOf(todo) = Says(Touch(r, a)) \cup FactsOf(Tail(todo))
  BY <1>1, <1>2, FactsOfFirst DEF Touches
<1>4. /\ Holds(regs, max) /\ Touches(mem) /\ max \in Nat
      /\ IsFiniteSet(RegistersIn(D)) /\ Cardinality(RegistersIn(D)) <= max
  BY Limits, DueNow DEF TypeInv
<1>5. Known = FactsOf(Listed(regs)) \cup FactsOf(mem) BY <1>4, KnownParts DEF Known
<1>6. Known \subseteq D /\ FactsOf(todo) \subseteq D OBVIOUS
<1> HIDE DEF r, a, max, D
<1>7. RoomFor(regs, r, a, max) BY <1>1, <1>3, <1>4, <1>5, <1>6, DueRegisterHasRoom
<1>8. Holds(regs', max) /\ FactsOf(Listed(regs')) = FactsOf(Listed(regs)) \cup Says(Touch(r, a))
  BY <1>1, <1>4, <1>7, AddRegKeeps
<1>9. KnownOf(regs', mem') = FactsOf(Listed(regs')) \cup FactsOf(mem')
  <2> DEFINE q == regs'
             m == mem'
  <2>1. Holds(q, max) /\ Touches(m) BY <1>1, <1>4, <1>8
  <2> HIDE DEF q, m
  <2>2. KnownOf(q, m) = FactsOf(Listed(q)) \cup FactsOf(m) BY <2>1, KnownParts
  <2> QED BY <2>2 DEF q, m
<1>10. Known' = KnownOf(regs', mem') /\ FactsOf(todo)' = FactsOf(todo') BY DEF Known
<1> QED BY <1>1, <1>3, <1>5, <1>8, <1>9, <1>10

LEMMA RecordRegKeepsFacts ==
  ASSUME AllFit, TypeInv, FactInv, RecordReg
  PROVE  FactInv'
<1>1. /\ phase \in {"operands", "merge"} /\ phase' = phase /\ insn' = insn /\ mem' = mem
      /\ implicit' = implicit /\ todo' = Tail(todo) /\ todo # <<>>
  BY DEF RecordReg
<1>2. Known \cup FactsOf(todo) \subseteq Due(insn)
  BY <1>1, DueNow DEF FactInv, OperandsInv
<1>3. Known' \cup FactsOf(todo)' = Known \cup FactsOf(todo) BY <1>2, RecordRegFacts
<1>4. CASE phase = "operands"
  <2>1. OperandsInv BY <1>4 DEF FactInv
  <2>2. Cardinality(MemoryIn(Tail(todo))) <= Cardinality(MemoryIn(todo))
    BY <1>1, MemoryTail DEF TypeInv, Touches
  <2>3. /\ IsFiniteSet(MemoryIn(todo)) /\ IsFiniteSet(MemoryIn(Tail(todo)))
        /\ IsList(mem)
    BY <1>1, MemoryTail DEF TypeInv, Touches
  <2>4. /\ Cardinality(MemoryIn(todo)) \in Nat /\ Cardinality(MemoryIn(Tail(todo))) \in Nat
        /\ Len(mem) \in Nat
    BY <2>3, FS_CardinalityType, ListParts
  <2>5. Len(mem') + Cardinality(MemoryIn(todo')) <= MAX_USED_MEM
    BY <1>1, <2>1, <2>2, <2>4, Limits DEF OperandsInv
  <2>6. OperandsInv' BY <1>1, <1>3, <2>1, <2>5 DEF OperandsInv
  <2> QED BY <1>1, <1>4, <2>6 DEF FactInv
<1>5. CASE phase = "merge"
  <2>1. Known' \cup FactsOf(todo)' = Due(insn) BY <1>3, <1>5 DEF FactInv
  <2> QED BY <1>1, <1>5, <2>1 DEF FactInv
<1> QED BY <1>1, <1>4, <1>5

LEMMA RecordMemKeepsFacts ==
  ASSUME AllFit, TypeInv, FactInv, RecordMem
  PROVE  FactInv'
<1> DEFINE h == Head(todo)
           l == Append(mem, h)
<1>1. /\ phase = "operands" /\ phase' = phase /\ insn' = insn /\ regs' = regs
      /\ implicit' = implicit /\ todo' = Tail(todo) /\ todo # <<>> /\ h.mem
      /\ mem' = AddMem(mem, h, MAX_USED_MEM)
  BY DEF RecordMem
<1>2. OperandsInv BY <1>1 DEF FactInv
<1>3. /\ IsList(todo) /\ IsList(Tail(todo)) /\ IsList(mem) /\ Touches(mem) /\ IsTouch(h)
      /\ Holds(regs, MAX_USED_REGS)
  BY <1>1, HeadTouch DEF TypeInv, Touches
<1>4. /\ IsFiniteSet(MemoryIn(todo)) /\ IsFiniteSet(MemoryIn(Tail(todo)))
      /\ Cardinality(MemoryIn(Tail(todo))) <= Cardinality(MemoryIn(todo)) - 1
  BY <1>1, <1>3, MemoryTail
<1>5. /\ Cardinality(MemoryIn(todo)) \in Nat /\ Cardinality(MemoryIn(Tail(todo))) \in Nat
      /\ Len(mem) \in Nat
  BY <1>3, <1>4, FS_CardinalityType, ListParts
<1>6. Len(mem) < MAX_USED_MEM BY <1>2, <1>4, <1>5, Limits DEF OperandsInv
<1>7. mem' = l BY <1>1, <1>6 DEF AddMem
<1>8. FactsOf(todo) = Says(h) \cup FactsOf(Tail(todo)) BY <1>1, <1>3, FactsOfFirst
<1>9. IsList(l) /\ ToSet(l) = ToSet(mem) \cup {h} /\ Len(l) = Len(mem) + 1 BY <1>3, AppendedList
<1> HIDE DEF h, l
<1>10. FactsOf(l) = FactsOf(mem) \cup Says(h)
  <2>1. \A f : f \in FactsOf(l) <=> \E t \in ToSet(l) : f \in Says(t) BY FactsAre
  <2>2. \A f : f \in FactsOf(mem) <=> \E t \in ToSet(mem) : f \in Says(t) BY FactsAre
  <2> QED BY <1>9, <2>1, <2>2, Zenon
<1>11. Touches(l) BY <1>3, <1>9 DEF Touches
<1>12. Known = FactsOf(Listed(regs)) \cup FactsOf(mem) BY <1>3, KnownParts DEF Known
<1>13. KnownOf(regs, l) = FactsOf(Listed(regs)) \cup FactsOf(l) BY <1>3, <1>11, KnownParts
<1>14. Known' = KnownOf(regs, l) /\ FactsOf(todo)' = FactsOf(Tail(todo)) BY <1>1, <1>7 DEF Known
<1>15. Known' \cup FactsOf(todo)' = Known \cup FactsOf(todo)
  BY <1>8, <1>10, <1>12, <1>13, <1>14
<1>16. Len(mem') + Cardinality(MemoryIn(todo')) <= MAX_USED_MEM
  <2>1. Len(mem') = Len(mem) + 1 BY <1>7, <1>9
  <2>2. MemoryIn(todo') = MemoryIn(Tail(todo)) BY <1>1
  <2> QED BY <1>2, <1>4, <1>5, <2>1, <2>2, Limits DEF OperandsInv
<1>17. OperandsInv' BY <1>1, <1>2, <1>15, <1>16 DEF OperandsInv
<1> QED BY <1>1, <1>17 DEF FactInv

LEMMA AddRegLength ==
  ASSUME NEW max \in Nat, NEW list, Holds(list, max), NEW r, NEW acc \in Access
  PROVE  Len(AddReg(list, r, acc, max)) <= Len(list) + 1
<1> DEFINE l == AddReg(list, r, acc, max)
           n == Len(list)
<1>1. n \in Nat /\ DOMAIN list = 1..n /\ IsList(list) BY ListParts DEF Holds
<1>2. CASE r = NoReg \/ acc = "None"
  <2>1. l = list BY <1>2 DEF AddReg
  <2> HIDE DEF l
  <2> QED BY <1>1, <2>1 DEF l
<1>3. CASE r # NoReg /\ acc # "None" /\ r \in NamedIn(list)
  <2>1. acc \in Access \ {"None"} BY <1>3
  <2>2. l = [i \in 1..n |-> l[i]] BY <1>3, <2>1, MergedEntry
  <2> HIDE DEF l
  <2>3. Len(l) = n BY <1>1, <2>2, MadeList
  <2>4. Len(l) <= n + 1 BY <1>1, <2>3
  <2> QED BY <2>4 DEF l
<1>4. CASE r # NoReg /\ acc # "None" /\ r \notin NamedIn(list) /\ n < max
  <2>1. l = Append(list, [reg |-> r, acc |-> acc]) BY <1>1, <1>4 DEF AddReg, NamedIn
  <2>2. Len(Append(list, [reg |-> r, acc |-> acc])) = n + 1 BY <1>1, AppendedList
  <2> HIDE DEF l
  <2>3. Len(l) <= n + 1 BY <1>1, <2>1, <2>2
  <2> QED BY <2>3 DEF l
<1>5. CASE r # NoReg /\ acc # "None" /\ r \notin NamedIn(list) /\ ~(n < max)
  <2>1. l = list BY <1>1, <1>5 DEF AddReg, NamedIn
  <2> HIDE DEF l
  <2> QED BY <1>1, <2>1 DEF l
<1> QED BY <1>2, <1>3, <1>4, <1>5

LEMMA CollectKeepsFacts ==
  ASSUME TypeInv, FactInv, Collect
  PROVE  FactInv'
<1> DEFINE r == Head(todo).reg
           a == Head(todo).acc
           max == MAX_IMPLICIT_REGS
<1>1. /\ phase = "collect" /\ phase' = phase /\ insn' = insn /\ regs' = regs /\ mem' = mem
      /\ todo' = Tail(todo) /\ todo # <<>>
      /\ implicit' = AddReg(implicit, r, a, max)
  BY DEF Collect
<1>2. CollectInv BY <1>1 DEF FactInv
<1>3. /\ OnlyRegisters(todo) /\ Touches(todo) /\ IsList(todo) /\ IsTouch(Head(todo)) /\ a \in Access
      /\ ~Head(todo).mem
  BY <1>1, HeadTouch DEF TypeInv, OnlyRegisters, Touches
<1>4. Head(todo) = Touch(r, a) BY <1>3 DEF IsTouch
<1>5. FactsOf(todo) = Says(Touch(r, a)) \cup FactsOf(Tail(todo)) BY <1>1, <1>3, <1>4, FactsOfFirst
<1>6. Len(Tail(todo)) = Len(todo) - 1 /\ Len(todo) > 0 /\ Len(todo) \in Nat
  BY <1>1, <1>3, TailList, ListParts
<1>7. Holds(implicit, max) /\ max \in Nat BY Limits DEF TypeInv
<1>8. Len(implicit) \in Nat /\ Len(implicit) + Len(todo) <= max
  BY <1>2, <1>7, ListParts DEF CollectInv, Holds
<1> HIDE DEF r, a, max
<1>9. RoomFor(implicit, r, a, max)
  <2>1. Len(implicit) < max BY <1>6, <1>7, <1>8
  <2> QED BY <2>1 DEF RoomFor
<1> DEFINE l == AddReg(implicit, r, a, max)
<1>10. Holds(l, max) /\ FactsOf(Listed(l)) = FactsOf(Listed(implicit)) \cup Says(Touch(r, a))
  BY <1>3, <1>7, <1>9, AddRegKeeps
<1>11. Len(l) <= Len(implicit) + 1 BY <1>3, <1>7, AddRegLength
<1>12. implicit' = l BY <1>1
<1> HIDE DEF l
<1>13. Len(l) \in Nat BY <1>10, ListParts DEF Holds
<1>14. Len(implicit') + Len(todo') <= MAX_IMPLICIT_REGS
  <2>1. Len(l) + Len(Tail(todo)) <= max
    <3> DEFINE p == Len(l)
               q == Len(implicit)
               t == Len(todo)
    <3>1. p \in Nat /\ q \in Nat /\ t \in Nat /\ p <= q + 1 /\ q + t <= max
      BY <1>6, <1>8, <1>11, <1>13
    <3> HIDE DEF p, q, t
    <3>2. p + (t - 1) <= max BY <1>7, <3>1
    <3> QED BY <1>6, <3>2 DEF p, t
  <2> QED BY <1>1, <1>12, <2>1 DEF max
<1>15. FactsOf(Listed(implicit'))  \cup FactsOf(todo') = FactsOf(Listed(implicit)) \cup FactsOf(todo)
  BY <1>1, <1>5, <1>10, <1>12
<1>16. Known' = Known
  <2>1. KnownOf(regs', mem') = KnownOf(regs, mem) BY <1>1
  <2> QED BY <2>1 DEF Known
<1>17. CollectInv' BY <1>1, <1>2, <1>14, <1>15, <1>16 DEF CollectInv
<1> QED BY <1>1, <1>17 DEF FactInv

LEMMA NothingListed == FactsOf(Listed(<<>>)) = {}
<1> DEFINE e == <<>>
<1>1. IsList(e) /\ Len(e) = 0 BY EmptyList
<1> HIDE DEF e
<1>2. \A f : f \in FactsOf(Listed(e)) <=> \E i \in 1..Len(e) : f \in Says(Touch(e[i].reg, e[i].acc))
  BY <1>1, ListFacts
<1>3. \A i : i \notin 1..Len(e) BY <1>1
<1>4. FactsOf(Listed(e)) = {} BY <1>2, <1>3
<1> QED BY <1>4 DEF e

LEMMA FactsOfStart ==
  ASSUME AllFit, NEW x \in Sample \cup Repeat
  PROVE  /\ KnownOf(<<>>, <<>>) = {}
         /\ Len(<<>>) + Cardinality(MemoryIn(OperandTouches(x))) <= MAX_USED_MEM
<1>1. Holds(<<>>, 0) /\ Touches(<<>>) BY EmptyHolds, NoTouches DEF OnlyRegisters
<1>2. KnownOf(<<>>, <<>>) = FactsOf(Listed(<<>>)) \cup FactsOf(<<>>) BY <1>1, KnownParts
<1>3. FactsOf(Listed(<<>>)) = {} BY NothingListed
<1>4. Fits(x, MAX_USED_REGS, MAX_USED_MEM) BY DEF AllFit
<1> DEFINE M == MemoryIn(OperandTouches(x))
<1>5. Cardinality(M) <= MAX_USED_MEM BY <1>4 DEF Fits
<1>6. IsFiniteSet(M)
  <2> DEFINE s == OperandTouches(x)
  <2>1. IsList(s) BY StartsTyped DEF Touches
  <2>2. DOMAIN s = 1..Len(s) /\ Len(s) \in Nat BY <2>1, ListParts
  <2>3. M \subseteq 1..Len(s) BY <2>2 DEF MemoryIn
  <2>4. IsFiniteSet(1..Len(s)) BY <2>2, FS_Interval
  <2> HIDE DEF M, s
  <2> QED BY <2>3, <2>4, FS_Subset
<1> HIDE DEF M
<1>7. Cardinality(M) \in Nat BY <1>6, FS_CardinalityType
<1>8. Len(<<>>) + Cardinality(M) <= MAX_USED_MEM BY <1>5, <1>7, EmptyList
<1> QED BY <1>2, <1>3, <1>8, FactsOfNone DEF M

LEMMA InitHasFacts ==
  ASSUME AllFit, Init
  PROVE  FactInv
<1>1. insn \in Sample \cup Repeat BY DEF Init
<1>2. Known = {} BY <1>1, FactsOfStart DEF Known, Init
<1>3. Len(mem) + Cardinality(MemoryIn(todo)) <= MAX_USED_MEM BY <1>1, FactsOfStart DEF Init
<1> QED BY <1>2, <1>3 DEF Init, FactInv, OperandsInv

LEMMA AskAgainHasFacts ==
  ASSUME AllFit, AskAgain
  PROVE  FactInv'
<1> DEFINE y == insn'
<1>1. y \in Sample \cup Repeat BY DEF AskAgain
<1>2. /\ KnownOf(<<>>, <<>>) = {}
      /\ Len(<<>>) + Cardinality(MemoryIn(OperandTouches(y))) <= MAX_USED_MEM
  <2> HIDE DEF y
  <2> QED BY <1>1, FactsOfStart
<1>3. regs' = <<>> /\ mem' = <<>> /\ implicit' = <<>> /\ phase' = "operands"
        /\ todo' = OperandTouches(insn')
  BY DEF AskAgain
<1>4. Known' = {} BY <1>2, <1>3 DEF Known
<1>5. Len(mem') + Cardinality(MemoryIn(todo')) <= MAX_USED_MEM BY <1>2, <1>3
<1>6. OperandsInv' BY <1>3, <1>4, <1>5 DEF OperandsInv
<1> QED BY <1>3, <1>6 DEF FactInv

LEMMA NextKeepsFacts ==
  ASSUME AllFit, TypeInv, FactInv, [Next]_vars
  PROVE  FactInv'
<1>1. CASE RecordReg BY <1>1, RecordRegKeepsFacts
<1>2. CASE RecordMem BY <1>2, RecordMemKeepsFacts
<1>3. CASE StartImplicit
  <2>1. /\ phase = "operands" /\ todo = <<>> /\ phase' = "collect" /\ todo' = ImplicitTouches(insn)
        /\ insn' = insn /\ implicit' = implicit /\ regs' = regs /\ mem' = mem
    BY <1>3 DEF StartImplicit
  <2>2. OperandsInv BY <2>1 DEF FactInv
  <2>3. Known = FactsOf(OperandTouches(insn)) BY <2>1, <2>2, FactsOfNone DEF OperandsInv
  <2>4. Known' = Known BY <2>1 DEF Known
  <2>5. implicit' = <<>> /\ Len(<<>>) = 0 BY <2>1, <2>2, EmptyList DEF OperandsInv
  <2>6. FactsOf(Listed(<<>>)) = {} BY NothingListed
  <2>7. Len(ImplicitTouches(insn)) \in Nat /\ Len(ImplicitTouches(insn)) <= MAX_IMPLICIT_REGS
    BY ImplicitTouchesFew, ListParts DEF OnlyRegisters, Touches
  <2>8. Len(implicit') + Len(todo') <= MAX_IMPLICIT_REGS BY <2>1, <2>5, <2>7, Limits
  <2>9. CollectInv' BY <2>1, <2>3, <2>4, <2>5, <2>6, <2>8 DEF CollectInv
  <2> QED BY <2>1, <2>9 DEF FactInv
<1>4. CASE Collect BY <1>4, CollectKeepsFacts
<1>5. CASE StartMerge
  <2>1. /\ phase = "collect" /\ todo = <<>> /\ phase' = "merge" /\ todo' = Listed(implicit)
        /\ insn' = insn /\ regs' = regs /\ mem' = mem
    BY <1>5 DEF StartMerge
  <2>2. CollectInv BY <2>1 DEF FactInv
  <2>3. FactsOf(Listed(implicit)) = FactsOf(ImplicitTouches(insn))
    BY <2>1, <2>2, FactsOfNone DEF CollectInv
  <2>4. Known' = Known BY <2>1 DEF Known
  <2>5. Known' \cup FactsOf(todo)' = Due(insn) BY <2>1, <2>2, <2>3, <2>4, DueNow DEF CollectInv
  <2> QED BY <2>1, <2>5 DEF FactInv
<1>6. CASE Return
  <2>1. /\ phase = "merge" /\ todo = <<>> /\ phase' = "done"
        /\ insn' = insn /\ regs' = regs /\ mem' = mem
    BY <1>6 DEF Return
  <2>2. Known = Due(insn) BY <2>1, FactsOfNone DEF FactInv
  <2>3. Known' = Known BY <2>1 DEF Known
  <2> QED BY <2>1, <2>2, <2>3 DEF FactInv
<1>7. CASE AskAgain BY <1>7, AskAgainHasFacts
<1>8. CASE UNCHANGED vars
  <2>1. Known' = Known BY <1>8 DEF vars, Known
  <2> QED BY <1>8, <2>1 DEF vars, FactInv, OperandsInv, CollectInv
<1> QED BY <1>1, <1>2, <1>3, <1>4, <1>5, <1>6, <1>7, <1>8 DEF Next, Advance

Sound == Known \subseteq Due(insn)

LEMMA FactsAreDue ==
  ASSUME AllFit, TypeInv, FactInv
  PROVE  Sound
<1>1. Due(insn) = FactsOf(OperandTouches(insn)) \cup FactsOf(ImplicitTouches(insn)) BY DueNow
<1> QED BY <1>1 DEF TypeInv, FactInv, OperandsInv, CollectInv, Sound

(* When all fits, the list, the list of the implicit registers and the touches
   still to be recorded always make up what is due. *)
THEOREM FactInvAlways ==
  ASSUME AllFit
  PROVE  Spec => [](TypeInv /\ FactInv /\ Sound)
<1>1. Init => FactInv BY InitHasFacts
<1>2. TypeInv /\ FactInv /\ [Next]_vars => FactInv' BY NextKeepsFacts
<1>3. TypeInv /\ FactInv => Sound BY FactsAreDue
<1> QED BY <1>1, <1>2, <1>3, TypeInvAlways, PTL DEF Spec

(***************************************************************************)
(* The bounded lists implement the unbounded promise                       *)
(***************************************************************************)

(* Recording forgets nothing. *)
LEMMA RecordGrows ==
  ASSUME TypeInv, RecordReg \/ RecordMem
  PROVE  Known \subseteq Known'
<1>1. /\ todo # <<>> /\ Touches(todo) /\ Touches(mem) /\ Holds(regs, MAX_USED_REGS)
      /\ Head(todo).acc \in Access
  BY HeadTouch DEF TypeInv, RecordReg, RecordMem
<1>2. Known = FactsOf(Listed(regs)) \cup FactsOf(mem) BY <1>1, KnownParts DEF Known
<1>3. Known' = KnownOf(regs', mem') BY DEF Known
<1>4. CASE RecordReg
  <2> DEFINE r == Head(todo).reg
             a == Head(todo).acc
             l == AddReg(regs, r, a, MAX_USED_REGS)
  <2>1. regs' = l /\ mem' = mem BY <1>4 DEF RecordReg
  <2>2. Holds(l, MAX_USED_REGS) /\ FactsOf(Listed(regs)) \subseteq FactsOf(Listed(l))
    <3> HIDE DEF r
    <3> QED BY <1>1, Limits, AddRegKeeps
  <2> HIDE DEF l
  <2>3. KnownOf(l, mem) = FactsOf(Listed(l)) \cup FactsOf(mem) BY <1>1, <2>2, KnownParts
  <2> QED BY <1>2, <1>3, <2>1, <2>2, <2>3
<1>5. CASE RecordMem
  <2> DEFINE l == AddMem(mem, Head(todo), MAX_USED_MEM)
  <2>1. regs' = regs /\ mem' = l BY <1>5 DEF RecordMem
  <2>2. IsList(mem) /\ IsTouch(Head(todo)) BY <1>1, HeadTouch DEF Touches
  <2>3. Touches(l) /\ ToSet(mem) \subseteq ToSet(l)
    <3>1. /\ IsList(Append(mem, Head(todo)))
          /\ ToSet(Append(mem, Head(todo))) = ToSet(mem) \cup {Head(todo)}
      BY <2>2, AppendedList
    <3>2. l = mem \/ l = Append(mem, Head(todo)) BY DEF AddMem
    <3> HIDE DEF l
    <3> QED BY <1>1, <2>2, <3>1, <3>2 DEF Touches
  <2> HIDE DEF l
  <2>4. FactsOf(mem) \subseteq FactsOf(l)
    <3>1. \A f : f \in FactsOf(l) <=> \E t \in ToSet(l) : f \in Says(t) BY FactsAre
    <3>2. \A f : f \in FactsOf(mem) <=> \E t \in ToSet(mem) : f \in Says(t) BY FactsAre
    <3> QED BY <2>3, <3>1, <3>2, Zenon
  <2>5. KnownOf(regs, l) = FactsOf(Listed(regs)) \cup FactsOf(l) BY <1>1, <2>3, KnownParts
  <2> QED BY <1>2, <1>3, <2>1, <2>4, <2>5
<1> QED BY <1>4, <1>5

LEMMA StepLearnsOrAsks ==
  ASSUME TypeInv, FactInv, Sound', [Next]_vars
  PROVE  [Promise!Learn \/ Promise!Ask]_Promise!mapVars
<1> DEFINE due == FactsOf(OperandTouches(insn) \o ImplicitTouches(insn))
           known == FactsOf(Listed(regs) \o mem)
<1>1. /\ due = Due(insn) /\ due' = Due(insn')
      /\ known = Known /\ known' = Known'
  BY DEF Due, Known, KnownOf
<1>2. Known' \subseteq Due(insn') BY DEF Sound
<1>3. CASE RecordReg \/ RecordMem
  <2>1. insn' = insn BY <1>3 DEF RecordReg, RecordMem
  <2>2. Known \subseteq Known' BY <1>3, RecordGrows
  <2>3. due' = due BY <1>1, <2>1
  <2>4. known \subseteq known' /\ known' \subseteq due BY <1>1, <1>2, <2>1, <2>2
  <2> QED BY <2>3, <2>4 DEF Promise!Learn
<1>4. CASE StartImplicit \/ Collect \/ StartMerge \/ Return \/ UNCHANGED vars
  <2>1. insn' = insn /\ regs' = regs /\ mem' = mem
    BY <1>4 DEF StartImplicit, Collect, StartMerge, Return, vars
  <2>2. due' = due /\ known' = known BY <2>1
  <2> QED BY <2>2 DEF Promise!mapVars
<1>5. CASE AskAgain
  <2>1. phase = "done" /\ regs' = <<>> /\ mem' = <<>> BY <1>5 DEF AskAgain
  <2>2. Known = Due(insn) BY <2>1 DEF FactInv
  <2>3. Known' = {}
    <3>1. Holds(<<>>, 0) /\ Touches(<<>>) BY EmptyHolds, NoTouches DEF OnlyRegisters
    <3>2. KnownOf(<<>>, <<>>) = FactsOf(Listed(<<>>)) \cup FactsOf(<<>>) BY <3>1, KnownParts
    <3>3. Known' = KnownOf(<<>>, <<>>) BY <2>1 DEF Known
    <3> QED BY <3>2, <3>3, NothingListed, FactsOfNone
  <2> QED BY <1>1, <2>2, <2>3 DEF Promise!Ask
<1> QED BY <1>3, <1>4, <1>5 DEF Next, Advance

(* The lists, bounded and merging, and the implicit list with a bound of its
   own say at every moment only what the operands and the implied registers of
   an instruction that fits say; they forget nothing, and start over only when
   all of it is listed. *)
THEOREM OnlyLearnsWhatIsDue ==
  ASSUME AllFit
  PROVE  Spec => Promise!MapInit /\ [][Promise!Learn \/ Promise!Ask]_Promise!mapVars
<1>1. Init => Promise!MapInit
  <2>1. KnownOf(<<>>, <<>>) = {}
    <3>1. Holds(<<>>, 0) /\ Touches(<<>>) BY EmptyHolds, NoTouches DEF OnlyRegisters
    <3>2. KnownOf(<<>>, <<>>) = FactsOf(Listed(<<>>)) \cup FactsOf(<<>>) BY <3>1, KnownParts
    <3> QED BY <3>2, NothingListed, FactsOfNone
  <2> QED BY <2>1 DEF Init, Promise!MapInit, KnownOf
<1>2. TypeInv /\ FactInv /\ Sound' /\ [Next]_vars => [Promise!Learn \/ Promise!Ask]_Promise!mapVars
  BY StepLearnsOrAsks
<1> QED BY <1>1, <1>2, FactInvAlways, PTL DEF Spec

(* All of it is listed whenever an analysis returns, so that the whole promise
   is kept if analyses do return: that they do is left to the hypothesis. *)
THEOREM ReportsEverythingWhenDone ==
  ASSUME AllFit
  PROVE  Spec /\ []<>(phase = "done") => ReportsEverything
<1>1. FactInv /\ phase = "done"
        => FactsOf(Listed(regs) \o mem) = FactsOf(OperandTouches(insn) \o ImplicitTouches(insn))
  BY DEF FactInv, Known, KnownOf, Due
<1> QED BY <1>1, OnlyLearnsWhatIsDue, FactInvAlways, PTL DEF ReportsEverything, Promise!MapSpec

(***************************************************************************)
(* What a report says                                                      *)
(***************************************************************************)

LEMMA SameFact ==
  ASSUME NEW r, NEW e, NEW q, NEW d, <<FALSE, r, NoReg, 0, e>> = <<FALSE, q, NoReg, 0, d>>
  PROVE  q = r /\ d = e
<1>1. <<FALSE, r, NoReg, 0, e>>[2] = <<FALSE, q, NoReg, 0, d>>[2]
      /\ <<FALSE, r, NoReg, 0, e>>[5] = <<FALSE, q, NoReg, 0, d>>[5]
  OBVIOUS
<1> QED BY <1>1

(* Looking a register up finds all the list says of it. *)
LEMMA LookUp ==
  ASSUME NEW max, NEW list, Holds(list, max), NEW r
  PROVE  \A e : e \in Effects(AccessOf(list, r)) <=> HasFact(list, r, e)
<1> DEFINE n == Len(list)
           same == {i \in 1..n : list[i].reg = r}
<1>1. DOMAIN list = 1..n BY ListParts DEF Holds
<1>2. AccessOf(list, r) = IF same = {} THEN "None" ELSE list[CHOOSE i \in same : TRUE].acc
  BY <1>1 DEF AccessOf
<1>3. \A i, j \in same : i = j BY DEF Holds
<1>4. \A e : HasFact(list, r, e) <=> \E i \in same : e \in Effects(list[i].acc) BY DEF HasFact
<1> HIDE DEF same
<1>5. CASE same = {} BY <1>2, <1>4, <1>5, AccessEffects
<1>6. CASE same # {}
  <2> DEFINE k == CHOOSE i \in same : TRUE
  <2>1. k \in same BY <1>6
  <2>2. AccessOf(list, r) = list[k].acc BY <1>2, <1>6
  <2> HIDE DEF k
  <2>3. same = {k} BY <1>3, <2>1
  <2> QED BY <1>4, <2>2, <2>3
<1> QED BY <1>5, <1>6

LEMMA FactsOfPlaces ==
  ASSUME NEW places, \A t \in ToSet(places) : t.mem
  PROVE  \A r, e : <<FALSE, r, NoReg, 0, e>> \notin FactsOf(places)
<1>1. ASSUME NEW r, NEW e, <<FALSE, r, NoReg, 0, e>> \in FactsOf(places) PROVE FALSE
  <2> DEFINE f == <<FALSE, r, NoReg, 0, e>>
  <2>1. f[1] = FALSE /\ f \in FactsOf(places) BY <1>1
  <2> HIDE DEF f
  <2>2. PICK t \in ToSet(places) : f \in Says(t) BY <2>1, FactsAre
  <2>3. f[1] = t.mem BY <2>2 DEF Says
  <2> QED BY <2>1, <2>2, <2>3
<1> QED BY <1>1

(* At the end the list says of a register what is due of it. *)
LEMMA AccessIsDue ==
  ASSUME TypeInv, FactInv, phase = "done", NEW r
  PROVE  \A e : e \in Effects(AccessOf(regs, r)) <=> <<FALSE, r, NoReg, 0, e>> \in Due(insn)
<1>1. Holds(regs, MAX_USED_REGS) /\ Touches(mem) /\ \A t \in ToSet(mem) : t.mem BY DEF TypeInv
<1>2. Due(insn) = FactsOf(Listed(regs)) \cup FactsOf(mem)
  BY <1>1, KnownParts DEF FactInv, Known
<1>3. \A e : <<FALSE, r, NoReg, 0, e>> \in Due(insn)
               <=> <<FALSE, r, NoReg, 0, e>> \in FactsOf(Listed(regs))
  BY <1>1, <1>2, FactsOfPlaces
<1>4. \A e : <<FALSE, r, NoReg, 0, e>> \in FactsOf(Listed(regs)) <=> HasFact(regs, r, e)
  <2>1. \A f : f \in FactsOf(Listed(regs)) <=>
                 \E q, e : f = <<FALSE, q, NoReg, 0, e>> /\ HasFact(regs, q, e)
    BY <1>1, ListStates
  <2>2. ASSUME NEW e, <<FALSE, r, NoReg, 0, e>> \in FactsOf(Listed(regs)) PROVE HasFact(regs, r, e)
    <3>1. PICK q, d : <<FALSE, r, NoReg, 0, e>> = <<FALSE, q, NoReg, 0, d>> /\ HasFact(regs, q, d)
      BY <2>1, <2>2, Zenon
    <3>2. q = r /\ d = e BY <3>1, SameFact
    <3> QED BY <3>1, <3>2, Zenon
  <2>3. ASSUME NEW e, HasFact(regs, r, e) PROVE <<FALSE, r, NoReg, 0, e>> \in FactsOf(Listed(regs))
    BY <2>1, <2>3, Zenon
  <2> QED BY <2>2, <2>3
<1>5. \A e : e \in Effects(AccessOf(regs, r)) <=> HasFact(regs, r, e) BY <1>1, LookUp
<1> QED BY <1>3, <1>4, <1>5

(* What a touch of r says of it, and no other. *)
LEMMA TouchSaysOfOne ==
  ASSUME NEW r, NEW q, NEW acc
  PROVE  \A e : <<FALSE, r, NoReg, 0, e>> \in Says(Touch(q, acc)) <=>
                  q = r /\ r # NoReg /\ e \in Effects(acc)
<1>1. \A f : f \in Says(Touch(q, acc)) <=>
               q # NoReg /\ \E e \in Effects(acc) : f = <<FALSE, q, NoReg, 0, e>>
  BY RegisterSays, Zenon
<1>2. ASSUME NEW e, <<FALSE, r, NoReg, 0, e>> \in Says(Touch(q, acc))
      PROVE  q = r /\ r # NoReg /\ e \in Effects(acc)
  <2>1. q # NoReg BY <1>1, <1>2, Zenon
  <2>2. PICK d \in Effects(acc) : <<FALSE, r, NoReg, 0, e>> = <<FALSE, q, NoReg, 0, d>>
    BY <1>1, <1>2, Zenon
  <2>3. q = r /\ d = e BY <2>2, SameFact
  <2> QED BY <2>1, <2>2, <2>3, Zenon
<1>3. ASSUME NEW e, q = r, r # NoReg, e \in Effects(acc)
      PROVE  <<FALSE, r, NoReg, 0, e>> \in Says(Touch(q, acc))
  BY <1>1, <1>3, Zenon
<1> QED BY <1>2, <1>3

LEMMA TouchInFacts ==
  ASSUME NEW s, NEW r, r # NoReg, NEW acc, Touch(r, acc) \in ToSet(s), NEW e \in Effects(acc)
  PROVE  <<FALSE, r, NoReg, 0, e>> \in FactsOf(s)
<1>1. <<FALSE, r, NoReg, 0, e>> \in Says(Touch(r, acc)) BY TouchSaysOfOne
<1> QED BY <1>1, FactsAre

(***************************************************************************)
(* Every register an operand shows                                         *)
(***************************************************************************)
LEMMA ShownIsRegister ==
  ASSUME NEW o, ShapedOperand(o), NEW r \in RegistersOf(o)
  PROVE  r # NoReg
<1>1. CASE o.kind = "MultiReg"
  <2>1. PICK k : r = <<BankOf(o.reg), k>> BY <1>1 DEF RegistersOf
  <2>2. BankOf(o.reg) # "None" BY <1>1 DEF ShapedOperand, GroupKinds
  <2> HIDE DEF BankOf
  <2> QED BY <2>1, <2>2 DEF NoReg
<1>2. CASE o.kind = "SveVecGroup"
  <2>1. PICK k : r = <<"Z", k>> BY <1>2 DEF RegistersOf
  <2> QED BY <2>1 DEF NoReg
<1>3. CASE o.kind \notin {"MultiReg", "SveVecGroup"}
  <2>1. RegistersOf(o) = {o.reg, o.idx} \ {NoReg} BY <1>3 DEF RegistersOf
  <2> QED BY <2>1
<1> QED BY <1>1, <1>2, <1>3

LEMMA ShownIsDue ==
  ASSUME NEW x, Shaped(x), MAX_OPERANDS \in Nat, NEW n \in Live(x), NEW r \in RegistersOf(OpAt(x, n))
  PROVE  \E e : <<FALSE, r, NoReg, 0, e>> \in Due(x)
<1>1. r # NoReg
  <2>1. ShapedOperand(OpAt(x, n)) BY DEF Shaped
  <2> QED BY <2>1, ShownIsRegister
<1>2. Touches(OperandTouches(x)) /\ Shows(OperandTouches(x), r) BY OperandTouchesCover DEF Covers
<1>3. PICK t \in ToSet(OperandTouches(x)) : ~t.mem /\ t.reg = r /\ t.acc # "None"
  BY <1>2 DEF Shows
<1>4. t = Touch(r, t.acc) /\ t.acc \in Access BY <1>2, <1>3 DEF Touches, IsTouch
<1> DEFINE a == t.acc
<1>5. a \in Access /\ a # "None" /\ Touch(r, a) \in ToSet(OperandTouches(x)) BY <1>3, <1>4
<1> HIDE DEF a
<1>6. PICK e : e \in Effects(a) BY <1>5, AccessEffects DEF Access
<1>7. <<FALSE, r, NoReg, 0, e>> \in FactsOf(OperandTouches(x)) BY <1>1, <1>5, <1>6, TouchInFacts
<1> QED BY <1>7, DueIs

LEMMA DoneShowsAll ==
  ASSUME TypeInv, FactInv
  PROVE  EveryRegisterShownIsListed
<1> SUFFICES ASSUME phase = "done", NEW n \in Live(insn), NEW r \in RegistersOf(OpAt(insn, n))
             PROVE  AccessOf(regs, r) # "None"
  BY DEF EveryRegisterShownIsListed
<1>1. Shaped(insn) /\ MAX_OPERANDS \in Nat BY InfoAssumption DEF TypeInv
<1>2. PICK e : <<FALSE, r, NoReg, 0, e>> \in Due(insn) BY <1>1, ShownIsDue
<1>3. e \in Effects(AccessOf(regs, r)) BY <1>2, AccessIsDue
<1> QED BY <1>3, AccessEffects

(* However an instruction is classified, a register that one of its operands
   shows is in the list. *)
THEOREM EveryRegisterShownIsListedAlways ==
  ASSUME AllFit
  PROVE  Spec => []EveryRegisterShownIsListed
<1>1. TypeInv /\ FactInv => EveryRegisterShownIsListed BY DoneShowsAll
<1> QED BY <1>1, FactInvAlways, PTL

(***************************************************************************)
(* The flags                                                               *)
(***************************************************************************)
LEMMA NzcvEffects ==
  ASSUME NEW R \in BOOLEAN, NEW W \in BOOLEAN
  PROVE  Effects(NzcvAccess(R, W)) = {e \in {"read", "write"} : IF e = "read" THEN R ELSE W}
BY DEF NzcvAccess, Effects

(* Nothing but the flag touch is about the flags. *)
LEMMA NoFlagFacts ==
  ASSUME NEW s, Touches(s), NoFlags(s)
  PROVE  \A e : <<FALSE, Nzcv, NoReg, 0, e>> \notin FactsOf(s)
<1>1. ASSUME NEW e, <<FALSE, Nzcv, NoReg, 0, e>> \in FactsOf(s) PROVE FALSE
  <2> DEFINE f == <<FALSE, Nzcv, NoReg, 0, e>>
  <2>1. f[1] = FALSE /\ f[2] = Nzcv /\ f \in FactsOf(s) BY <1>1
  <2> HIDE DEF f
  <2>2. PICK t \in ToSet(s) : f \in Says(t) BY <2>1, FactsAre
  <2>3. f[1] = t.mem /\ f[2] = t.reg BY <2>2 DEF Says
  <2> QED BY <2>1, <2>2, <2>3 DEF NoFlags
<1> QED BY <1>1

LEMMA FlagsDue ==
  ASSUME NEW x, Shaped(x), MAX_OPERANDS \in Nat
  PROVE  \A e : <<FALSE, Nzcv, NoReg, 0, e>> \in Due(x)
                  <=> e \in Effects(NzcvAccess(ReadsFlags(x), WritesFlags(x)))
<1> DEFINE acc == NzcvAccess(ReadsFlags(x), WritesFlags(x))
<1>1. Due(x) = FactsOf(OperandTouches(x)) \cup (Says(Touch(Nzcv, acc)) \cup FactsOf(Unspoken(x)))
  BY DueIs, FactsOfImplicit DEF FlagTouch
<1>2. \A e : <<FALSE, Nzcv, NoReg, 0, e>> \notin FactsOf(OperandTouches(x))
  BY OperandTouchesCover, NoFlagFacts DEF Covers
<1>3. \A e : <<FALSE, Nzcv, NoReg, 0, e>> \notin FactsOf(Unspoken(x))
  BY ImplicitParts, NoFlagFacts DEF Few, OnlyRegisters
<1> HIDE DEF acc
<1>4. \A e : <<FALSE, Nzcv, NoReg, 0, e>> \in Says(Touch(Nzcv, acc)) <=> e \in Effects(acc)
  BY TouchSaysOfOne, PlainRegisters
<1>5. \A e : <<FALSE, Nzcv, NoReg, 0, e>> \in Due(x) <=> e \in Effects(acc)
  BY <1>1, <1>2, <1>3, <1>4
<1> QED BY <1>5 DEF acc

LEMMA DoneAgreesOnFlags ==
  ASSUME TypeInv, FactInv
  PROVE  FlagsAgreeWithNzcv
<1> SUFFICES ASSUME phase = "done"
             PROVE  Effects(AccessOf(regs, Nzcv)) =
                      {e \in {"read", "write"} : IF e = "read" THEN ReadsFlags(insn) ELSE WritesFlags(insn)}
  BY DEF FlagsAgreeWithNzcv
<1>1. Shaped(insn) /\ MAX_OPERANDS \in Nat BY InfoAssumption DEF TypeInv
<1>2. \A e : e \in Effects(AccessOf(regs, Nzcv)) <=> <<FALSE, Nzcv, NoReg, 0, e>> \in Due(insn)
  BY AccessIsDue
<1>3. \A e : <<FALSE, Nzcv, NoReg, 0, e>> \in Due(insn)
               <=> e \in Effects(NzcvAccess(ReadsFlags(insn), WritesFlags(insn)))
  BY <1>1, FlagsDue
<1>4. ReadsFlags(insn) \in BOOLEAN /\ WritesFlags(insn) \in BOOLEAN
  BY DEF ReadsFlags, WritesFlags
<1> DEFINE R == ReadsFlags(insn)
           W == WritesFlags(insn)
<1> HIDE DEF R, W
<1>5. Effects(NzcvAccess(R, W)) = {e \in {"read", "write"} : IF e = "read" THEN R ELSE W}
  BY <1>4, NzcvEffects DEF R, W
<1>6. Effects(AccessOf(regs, Nzcv)) = Effects(NzcvAccess(R, W)) BY <1>2, <1>3 DEF R, W
<1> QED BY <1>5, <1>6 DEF R, W

(* flags_read and flags_written, computed apart from the lists, say what the
   list says of NZCV. *)
THEOREM FlagsAgreeWithNzcvAlways ==
  ASSUME AllFit
  PROVE  Spec => []FlagsAgreeWithNzcv
<1>1. TypeInv /\ FactInv => FlagsAgreeWithNzcv BY DoneAgreesOnFlags
<1> QED BY <1>1, FactInvAlways, PTL

(***************************************************************************)
(* The 64-byte transfers                                                   *)
(***************************************************************************)
LEMMA TransferKinds ==
  /\ MemKind(<<"Ld64b">>) = "Load" /\ MemKind(<<"St64b">>) = "Store"
  /\ \A m \in {<<"St64bv">>, <<"St64bv0">>} : MemKind(m) = "StoreExclusive"
<1>1. ASSUME NEW k \in {"Ld64b", "St64b", "St64bv", "St64bv0"}, NEW m, m = <<k>>
      PROVE  MemKind(m) = IF k = "Ld64b" THEN "Load" ELSE IF k = "St64b" THEN "Store"
                          ELSE "StoreExclusive"
  <2>1. m[1] = k /\ \A n : (m = <<n>>) = (k = n) BY <1>1
  <2>2. \A n, s : m # <<n, s>>
    <3>1. Len(m) = 1 /\ \A n, s : Len(<<n, s>>) = 2 BY <1>1
    <3> QED BY <3>1
  <2>3. \A S : (m \in Named(S)) = (k \in S) BY <2>1 DEF Named
  <2>4. \A S, T : m \notin Sized(S, T) BY <2>2 DEF Sized
  <2>5. m[1] \notin CompareSwaps /\ m[1] \notin AtomicRmws /\ m[1] \notin {"st", "Prf", "St", "ar", "xr", "xp"}
    BY <2>1 DEF CompareSwaps, AtomicRmws
  <2>6. StoreExclusives(m) = (k \in {"St64bv", "St64bv0"})
    BY <2>3, <2>5 DEF StoreExclusives, StatusStores
  <2>7. m \in NamedStores <=> k = "St64b" BY <2>3, <2>4 DEF NamedStores
  <2>8. Stores(m) <=> k = "St64b" BY <2>5, <2>7 DEF Stores
  <2> HIDE DEF StoreExclusives, Stores
  <2> QED BY <2>5, <2>6, <2>8 DEF MemKind
<1>2. MemKind(<<"Ld64b">>) = "Load" BY <1>1
<1>3. MemKind(<<"St64b">>) = "Store" BY <1>1
<1>4. MemKind(<<"St64bv">>) = "StoreExclusive" BY <1>1
<1>5. MemKind(<<"St64bv0">>) = "StoreExclusive" BY <1>1
<1> QED BY <1>2, <1>3, <1>4, <1>5

(* The direction in which a transfer moves its registers. *)
Direction(m) == IF m = <<"Ld64b">> THEN "Write" ELSE "Read"

LEMMA TransferAccess ==
  ASSUME NEW x, Shaped(x), IsLs64(x.mnem), NEW slot
  PROVE  /\ DataAccess(MemKind(x.mnem), Ls64Slot(x.mnem), slot) = Direction(x.mnem)
         /\ Ls64Slot(x.mnem) > 0 => Direction(x.mnem) = "Read"
         /\ Ls64Slot(x.mnem) \in {0, 1}
<1> DEFINE m == x.mnem
<1>1. m \in {<<"Ld64b">>, <<"St64b">>, <<"St64bv">>, <<"St64bv0">>} BY DEF Shaped, Named
<1>2. <<"Ld64b">> \notin StatusStores /\ <<"St64b">> \notin StatusStores
      /\ <<"St64bv">> \in StatusStores /\ <<"St64bv0">> \in StatusStores
  BY DEF StatusStores, Named
<1>3. <<"St64b">> # <<"Ld64b">> /\ <<"St64bv">> # <<"Ld64b">> /\ <<"St64bv0">> # <<"Ld64b">> OBVIOUS
<1> HIDE DEF m, MemKind
<1>4. CASE m = <<"Ld64b">> BY <1>2, <1>4, TransferKinds DEF Direction, Ls64Slot, DataAccess, m
<1>5. CASE m = <<"St64b">> BY <1>2, <1>3, <1>5, TransferKinds DEF Direction, Ls64Slot, DataAccess, m
<1>6. CASE m = <<"St64bv">> BY <1>2, <1>3, <1>6, TransferKinds DEF Direction, Ls64Slot, DataAccess, m
<1>7. CASE m = <<"St64bv0">> BY <1>2, <1>3, <1>7, TransferKinds DEF Direction, Ls64Slot, DataAccess, m
<1> QED BY <1>1, <1>4, <1>5, <1>6, <1>7

(* The register a transfer names. *)
LEMMA TransferNamed ==
  ASSUME NEW x, Shaped(x), IsLs64(x.mnem)
  PROVE  LET s == Ls64Slot(x.mnem)
             n == RegAt(x, s)
         IN  /\ n \in 0..22 /\ n % 2 = 0 /\ IsXAt(x, s)
             /\ OpAt(x, s).reg = X(n) /\ OpAt(x, s).kind = "Reg" /\ X(n) = <<"X", n>>
<1> DEFINE s == Ls64Slot(x.mnem)
           o == OpAt(x, s)
<1>1. PICK k \in 0..11 : o = RegOp(X(2 * k)) BY DEF Shaped
<1>2. \A n : X(n) = <<"X", n>> BY DEF X, Gp, RegOp, Op
<1> DEFINE d == 2 * k
<1>3. d \in 0..22 /\ d % 2 = 0 OBVIOUS
<1>4. o = RegOp(X(d)) BY <1>1
<1> HIDE DEF o, s, d
<1>5. o.reg = X(d) /\ o.kind = "Reg" BY <1>4 DEF RegOp, Op
<1>6. NumberOf(o.reg) = d /\ BankOf(o.reg) = "X" BY <1>2, <1>5 DEF NumberOf, BankOf
<1>7. RegAt(x, s) = d /\ IsXAt(x, s) BY <1>6 DEF RegAt, IsXAt, o
<1> QED BY <1>2, <1>3, <1>5, <1>7 DEF o, s

(* What an operand beside the memory operand touches, the form touches. *)
LEMMA MemoryFormHolds ==
  ASSUME NEW x, Shaped(x), MAX_OPERANDS \in Nat, NEW slot \in MemSlots(x), NEW n \in Live(x), n # slot,
         ~(n > 0 /\ IsPredicate(OpAt(x, n)))
  PROVE  ToSet(OperandRegs(OpAt(x, n), DataAccess(MemKind(x.mnem), n, slot)))
           \subseteq ToSet(MemoryForm(x, slot))
<1> DEFINE kind == MemKind(x.mnem)
           D(i) == IF i = slot THEN <<>>
                   ELSE OperandRegs(OpAt(x, i), IF i > 0 /\ IsPredicate(OpAt(x, i)) THEN "Read"
                                                ELSE DataAccess(kind, i, slot))
           front == MemoryTouches(OpAt(x, slot), MemoryAccess(kind))
           ss == [i \in 1..x.cnt |-> D(i - 1)]
           back == FlattenSeq(ss)
<1>1. ss = [i \in 1..x.cnt |-> ss[i]] OBVIOUS
<1>2. MemoryForm(x, slot) = front \o back BY DEF MemoryForm, EachSlot
<1>3. /\ x.cnt \in Nat
      /\ \A i \in 1..x.cnt : i - 1 \in Live(x) /\ ShapedOperand(OpAt(x, i - 1))
      /\ n + 1 \in 1..x.cnt /\ (n + 1) - 1 = n
  BY Slots
<1>4. ShapedOperand(OpAt(x, slot)) BY DEF MemSlots, Shaped
<1>5. \A k, i : DataAccess(k, i, slot) \in Access /\ MemoryAccess(k) \in Access
  BY DEF DataAccess, MemoryAccess, Access
<1>6. IsList(front)
  <2> DEFINE a == MemoryAccess(kind)
  <2>1. a \in Access /\ front = MemoryTouches(OpAt(x, slot), a) BY <1>5
  <2> HIDE DEF a, front
  <2> QED BY <1>4, <2>1, MemoryTouchesTouch DEF Touches
<1>7. ASSUME NEW i \in 1..x.cnt PROVE IsList(ss[i])
  <2> DEFINE o == OpAt(x, i - 1)
             a == IF i - 1 > 0 /\ IsPredicate(o) THEN "Read" ELSE DataAccess(kind, i - 1, slot)
  <2>1. ss[i] = IF i - 1 = slot THEN <<>> ELSE OperandRegs(o, a) OBVIOUS
  <2>2. ShapedOperand(o) BY <1>3
  <2>3. a \in Access
    <3> HIDE DEF kind
    <3> QED BY <1>5, Accesses3
  <2> HIDE DEF ss, o, a
  <2>4. IsList(OperandRegs(o, a)) BY <2>2, <2>3, OperandRegsTouch DEF OnlyRegisters, Touches
  <2> QED BY <2>1, <2>4, EmptyList
<1>8. ss[n + 1] = OperandRegs(OpAt(x, n), DataAccess(kind, n, slot)) BY <1>3
<1> HIDE DEF ss, front, kind
<1>9. IsList(back) /\ ToSet(ss[n + 1]) \subseteq ToSet(back) BY <1>1, <1>3, <1>7, FlattenElements
<1> HIDE DEF back
<1>10. ToSet(back) \subseteq ToSet(front \o back) BY <1>6, <1>9, JoinedList
<1> QED BY <1>2, <1>8, <1>9, <1>10 DEF kind

(* The register that is named is touched in the direction of the transfer. *)
LEMMA NamedIsTouched ==
  ASSUME NEW x, Shaped(x), MAX_OPERANDS \in Nat, IsLs64(x.mnem)
  PROVE  Touch(X(RegAt(x, Ls64Slot(x.mnem))), Direction(x.mnem)) \in ToSet(OperandTouches(x))
<1> DEFINE s == Ls64Slot(x.mnem)
           o == OpAt(x, s)
           acc == Direction(x.mnem)
           r == X(RegAt(x, s))
<1>1. PICK slot \in MemSlots(x) : MemSlots(x) = {slot} BY DEF Shaped
<1>2. slot \in Int BY <1>1 DEF MemSlots, Live, Slot
<1>3. OperandTouches(x) = MemoryForm(x, slot)
  <2>1. Min(MemSlots(x)) = slot BY <1>1, <1>2 DEF Min
  <2>2. ~IsMopsRmw(x) /\ MemSlots(x) # {} BY DEF Shaped
  <2> QED BY <2>1, <2>2 DEF OperandTouches
<1>4. o.reg = r /\ o.kind = "Reg" /\ BankOf(r) = "X" BY TransferNamed DEF BankOf
<1>5. s \in Live(x) BY DEF Shaped
<1>6. s # slot
  <2>1. OpAt(x, slot).kind \in MemKinds BY <1>1 DEF MemSlots
  <2> QED BY <1>4, <2>1 DEF MemKinds
<1>7. ~IsPredicate(o) BY <1>4 DEF IsPredicate
<1>8. DataAccess(MemKind(x.mnem), s, slot) = acc BY TransferAccess
<1>9. OperandRegs(o, acc) = <<Touch(r, acc)>>
  <2> HIDE DEF o, r, acc
  <2> QED BY <1>4 DEF OperandRegs
<1>10. ToSet(OperandRegs(o, acc)) \subseteq ToSet(MemoryForm(x, slot))
  BY <1>1, <1>5, <1>6, <1>7, <1>8, MemoryFormHolds
<1> HIDE DEF o, r, acc, s
<1>11. Touch(r, acc) \in ToSet(<<Touch(r, acc)>>) BY OneTouch
<1> QED BY <1>3, <1>9, <1>10, <1>11 DEF r, acc, s

(* The seven registers after it are touched alike. *)
LEMMA RestIsTouched ==
  ASSUME NEW x, Shaped(x), IsLs64(x.mnem), NEW i \in 1..7
  PROVE  Touch(X(RegAt(x, Ls64Slot(x.mnem)) + i), Direction(x.mnem)) \in ToSet(Unspoken(x))
<1> DEFINE s == Ls64Slot(x.mnem)
           n == RegAt(x, s)
           acc == Direction(x.mnem)
<1>1. n % 2 = 0 /\ n <= 22 /\ IsXAt(x, s) BY TransferNamed
<1>2. Ls64Touches(x) = Ls64Group(n, acc) BY <1>1 DEF Ls64Touches, Direction
<1>3. acc \in Access /\ acc # "None" BY DEF Direction, Access
<1> HIDE DEF n, acc
<1>4. Touch(X(n + i), acc) \in ToSet(Ls64Group(n, acc)) BY <1>3, GroupFew
<1>5. ToSet(Ls64Touches(x)) \subseteq ToSet(Unspoken(x)) BY ImplicitParts
<1> QED BY <1>2, <1>4, <1>5 DEF n, acc

LEMMA GroupIsDue ==
  ASSUME NEW x, Shaped(x), MAX_OPERANDS \in Nat, IsLs64(x.mnem), NEW i \in 0..7
  PROVE  <<FALSE, X(RegAt(x, Ls64Slot(x.mnem)) + i), NoReg, 0,
           IF x.mnem = <<"Ld64b">> THEN "write" ELSE "read">> \in Due(x)
<1> DEFINE n == RegAt(x, Ls64Slot(x.mnem))
           r == X(n + i)
           acc == Direction(x.mnem)
           e == IF x.mnem = <<"Ld64b">> THEN "write" ELSE "read"
<1>1. e \in Effects(acc) BY DEF Effects, Direction
<1>2. \A k : X(k) # NoReg BY DEF X, Gp, RegOp, Op, NoReg
<1>3. r # NoReg BY <1>2
<1>4. Due(x) = FactsOf(OperandTouches(x)) \cup (Says(FlagTouch(x)) \cup FactsOf(Unspoken(x)))
  BY DueIs, FactsOfImplicit
<1>5. n \in 0..22 BY TransferNamed
<1>6. CASE i = 0
  <2>1. n + i = n BY <1>5, <1>6
  <2>2. Touch(r, acc) \in ToSet(OperandTouches(x)) BY <2>1, NamedIsTouched
  <2> HIDE DEF r, acc, e
  <2>3. <<FALSE, r, NoReg, 0, e>> \in FactsOf(OperandTouches(x)) BY <1>1, <1>3, <2>2, TouchInFacts
  <2> QED BY <1>4, <2>3 DEF r, e
<1>7. CASE i # 0
  <2>1. i \in 1..7 BY <1>7
  <2>2. Touch(r, acc) \in ToSet(Unspoken(x)) BY <2>1, RestIsTouched
  <2> HIDE DEF r, acc, e
  <2>3. <<FALSE, r, NoReg, 0, e>> \in FactsOf(Unspoken(x)) BY <1>1, <1>3, <2>2, TouchInFacts
  <2> QED BY <1>4, <2>3 DEF r, e
<1> QED BY <1>6, <1>7

LEMMA DoneMovesAll ==
  ASSUME TypeInv, FactInv
  PROVE  TransferGroupIsWhole
<1> DEFINE e == IF insn.mnem = <<"Ld64b">> THEN "write" ELSE "read"
           n == RegAt(insn, Ls64Slot(insn.mnem))
<1> SUFFICES ASSUME phase = "done", IsLs64(insn.mnem), NEW i \in 0..7
             PROVE  e \in Effects(AccessOf(regs, X(n + i)))
  BY DEF TransferGroupIsWhole
<1>1. Shaped(insn) /\ MAX_OPERANDS \in Nat BY InfoAssumption DEF TypeInv
<1>2. <<FALSE, X(n + i), NoReg, 0, e>> \in Due(insn) BY <1>1, GroupIsDue
<1> HIDE DEF e, n
<1> QED BY <1>2, AccessIsDue

(* All eight registers of a 64-byte transfer are listed in its direction,
   though its operands name only one. *)
THEOREM TransferGroupIsWholeAlways ==
  ASSUME AllFit
  PROVE  Spec => []TransferGroupIsWhole
<1>1. TypeInv /\ FactInv => TransferGroupIsWhole BY DoneMovesAll
<1> QED BY <1>1, FactInvAlways, PTL
=============================================================================
