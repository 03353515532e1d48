---------------------------- MODULE FieldsProofs ----------------------------
(***************************************************************************)
(* Proofs of the properties of Fields, for every schema and for documents  *)
(* of every size.                                                          *)
(*                                                                         *)
(* What the loops of ast.go compute is shown by induction on the part of   *)
(* the sequence that they have passed.  The induction rests on the least   *)
(* element of a set of numbers and is stated with sets, so that the        *)
(* provers can use it.                                                     *)
(***************************************************************************)
EXTENDS Fields, SequenceTheorems, WellFoundedInduction, TLAPS

(* A set of numbers has a least element. *)
LEMMA NatMin ==
  ASSUME NEW T, T \subseteq Nat, T # {}
  PROVE  \E x \in T : \A y \in T : ~(y < x)
  <1> DEFINE R == OpToRel(<, Nat)
  <1>1. IsWellFoundedOn(R, Nat)
    BY NatLessThanWellFounded
  <1>2. \A x, y \in Nat : y < x => <<y, x>> \in R
    BY DEF OpToRel
  <1> HIDE DEF R
  <1>3. \E x \in T : \A y \in T : ~(<<y, x>> \in R)
    BY <1>1, WFMin
  <1> QED
    BY <1>2, <1>3

(* Induction up to n. *)
LEMMA UpTo ==
  ASSUME NEW n \in Nat, NEW T, 0 \in T, \A k \in 1 .. n : k - 1 \in T => k \in T
  PROVE  0 .. n \subseteq T
  <1> DEFINE B == {k \in 0 .. n : k \notin T}
  <1> SUFFICES ASSUME B # {} PROVE FALSE
    OBVIOUS
  <1>0. B \subseteq Nat
    OBVIOUS
  <1>1. PICK x \in B : \A y \in B : ~(y < x)
    <2> HIDE DEF B
    <2> QED
      BY <1>0, NatMin
  <1>2. x \in 1 .. n /\ x - 1 \notin B
    BY <1>1
  <1> QED
    BY <1>1, <1>2

(* The values after 0 .. n rounds of a loop that starts with y and applies step[i]
   in round i. *)
Steps(n, Y) == [1 .. n -> [Y -> Y]]
Rounds(n, Y, y, step) ==
  {g \in [0 .. n -> Y] : g[0] = y /\ \A i \in 1 .. n : g[i] = step[i][g[i - 1]]}

(* Such a loop has values. *)
LEMMA Iterate ==
  ASSUME NEW n \in Nat, NEW Y, NEW y \in Y, NEW step \in Steps(n, Y)
  PROVE  \E g : g \in Rounds(n, Y, y, step)
  <1> USE DEF Steps
  <1> DEFINE Done(m, g) == g[0] = y /\ \A i \in 1 .. m : g[i] = step[i][g[i - 1]]
             T == {m \in 0 .. n : \E g \in [0 .. m -> Y] : Done(m, g)}
  <1>1. 0 \in T
    <2> DEFINE g == [i \in 0 .. 0 |-> y]
    <2>1. g \in [0 .. 0 -> Y] /\ g[0] = y
      OBVIOUS
    <2>2. Done(0, g)
      BY <2>1
    <2> HIDE DEF g, Done
    <2> QED
      BY <2>1, <2>2
  <1>2. ASSUME NEW k \in 1 .. n, k - 1 \in T PROVE k \in T
    <2>1. PICK f \in [0 .. k - 1 -> Y] : Done(k - 1, f)
      BY <1>2
    <2> DEFINE g == [i \in 0 .. k |-> IF i = k THEN step[k][f[k - 1]] ELSE f[i]]
    <2>2. k - 1 \in 0 .. k - 1 /\ f[k - 1] \in Y /\ step[k] \in [Y -> Y]
      OBVIOUS
    <2>3. g \in [0 .. k -> Y]
      BY <2>2
    <2>4. Done(k, g)
      <3>1. g[0] = y
        BY <2>1
      <3>2. ASSUME NEW i \in 1 .. k PROVE g[i] = step[i][g[i - 1]]
        <4>1. i - 1 \in 0 .. k - 1 /\ g[i - 1] = f[i - 1]
          OBVIOUS
        <4>2. CASE i = k
          BY <4>1, <4>2
        <4>3. CASE i # k
          <5>1. i \in 1 .. k - 1
            BY <4>3
          <5> QED
            BY <2>1, <4>1, <5>1
        <4> QED
          BY <4>2, <4>3
      <3> QED
        BY <3>1, <3>2
    <2> HIDE DEF g, Done
    <2> QED
      BY <2>3, <2>4
  <1> HIDE DEF T
  <1>3. 0 .. n \subseteq T
    BY <1>1, <1>2, UpTo
  <1>4. n \in T
    BY <1>3
  <1> QED
    BY <1>4 DEF T, Rounds

(* The elements of a sequence after an append and a concatenation. *)
LEMMA AppendSet ==
  ASSUME NEW S, NEW s \in Seq(S), NEW x \in S
  PROVE  Append(s, x) \in Seq(S) /\ ToSet(Append(s, x)) = ToSet(s) \cup {x}
  <1> DEFINE a == Append(s, x)
  <1>1. /\ a \in Seq(S) /\ DOMAIN a = 1 .. Len(s) + 1 /\ DOMAIN s = 1 .. Len(s) /\ Len(s) \in Nat
        /\ a[Len(s) + 1] = x /\ \A i \in 1 .. Len(s) : a[i] = s[i]
    OBVIOUS
  <1> HIDE DEF a
  <1>2. ToSet(a) \subseteq ToSet(s) \cup {x}
    BY <1>1 DEF ToSet
  <1>3. ToSet(s) \cup {x} \subseteq ToSet(a)
    BY <1>1 DEF ToSet
  <1> QED
    BY <1>1, <1>2, <1>3 DEF a

LEMMA ConcatSet ==
  ASSUME NEW S, NEW s \in Seq(S), NEW t \in Seq(S)
  PROVE  s \o t \in Seq(S) /\ ToSet(s \o t) = ToSet(s) \cup ToSet(t)
  <1> DEFINE a == s \o t
  <1>1. /\ a \in Seq(S) /\ DOMAIN a = 1 .. Len(s) + Len(t)
        /\ DOMAIN s = 1 .. Len(s) /\ DOMAIN t = 1 .. Len(t) /\ Len(s) \in Nat /\ Len(t) \in Nat
        /\ \A i \in 1 .. Len(s) : a[i] = s[i]
        /\ \A i \in 1 .. Len(s) + Len(t) : i > Len(s) => a[i] = t[i - Len(s)]
    <2>1. /\ a \in Seq(S) /\ Len(a) = Len(s) + Len(t)
          /\ \A i \in 1 .. Len(s) + Len(t) : a[i] = IF i <= Len(s) THEN s[i] ELSE t[i - Len(s)]
      BY ConcatProperties, Zenon
    <2>2. DOMAIN s = 1 .. Len(s) /\ DOMAIN t = 1 .. Len(t) /\ Len(s) \in Nat /\ Len(t) \in Nat
      OBVIOUS
    <2> HIDE DEF a
    <2>3. DOMAIN a = 1 .. Len(a)
      BY <2>1
    <2> QED
      BY <2>1, <2>2, <2>3
  <1> HIDE DEF a
  <1>2. \A i \in 1 .. Len(t) : a[Len(s) + i] = t[i]
    BY <1>1
  <1>3. ToSet(a) \subseteq ToSet(s) \cup ToSet(t)
    <2> SUFFICES ASSUME NEW i \in 1 .. Len(s) + Len(t) PROVE a[i] \in ToSet(s) \cup ToSet(t)
      BY <1>1 DEF ToSet
    <2>1. CASE i <= Len(s)
      BY <1>1, <2>1 DEF ToSet
    <2>2. CASE i > Len(s)
      <3>1. i - Len(s) \in DOMAIN t /\ a[i] = t[i - Len(s)]
        BY <1>1, <2>2
      <3> QED
        BY <3>1 DEF ToSet
    <2> QED
      BY <1>1, <2>1, <2>2
  <1>4. ToSet(s) \subseteq ToSet(a)
    BY <1>1 DEF ToSet
  <1>5. ToSet(t) \subseteq ToSet(a)
    <2> SUFFICES ASSUME NEW i \in 1 .. Len(t) PROVE t[i] \in ToSet(a)
      BY <1>1 DEF ToSet
    <2>1. Len(s) + i \in DOMAIN a
      BY <1>1
    <2> QED
      BY <1>2, <2>1 DEF ToSet
  <1> QED
    BY <1>1, <1>3, <1>4, <1>5 DEF a

(* The documents are sequences of definitions, which are sequences of selections. *)
LEMMA DocumentType ==
  ASSUME NEW doc \in Documents
  PROVE  /\ doc \in Seq(Definitions)
         /\ \A d \in Definitions : d.sels \in Seq(FieldNames \cup {Fragment})
  <1>1. \A S : \A n \in Nat : Upto(S, n) \subseteq Seq(S)
    BY DEF Upto
  <1>2. doc \in Seq(Definitions)
    BY <1>1, FieldsAssumption DEF Documents
  <1>3. Selections \subseteq Seq(FieldNames \cup {Fragment})
    BY <1>1, FieldsAssumption DEF Selections
  <1> QED
    BY <1>2, <1>3 DEF Definitions

OfOperation(doc, op) == {d \in ToSet(doc) : d.op = op}

(* operationDefinitionsWithOperation keeps the definitions of the operation and no
   others. *)
LEMMA DefinitionsWithOperation ==
  ASSUME NEW S, NEW doc \in Seq(S), NEW op
  PROVE  /\ operationDefinitionsWithOperation(doc, op) \in Seq(S)
         /\ ToSet(operationDefinitionsWithOperation(doc, op)) = OfOperation(doc, op)
  <1> DEFINE n == Len(doc)
             Def(g) == [k \in 0 .. n |->
                          IF k = 0 THEN << >>
                          ELSE IF doc[k].op = op THEN Append(g[k - 1], doc[k]) ELSE g[k - 1]]
             f == CHOOSE g : g = Def(g)
  <1>1. n \in Nat /\ DOMAIN doc = 1 .. n /\ \A k \in 1 .. n : doc[k] \in S
    OBVIOUS
  <1>2. f = Def(f)
    <2> DEFINE step == [k \in 1 .. n |->
                         [y \in Seq(S) |-> IF doc[k].op = op THEN Append(y, doc[k]) ELSE y]]
    <2>1. step \in [1 .. n -> [Seq(S) -> Seq(S)]] /\ << >> \in Seq(S)
      BY <1>1
    <2> HIDE DEF step
    <2>2. PICK g \in [0 .. n -> Seq(S)] :
            g[0] = << >> /\ \A k \in 1 .. n : g[k] = step[k][g[k - 1]]
      <3>1. step \in Steps(n, Seq(S))
        BY <2>1, Zenon DEF Steps
      <3>2. \E g : g \in Rounds(n, Seq(S), << >>, step)
        BY <1>1, <2>1, <3>1, Iterate, Zenon
      <3> QED
        BY <3>2, Zenon DEF Rounds
    <2>3. ASSUME NEW k \in 1 .. n
          PROVE  g[k] = IF doc[k].op = op THEN Append(g[k - 1], doc[k]) ELSE g[k - 1]
      <3>1. g[k - 1] \in Seq(S)
        BY <1>1
      <3> QED
        BY <2>2, <3>1 DEF step
    <2>4. ASSUME NEW k \in 0 .. n PROVE g[k] = Def(g)[k]
      <3>1. CASE k = 0
        <4>1. Def(g)[k] = << >>
          BY <3>1, Zenon
        <4> QED
          BY <2>2, <3>1, <4>1
      <3>2. CASE k # 0
        <4>1. k \in 1 .. n
          BY <1>1, <3>2
        <4>2. Def(g)[k] = IF doc[k].op = op THEN Append(g[k - 1], doc[k]) ELSE g[k - 1]
          BY <3>2, Zenon
        <4> QED
          BY <2>3, <4>1, <4>2, Zenon
      <3> QED
        BY <3>1, <3>2
    <2>5. DOMAIN Def(g) = 0 .. n /\ DOMAIN g = 0 .. n
      BY Zenon
    <2>6. Def(g) = [k \in 0 .. n |-> Def(g)[k]] /\ g = [k \in 0 .. n |-> g[k]]
      BY <2>5, Zenon
    <2> HIDE DEF Def
    <2>7. g = Def(g)
      BY <2>4, <2>6, Zenon
    <2> QED
      BY <2>7, Zenon
  <1>3. operationDefinitionsWithOperation(doc, op) = f[n]
    BY DEF operationDefinitionsWithOperation
  <1> HIDE DEF f
  <1>4. f[0] = << >> /\ \A k \in 1 .. n : f[k] = IF doc[k].op = op THEN Append(f[k - 1], doc[k]) ELSE f[k - 1]
    <2>1. f[0] = Def(f)[0] /\ \A k \in 1 .. n : f[k] = Def(f)[k]
      BY <1>2, Zenon
    <2>2. 0 \in 0 .. n /\ \A k \in 1 .. n : k \in 0 .. n /\ k # 0
      BY <1>1
    <2>3. Def(f)[0] = << >>
      BY <2>2, Zenon
    <2>4. \A k \in 1 .. n : Def(f)[k] = IF doc[k].op = op THEN Append(f[k - 1], doc[k]) ELSE f[k - 1]
      BY <2>2, Zenon
    <2> QED
      BY <2>1, <2>3, <2>4, Zenon
  <1> HIDE DEF Def, n
  <1> DEFINE Kept(k) == {d \in {doc[j] : j \in 1 .. k} : d.op = op}
             T == {k \in 0 .. n : f[k] \in Seq(S) /\ ToSet(f[k]) = Kept(k)}
  <1>5. 0 \in T
    <2>1. ToSet(<< >>) = {} /\ Kept(0) = {} /\ << >> \in Seq(S)
      BY DEF ToSet
    <2>2. 0 \in 0 .. n
      BY <1>1
    <2> QED
      BY <1>4, <2>1, <2>2, Zenon
  <1>6. ASSUME NEW k \in 1 .. n, k - 1 \in T PROVE k \in T
    <2>0. k \in 0 .. n
      BY <1>1
    <2>1. f[k - 1] \in Seq(S) /\ ToSet(f[k - 1]) = Kept(k - 1) /\ doc[k] \in S
      BY <1>1, <1>6
    <2>2. {doc[j] : j \in 1 .. k} = {doc[j] : j \in 1 .. k - 1} \cup {doc[k]}
      BY <1>1
    <2>3. CASE doc[k].op = op
      <3>1. Kept(k) = Kept(k - 1) \cup {doc[k]}
        BY <2>2, <2>3
      <3>2. f[k] = Append(f[k - 1], doc[k])
        BY <1>4, <2>3
      <3> QED
        <4> DEFINE p == f[k - 1]
        <4>1. p \in Seq(S) /\ doc[k] \in S /\ f[k] = Append(p, doc[k]) /\ ToSet(p) = Kept(k - 1)
          BY <2>1, <3>2
        <4> HIDE DEF p
        <4>2. f[k] \in Seq(S) /\ ToSet(f[k]) = ToSet(p) \cup {doc[k]}
          BY <4>1, AppendSet
        <4> QED
          BY <2>0, <3>1, <4>1, <4>2, Zenon
    <2>4. CASE doc[k].op # op
      <3>1. Kept(k) = Kept(k - 1)
        BY <2>2, <2>4
      <3>2. f[k] = f[k - 1]
        BY <1>4, <2>4
      <3> QED
        BY <2>0, <2>1, <3>1, <3>2, Zenon
    <2> QED
      BY <2>3, <2>4
  <1> HIDE DEF T
  <1>7. n \in T
    BY <1>1, <1>5, <1>6, UpTo
  <1>8. Kept(n) = OfOperation(doc, op)
    BY <1>1 DEF ToSet, OfOperation
  <1> QED
    BY <1>3, <1>7, <1>8 DEF T

(* A flattened sequence has the elements of its parts. *)
LEMMA FlattenElements ==
  ASSUME NEW S, NEW seqs \in Seq(Seq(S))
  PROVE  /\ FlattenSeq(seqs) \in Seq(S)
         /\ ToSet(FlattenSeq(seqs)) = UNION {ToSet(seqs[j]) : j \in DOMAIN seqs}
  <1> DEFINE n == Len(seqs)
             Def(g) == [i \in 1 .. n |-> IF i = 1 THEN seqs[i] ELSE g[i - 1] \o seqs[i]]
             f == CHOOSE g : g = Def(g)
  <1>1. n \in Nat /\ DOMAIN seqs = 1 .. n /\ \A k \in 1 .. n : seqs[k] \in Seq(S)
    OBVIOUS
  <1>2. f = Def(f)
    <2> DEFINE step == [k \in 1 .. n |-> [y \in Seq(S) |-> y \o seqs[k]]]
    <2>1. step \in Steps(n, Seq(S)) /\ << >> \in Seq(S)
      <3>1. \A k \in 1 .. n : \A y \in Seq(S) : y \o seqs[k] \in Seq(S)
        BY <1>1, ConcatSet
      <3> QED
        BY <3>1 DEF Steps
    <2> HIDE DEF step
    <2>2. PICK g \in [0 .. n -> Seq(S)] :
            g[0] = << >> /\ \A k \in 1 .. n : g[k] = step[k][g[k - 1]]
      <3>1. \E g : g \in Rounds(n, Seq(S), << >>, step)
        BY <1>1, <2>1, Iterate, Zenon
      <3> QED
        BY <3>1, Zenon DEF Rounds
    <2>3. ASSUME NEW k \in 1 .. n
          PROVE  g[k] = IF k = 1 THEN seqs[k] ELSE g[k - 1] \o seqs[k]
      <3>0. k - 1 \in 0 .. n
        BY <1>1
      <3>1. g[k - 1] \in Seq(S)
        BY <3>0
      <3>2. g[k] = g[k - 1] \o seqs[k]
        BY <2>2, <3>1 DEF step
      <3>3. << >> \o seqs[k] = seqs[k]
        BY <1>1, ConcatEmptySeq
      <3> QED
        <4>1. CASE k = 1
          <5>1. g[k - 1] = << >>
            BY <2>2, <4>1
          <5> QED
            BY <3>2, <3>3, <4>1, <5>1, Zenon
        <4>2. CASE k # 1
          BY <3>2, <4>2, Zenon
        <4> QED
          BY <4>1, <4>2
    <2> DEFINE h == [k \in 1 .. n |-> g[k]]
    <2>4. ASSUME NEW k \in 1 .. n PROVE h[k] = Def(h)[k]
      <3>1. h[k] = g[k]
        BY Zenon
      <3>2. k # 1 => h[k - 1] = g[k - 1]
        BY <1>1
      <3>3. Def(h)[k] = IF k = 1 THEN seqs[k] ELSE h[k - 1] \o seqs[k]
        BY Zenon
      <3> HIDE DEF h, Def
      <3> QED
        BY <2>3, <3>1, <3>2, <3>3
    <2> DEFINE e(k) == IF k = 1 THEN seqs[k] ELSE h[k - 1] \o seqs[k]
    <2>5. \A k \in 1 .. n : h[k] = e(k)
      BY <2>4, Zenon
    <2>6. h = [k \in 1 .. n |-> h[k]]
      BY Zenon
    <2> HIDE DEF h
    <2>7. h = Def(h)
      BY <2>5, <2>6, Zenon
    <2> HIDE DEF Def
    <2> QED
      BY <2>7, Zenon
  <1>3. n # 0 => FlattenSeq(seqs) = f[n]
    BY Zenon DEF FlattenSeq
  <1> HIDE DEF f
  <1>4. \A k \in 1 .. n : f[k] = IF k = 1 THEN seqs[k] ELSE f[k - 1] \o seqs[k]
    <2>1. \A k \in 1 .. n : f[k] = Def(f)[k]
      BY <1>2, Zenon
    <2>2. \A k \in 1 .. n : Def(f)[k] = IF k = 1 THEN seqs[k] ELSE f[k - 1] \o seqs[k]
      BY Zenon
    <2> QED
      BY <2>1, <2>2, Zenon
  <1> DEFINE All(k) == UNION {ToSet(seqs[j]) : j \in 1 .. k}
  <1>5. CASE n = 0
    <2>1. seqs = << >> /\ FlattenSeq(seqs) = << >>
      BY <1>5 DEF FlattenSeq
    <2>2. ToSet(<< >>) = {} /\ << >> \in Seq(S) /\ DOMAIN << >> = {}
      BY DEF ToSet
    <2> QED
      BY <2>1, <2>2
  <1>6. CASE n # 0
    <2> HIDE DEF Def, n
    <2> DEFINE T == {k \in 0 .. n : k # 0 => f[k] \in Seq(S) /\ ToSet(f[k]) = All(k)}
    <2>1. 0 \in T
      BY <1>1
    <2>2. ASSUME NEW k \in 1 .. n, k - 1 \in T PROVE k \in T
      <3>1. k \in 0 .. n /\ seqs[k] \in Seq(S)
        BY <1>1
      <3>2. CASE k = 1
        <4>1. f[k] = seqs[k]
          BY <1>4, <3>2
        <4>2. All(k) = ToSet(seqs[k])
          BY <3>2
        <4> QED
          BY <3>1, <4>1, <4>2, Zenon
      <3>3. CASE k # 1
        <4>1. f[k - 1] \in Seq(S) /\ ToSet(f[k - 1]) = All(k - 1)
          BY <1>1, <2>2, <3>3
        <4>2. f[k] = f[k - 1] \o seqs[k]
          BY <1>4, <3>3
        <4>3. All(k) = All(k - 1) \cup ToSet(seqs[k])
          <5>1. 1 .. k = 1 .. (k - 1) \cup {k}
            BY <1>1
          <5> QED
            BY <5>1, Zenon
        <4> DEFINE p == f[k - 1]
        <4>4. p \in Seq(S) /\ f[k] = p \o seqs[k] /\ ToSet(p) = All(k - 1)
          BY <4>1, <4>2
        <4> HIDE DEF p
        <4>5. f[k] \in Seq(S) /\ ToSet(f[k]) = ToSet(p) \cup ToSet(seqs[k])
          BY <3>1, <4>4, ConcatSet
        <4> QED
          BY <3>1, <4>3, <4>4, <4>5, Zenon
      <3> QED
        BY <3>2, <3>3
    <2> HIDE DEF T
    <2>3. n \in T
      <3>1. 0 .. n \subseteq T
        BY <1>1, <2>1, <2>2, UpTo, Zenon
      <3> QED
        BY <1>1, <3>1
    <2>4. f[n] \in Seq(S) /\ ToSet(f[n]) = All(n)
      BY <1>6, <2>3, Zenon DEF T
    <2> QED
      BY <1>1, <1>3, <1>6, <2>4, Zenon
  <1> QED
    BY <1>5, <1>6

(* The names of a document are those of the fields that its subscriptions select,
   with empty names for what is no field. *)
LEMMA FieldNamesOfDocument ==
  ASSUME NEW doc \in Documents
  PROVE  LET names == SubscriptionFieldNamesFromDocument(doc)
         IN  /\ names \in Seq(FieldNames \cup {NoName})
             /\ \A f \in FieldNames : f \in ToSet(names) <=>
                  \E k \in DOMAIN doc : doc[k].op = "subscription" /\ f \in ToSet(doc[k].sels)
  <1> DEFINE N == FieldNames \cup {NoName}
             defs == operationDefinitionsWithOperation(doc, "subscription")
             sets == selectionSetsForOperationDefinitions(defs)
             lists == [k \in DOMAIN sets |-> nameForSelectionSet(sets[k])]
             names == SubscriptionFieldNamesFromDocument(doc)
  <1>1. /\ doc \in Seq(Definitions) /\ \A d \in Definitions : d.sels \in Seq(FieldNames \cup {Fragment})
    BY DocumentType
  <1>2. defs \in Seq(Definitions) /\ ToSet(defs) = {d \in ToSet(doc) : d.op = "subscription"}
    <2> DEFINE op == "subscription"
    <2> HIDE DEF op
    <2>1. /\ operationDefinitionsWithOperation(doc, op) \in Seq(Definitions)
          /\ ToSet(operationDefinitionsWithOperation(doc, op)) = OfOperation(doc, op)
      BY <1>1, DefinitionsWithOperation
    <2> QED
      BY <2>1, Zenon DEF op, OfOperation
  <1>3. names = FlattenSeq(lists)
    BY Zenon DEF SubscriptionFieldNamesFromDocument, namesForSelectionSets
  <1>4. ASSUME NEW s \in Seq(FieldNames \cup {Fragment})
        PROVE  /\ nameForSelectionSet(s) \in Seq(N)
               /\ \A f \in FieldNames : f \in ToSet(nameForSelectionSet(s)) <=> f \in ToSet(s)
    <2>1. NoName \notin FieldNames /\ Fragment \notin FieldNames
      BY FieldsAssumption
    <2>2. nameForSelectionSet(s) \in Seq(N)
      BY DEF nameForSelectionSet
    <2>3. \A f \in FieldNames : f \in ToSet(nameForSelectionSet(s)) <=> f \in ToSet(s)
      BY <2>1 DEF nameForSelectionSet, ToSet
    <2> QED
      BY <2>2, <2>3
  <1> HIDE DEF defs
  <1>5. /\ DOMAIN sets = DOMAIN defs /\ DOMAIN lists = DOMAIN defs
        /\ \A k \in DOMAIN defs : sets[k] = defs[k].sels /\ lists[k] = nameForSelectionSet(defs[k].sels)
    BY Zenon DEF selectionSetsForOperationDefinitions
  <1>6. \A k \in DOMAIN defs : defs[k].sels \in Seq(FieldNames \cup {Fragment})
    BY <1>1, <1>2
  <1>7. lists \in Seq(Seq(N))
    <2>1. \A k \in DOMAIN defs : lists[k] \in Seq(N)
      BY <1>4, <1>5, <1>6
    <2>2. Len(defs) \in Nat /\ DOMAIN defs = 1 .. Len(defs)
      BY <1>2
    <2>3. lists = [k \in 1 .. Len(defs) |-> lists[k]]
      BY <1>5, <2>2, Zenon
    <2> HIDE DEF lists
    <2> QED
      BY <2>1, <2>2, <2>3
  <1> HIDE DEF lists, N
  <1>8. names \in Seq(N) /\ ToSet(names) = UNION {ToSet(lists[j]) : j \in DOMAIN lists}
    BY <1>3, <1>7, FlattenElements
  <1> HIDE DEF names, sets
  <1>9. ASSUME NEW f \in FieldNames
        PROVE  f \in ToSet(names) <=>
                 \E k \in DOMAIN doc : doc[k].op = "subscription" /\ f \in ToSet(doc[k].sels)
    <2>1. f \in ToSet(names) <=> \E j \in DOMAIN defs : f \in ToSet(lists[j])
      BY <1>5, <1>8
    <2>2. \A j \in DOMAIN defs : f \in ToSet(lists[j]) <=> f \in ToSet(defs[j].sels)
      BY <1>4, <1>5, <1>6
    <2>3. (\E j \in DOMAIN defs : f \in ToSet(defs[j].sels)) <=> \E d \in ToSet(defs) : f \in ToSet(d.sels)
      BY Zenon DEF ToSet
    <2>4. (\E d \in ToSet(defs) : f \in ToSet(d.sels)) <=>
            \E d \in ToSet(doc) : d.op = "subscription" /\ f \in ToSet(d.sels)
      BY <1>2, Zenon
    <2>5. (\E d \in ToSet(doc) : d.op = "subscription" /\ f \in ToSet(d.sels)) <=>
            \E k \in DOMAIN doc : doc[k].op = "subscription" /\ f \in ToSet(doc[k].sels)
      BY Zenon DEF ToSet
    <2> QED
      BY <2>1, <2>2, <2>3, <2>4, <2>5, Zenon
  <1> QED
    BY <1>8, <1>9, Zenon DEF names, N

(***************************************************************************)
(* The invariant.                                                          *)
(***************************************************************************)
Topics == UNION {ToSet(Schema[f]) : f \in DOMAIN Schema}

FieldsType ==
  /\ sub.doc \in Documents
  /\ Names \in Seq(FieldNames \cup {NoName})
  /\ next \in Nat /\ next <= Len(Names) + 1 /\ at \in Nat
  /\ topics \in Seq(Topics)

(* What the fields before the current one have asked for, and the current one. *)
AskedBefore == UNION {ToSet(Schema[Names[k]]) : k \in 1 .. next - 1}
AskedNow    == {Schema[Names[next]][j] : j \in 1 .. at}

(* Before the names are known nothing is asked for. *)
StartInv == outcome = "start" => next = 1 /\ at = 0 /\ topics = << >>

(* The topics are those of the fields that were passed and of the part of the
   current field that was passed. *)
TopicsInv ==
  outcome \in {"fields", "stored"} =>
    /\ next >= 1
    /\ \A k \in 1 .. next - 1 : Names[k] \in DOMAIN Schema
    /\ at # 0 => /\ next <= Len(Names) /\ Names[next] \in DOMAIN Schema
                 /\ at <= Len(Schema[Names[next]])
    /\ ToSet(topics) = AskedBefore \cup AskedNow
    /\ outcome = "stored" => next = Len(Names) + 1

Inv == FieldsType /\ StartInv /\ MatchesSelected /\ TopicsInv /\ IsInjective(topics)

(* A topic that is subscribed to is in the list, once. *)
LEMMA SubscribeOnce ==
  ASSUME NEW S, NEW ts \in Seq(S), NEW topic \in S, IsInjective(ts)
  PROVE  /\ Subscribe(ts, topic) \in Seq(S) /\ IsInjective(Subscribe(ts, topic))
         /\ ToSet(Subscribe(ts, topic)) = ToSet(ts) \cup {topic}
  <1>1. CASE topic \in ToSet(ts)
    BY <1>1 DEF Subscribe
  <1>2. CASE topic \notin ToSet(ts)
    <2> DEFINE a == Append(ts, topic)
    <2>1. a \in Seq(S) /\ ToSet(a) = ToSet(ts) \cup {topic}
      BY AppendSet
    <2>2. /\ DOMAIN a = 1 .. Len(ts) + 1 /\ DOMAIN ts = 1 .. Len(ts) /\ Len(ts) \in Nat
          /\ a[Len(ts) + 1] = topic /\ \A i \in 1 .. Len(ts) : a[i] = ts[i]
      OBVIOUS
    <2>3. Subscribe(ts, topic) = a
      BY <1>2 DEF Subscribe
    <2> HIDE DEF a
    <2>4. \A i \in 1 .. Len(ts) : ts[i] # topic
      BY <1>2, <2>2 DEF ToSet
    <2>5. IsInjective(a)
      BY <2>2, <2>4 DEF IsInjective
    <2> QED
      BY <2>1, <2>3, <2>5
  <1> QED
    BY <1>1, <1>2

(* The topics of the schema. *)
LEMMA SchemaTopics ==
  ASSUME NEW f \in DOMAIN Schema
  PROVE  /\ Len(Schema[f]) \in Nat /\ DOMAIN Schema[f] = 1 .. Len(Schema[f])
         /\ \A j \in 1 .. Len(Schema[f]) : Schema[f][j] \in Topics
         /\ ToSet(Schema[f]) = {Schema[f][j] : j \in 1 .. Len(Schema[f])}
  <1> DEFINE s == Schema[f]
  <1>1. s \in Seq(ToSet(s))
    BY FieldsAssumption
  <1> HIDE DEF s
  <1>2. Len(s) \in Nat /\ DOMAIN s = 1 .. Len(s)
    BY <1>1
  <1>3. ToSet(s) = {s[j] : j \in 1 .. Len(s)}
    BY <1>2, Zenon DEF ToSet
  <1>4. ToSet(s) \subseteq Topics
    BY DEF Topics, s
  <1> QED
    BY <1>2, <1>3, <1>4 DEF s

(* The initial states satisfy the invariant. *)
LEMMA InitInv == Init => Inv
  <1> SUFFICES ASSUME Init PROVE Inv
    OBVIOUS
  <1>1. sub.doc \in Documents /\ Names = << >> /\ next = 1 /\ at = 0 /\ topics = << >> /\ outcome = "start"
    BY DEF Init
  <1>2. FieldsType
    BY <1>1 DEF FieldsType
  <1>3. StartInv /\ MatchesSelected /\ TopicsInv
    BY <1>1 DEF StartInv, MatchesSelected, TopicsInv
  <1>4. IsInjective(topics)
    BY <1>1 DEF IsInjective
  <1> QED
    BY <1>2, <1>3, <1>4 DEF Inv

(* gqlStart takes the names from the document. *)
LEMMA GqlStartInv ==
  ASSUME Inv, GqlStart
  PROVE  Inv'
  <1>1. /\ outcome = "start" /\ UNCHANGED <<sub, next, at, topics>>
        /\ sub.doc \in Documents /\ next = 1 /\ at = 0 /\ topics = << >>
    BY DEF Inv, FieldsType, StartInv, GqlStart
  <1>2. IsInjective(topics')
    BY <1>1 DEF Inv
  <1>3. CASE outcome' = "refused" /\ UNCHANGED Names
    BY <1>1, <1>2, <1>3 DEF Inv, FieldsType, StartInv, MatchesSelected, TopicsInv
  <1>4. CASE outcome' = "fields" /\ Names' = SubscriptionFieldNamesFromDocument(sub.doc)
    <2>1. /\ Names' \in Seq(FieldNames \cup {NoName})
          /\ \A f \in FieldNames : f \in ToSet(Names') <=>
               \E k \in DOMAIN sub.doc : sub.doc[k].op = "subscription" /\ f \in ToSet(sub.doc[k].sels)
      BY <1>1, <1>4, FieldNamesOfDocument, Zenon
    <2>2. FieldsType'
      BY <1>1, <2>1 DEF Inv, FieldsType
    <2>3. MatchesSelected'
      <3> SUFFICES ASSUME NEW f \in FieldNames PROVE MatchesField(f)' <=> Selected(f)'
        BY Zenon DEF MatchesSelected
      <3>1. Selected(f)' <=> f \in ToSet(Names')
        BY <1>1, <2>1, Zenon DEF Selected
      <3>2. MatchesField(f)' <=> f \in ToSet(Names')
        <4>1. Names' = << >> => DOMAIN Names' = {}
          OBVIOUS
        <4> QED
          BY <4>1, Zenon DEF MatchesField, ToSet
      <3> QED
        BY <3>1, <3>2, Zenon
    <2>4. TopicsInv'
      <3>1. AskedBefore' = {} /\ AskedNow' = {} /\ ToSet(topics') = {}
        BY <1>1 DEF AskedBefore, AskedNow, ToSet
      <3> QED
        BY <1>1, <1>4, <3>1 DEF TopicsInv
    <2> QED
      BY <1>2, <1>4, <2>2, <2>3, <2>4 DEF Inv, StartInv
  <1> QED
    BY <1>3, <1>4 DEF GqlStart

(* The names and the document stay as they are. *)
LEMMA NamesStay ==
  ASSUME Inv, UNCHANGED <<sub, Names>>, outcome \notin {"start", "refused"}
  PROVE  MatchesSelected'
  BY DEF Inv, MatchesSelected, MatchesField, Selected

(* A field asks for its next topic. *)
LEMMA SubscriberSubscribeInv ==
  ASSUME Inv, SubscriberSubscribe
  PROVE  Inv'
  <1> DEFINE s == Schema[Names[next]]
             topic == s[at + 1]
  <1>1. /\ outcome = "fields" /\ next <= Len(Names) /\ Names[next] \in DOMAIN Schema
        /\ at < Len(s) /\ UNCHANGED <<sub, Names, next>>
    BY DEF SubscriberSubscribe, InFields
  <1>2. MatchesSelected'
    BY <1>1, NamesStay
  <1>3. CASE outcome' = "error" /\ UNCHANGED <<at, topics>>
    BY <1>1, <1>2, <1>3 DEF Inv, FieldsType, StartInv, TopicsInv
  <1>4. CASE topics' = Subscribe(topics, topic) /\ at' = at + 1 /\ UNCHANGED outcome
    <2>1. topic \in Topics /\ Len(s) \in Nat /\ at \in Nat
      BY <1>1, SchemaTopics DEF Inv, FieldsType
    <2>2. /\ topics' \in Seq(Topics) /\ IsInjective(topics')
          /\ ToSet(topics') = ToSet(topics) \cup {topic}
      <3> HIDE DEF topic
      <3> QED
        BY <1>4, <2>1, SubscribeOnce DEF Inv, FieldsType
    <2>3. FieldsType'
      BY <1>1, <1>4, <2>2 DEF Inv, FieldsType
    <2>4. AskedBefore' = AskedBefore
      BY <1>1 DEF AskedBefore
    <2>5. AskedNow' = AskedNow \cup {topic}
      <3>1. 1 .. at + 1 = (1 .. at) \cup {at + 1}
        BY <2>1
      <3>2. AskedNow' = {s[j] : j \in 1 .. at + 1}
        BY <1>1, <1>4, Zenon DEF AskedNow
      <3> QED
        BY <3>1, <3>2, Zenon DEF AskedNow
    <2>6. TopicsInv'
      <3>1. ToSet(topics') = AskedBefore' \cup AskedNow'
        BY <1>1, <2>2, <2>4, <2>5 DEF Inv, TopicsInv
      <3>2. at' <= Len(s)
        BY <1>1, <1>4, <2>1
      <3> QED
        BY <1>1, <1>4, <3>1, <3>2 DEF Inv, TopicsInv
    <2> QED
      BY <1>1, <1>2, <1>4, <2>2, <2>3, <2>6 DEF Inv, StartInv
  <1> QED
    BY <1>3, <1>4 DEF SubscriberSubscribe

(* The next field. *)
LEMMA FieldSubscribedInv ==
  ASSUME Inv, FieldSubscribed
  PROVE  Inv'
  <1> DEFINE s == Schema[Names[next]]
  <1>1. /\ outcome = "fields" /\ next <= Len(Names) /\ Names[next] \in DOMAIN Schema
        /\ at = Len(s) /\ next' = next + 1 /\ at' = 0 /\ UNCHANGED <<sub, Names, topics, outcome>>
    BY DEF FieldSubscribed, InFields
  <1>2. MatchesSelected'
    BY <1>1, NamesStay
  <1>3. next \in Nat /\ next >= 1
    BY <1>1 DEF Inv, FieldsType, TopicsInv
  <1>4. FieldsType'
    BY <1>1, <1>3 DEF Inv, FieldsType
  <1>5. TopicsInv'
    <2>1. 1 .. next' - 1 = (1 .. next - 1) \cup {next}
      BY <1>1, <1>3
    <2>2. AskedNow' = {} /\ AskedNow = ToSet(s)
      BY <1>1, SchemaTopics DEF AskedNow
    <2>3. AskedBefore' = AskedBefore \cup ToSet(s)
      BY <1>1, <2>1, Zenon DEF AskedBefore
    <2>4. \A k \in 1 .. next' - 1 : Names'[k] \in DOMAIN Schema
      BY <1>1, <2>1 DEF Inv, TopicsInv
    <2> QED
      BY <1>1, <1>3, <2>2, <2>3, <2>4 DEF Inv, TopicsInv
  <1> QED
    BY <1>1, <1>2, <1>4, <1>5 DEF Inv, StartInv

(* The steps that end the start, and those that do nothing. *)
LEMMA EndInv ==
  ASSUME Inv, UNCHANGED <<sub, Names, next, at, topics>>,
         \/ outcome = "fields" /\ outcome' = "error"
         \/ outcome = "fields" /\ outcome' = "stored" /\ next > Len(Names)
         \/ outcome' = outcome
  PROVE  Inv'
  <1>1. FieldsType' /\ IsInjective(topics')
    BY DEF Inv, FieldsType
  <1>2. MatchesSelected'
    BY DEF Inv, MatchesSelected, MatchesField, Selected
  <1>3. StartInv'
    BY DEF Inv, StartInv
  <1>4. TopicsInv'
    BY DEF Inv, FieldsType, TopicsInv, AskedBefore, AskedNow
  <1> QED
    BY <1>1, <1>2, <1>3, <1>4 DEF Inv

(* Every step keeps the invariant. *)
LEMMA NextInv ==
  ASSUME Inv, [Next]_vars
  PROVE  Inv'
  <1>1. CASE GqlStart
    BY <1>1, GqlStartInv
  <1>2. CASE FieldNotFound
    BY <1>2, EndInv DEF FieldNotFound, InFields
  <1>3. CASE SubscriberSubscribe
    BY <1>3, SubscriberSubscribeInv
  <1>4. CASE FieldSubscribed
    BY <1>4, FieldSubscribedInv
  <1>5. CASE StoreReader
    BY <1>5, EndInv DEF StoreReader
  <1>6. CASE UNCHANGED vars
    BY <1>6, EndInv DEF vars
  <1> QED
    BY <1>1, <1>2, <1>3, <1>4, <1>5, <1>6 DEF Next

(* The invariant holds throughout. *)
LEMMA InvAlways == Spec => []Inv
  <1>1. Init => Inv
    BY InitInv
  <1>2. Inv /\ [Next]_vars => Inv'
    BY NextInv
  <1> QED
    BY <1>1, <1>2, PTL DEF Spec

(* A reader that is stored has passed every selected field. *)
LEMMA InvTopics == Inv => TopicsAreExact
  <1> SUFFICES ASSUME Inv, outcome = "stored"
               PROVE  ToSet(topics) = UNION {ToSet(Schema[f]) : f \in {g \in DOMAIN Schema : Selected(g)}}
    BY DEF Inv, TopicsAreExact
  <1>1. /\ next = Len(Names) + 1 /\ at = 0 /\ Len(Names) \in Nat
        /\ \A k \in 1 .. Len(Names) : Names[k] \in DOMAIN Schema
        /\ ToSet(topics) = AskedBefore \cup AskedNow
    BY DEF Inv, FieldsType, TopicsInv
  <1>2. DOMAIN Names = 1 .. Len(Names)
    BY DEF Inv, FieldsType
  <1>3. ToSet(topics) = UNION {ToSet(Schema[Names[k]]) : k \in 1 .. Len(Names)}
    BY <1>1 DEF AskedBefore, AskedNow
  <1>4. \A f \in DOMAIN Schema : Selected(f) <=> \E k \in 1 .. Len(Names) : Names[k] = f
    <2>1. DOMAIN Schema \subseteq FieldNames
      BY DEF FieldNames
    <2>2. \A f \in FieldNames : MatchesField(f) <=> Selected(f)
      BY DEF Inv, MatchesSelected
    <2>3. Names = << >> => Len(Names) = 0
      OBVIOUS
    <2>4. \A f : MatchesField(f) <=> \E k \in 1 .. Len(Names) : Names[k] = f
      BY <1>1, <1>2, <2>3 DEF MatchesField
    <2> QED
      BY <2>1, <2>2, <2>4, Zenon
  <1>5. {g \in DOMAIN Schema : Selected(g)} = {Names[k] : k \in 1 .. Len(Names)}
    BY <1>1, <1>4, Zenon
  <1> QED
    BY <1>3, <1>5, Zenon

(* MatchesField tells exactly the fields that the subscriptions of the document
   select, for documents of every size: what ast.go filters, maps and flattens
   loses no field and adds none. *)
THEOREM MatchesSelectedAlways == Spec => []MatchesSelected
  <1>1. Inv => MatchesSelected
    BY DEF Inv
  <1> QED
    BY <1>1, InvAlways, PTL

(* A redis reader that is stored has exactly the topics that the selected fields
   asked for, each once, whatever the schema. *)
THEOREM TopicsExactAlways == Spec => []TopicsAreExact
  BY InvAlways, InvTopics, PTL
=============================================================================
