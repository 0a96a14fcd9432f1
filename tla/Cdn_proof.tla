------------------------------- MODULE Cdn_proof ------------------------------
(***************************************************************************)
(* Of module Cdn: that every documented storage endpoint is rewritten to   *)
(* the dual-stack endpoint of the same bucket, service and region, that    *)
(* the rewrites settle, whatever labels a name has, and, with what         *)
(* Chain_proof shows of the chain, that the plans of the real providers    *)
(* keep its promises and embed no address but their own.                   *)
(*                                                                         *)
(* A rewrite is a program over indices. What each of its splices leaves is *)
(* stated label by label, and each shape of a name is followed through.    *)
(***************************************************************************)
EXTENDS Cdn, Chain_proof

(* The search for a label yields the index of its first occurrence, or -1. *)
LEMMA PositionIs ==
  ASSUME NEW S, NEW v \in Seq(S), NEW item
  PROVE  /\ Position(v, item) \in -1..Len(v) - 1
         /\ \A k \in 0..Len(v) - 1 :
              Position(v, item) = k <=>
                v[k + 1] = item /\ \A j \in 1..k : v[j] # item
         /\ Position(v, item) = -1 <=> \A j \in 1..Len(v) : v[j] # item
<1> DEFINE I == {i \in 1..Len(v) : v[i] = item}
<1>1. Len(v) \in Nat
  BY LenProperties
<1>2. CASE I = {}
  <2>1. Position(v, item) = -1
    BY <1>2 DEF Position, SelectInSeq
  <2>2. \A j \in 1..Len(v) : v[j] # item
    BY <1>2
  <2> QED
    BY <1>1, <2>1, <2>2
<1>3. CASE I # {}
  <2>1. Position(v, item) = Min(I) - 1
    BY <1>3 DEF Position, SelectInSeq
  <2>2. Min(I) = Least(I)
    BY DEF Min, Least
  <2>3. I \in SUBSET Nat
    OBVIOUS
  <2>4. Least(I) \in I /\ \A i \in I : Least(I) <= i
    BY <1>3, <2>3, LeastIsLeast
  <2> DEFINE m == Least(I)
  <2>5. m \in 1..Len(v) /\ v[m] = item /\ Position(v, item) = m - 1
    BY <2>1, <2>2, <2>4
  <2>6. \A j \in 1..Len(v) : v[j] = item => m <= j
    BY <2>4
  <2> HIDE DEF m, I
  <2> QED
    BY <1>1, <2>5, <2>6
<1> QED
  BY <1>2, <1>3

(* A slice of a sequence, pointwise.                                       *)
LEMMA SliceIs ==
  ASSUME NEW S, NEW v \in Seq(S),
         NEW a \in 1..Len(v) + 1, NEW b \in a - 1..Len(v)
  PROVE  LET w == SubSeq(v, a, b)
         IN /\ w \in Seq(S)
            /\ Len(w) = b - a + 1
            /\ \A j \in 1..b - a + 1 : w[j] = v[a + j - 1]
<1>1. Len(v) \in Nat /\ \A j \in a..b : v[j] \in S
  BY LenProperties
<1> QED
  BY <1>1, SubSeqProperties

(* What each splice leaves of a sequence v, pointwise.                     *)
Inserted(w, v, i, item) ==
  /\ Len(w) = Len(v) + 1
  /\ \A j \in 1..i : w[j] = v[j]
  /\ w[i + 1] = item
  /\ \A j \in i + 1..Len(v) : w[j + 1] = v[j]

Removed(w, v, i) ==
  /\ Len(w) = IF i < Len(v) THEN Len(v) - 1 ELSE Len(v)
  /\ \A j \in 1..Len(w) : j <= i => w[j] = v[j]
  /\ \A j \in 1..Len(w) : j > i => w[j] = v[j + 1]

Replaced(w, v, i, item) ==
  /\ Len(w) = IF i < Len(v) THEN Len(v) ELSE Len(v) + 1
  /\ w[i + 1] = item
  /\ \A j \in 1..Len(v) : j # i + 1 => w[j] = v[j]

(* An insertion moves what is behind it by one.                            *)
LEMMA SpliceInsertIs ==
  ASSUME NEW S, NEW v \in Seq(S), NEW i \in 0..Len(v), NEW item \in S
  PROVE  /\ SpliceInsert(v, i, item) \in Seq(S)
         /\ Inserted(SpliceInsert(v, i, item), v, i, item)
<1>1. Len(v) \in Nat /\ i \in Nat /\ i <= Len(v)
      /\ (IF i < Len(v) THEN i + 1 ELSE Len(v) + 1) = i + 1
  BY LenProperties
<1>a. PICK front, back, w : /\ front = SubSeq(v, 1, (i + 1) - 1)
                            /\ back = SubSeq(v, i + 1, Len(v))
                            /\ w = (front \o <<item>>) \o back
  OBVIOUS
<1>2. SpliceInsert(v, i, item) = w
  <2>1. SpliceInsert(v, i, item) = InsertAt(v, i + 1, item)
    BY <1>1 DEF SpliceInsert
  <2>2. InsertAt(v, i + 1, item) =
          (SubSeq(v, 1, (i + 1) - 1) \o <<item>>) \o SubSeq(v, i + 1, Len(v))
    BY DEF InsertAt
  <2> QED
    BY <1>a, <2>1, <2>2, Zenon
<1>3. <<item>> \in Seq(S) /\ Len(<<item>>) = 1 /\ <<item>>[1] = item
  OBVIOUS
<1>4. /\ front \in Seq(S) /\ Len(front) = i
      /\ \A j \in 1..i : front[j] = v[j]
      /\ back \in Seq(S) /\ Len(back) = Len(v) - i
      /\ \A j \in 1..Len(v) - i : back[j] = v[i + j]
  <2>1. /\ 1 \in 1..Len(v) + 1 /\ (i + 1) - 1 \in 1 - 1..Len(v)
        /\ i + 1 \in 1..Len(v) + 1 /\ Len(v) \in (i + 1) - 1..Len(v)
    BY <1>1
  <2>2. /\ front \in Seq(S) /\ Len(front) = i
        /\ \A j \in 1..i : front[j] = v[j]
    BY <1>1, <1>a, <2>1, SliceIs
  <2>3. /\ back \in Seq(S) /\ Len(back) = Len(v) - i
        /\ \A j \in 1..Len(v) - i : back[j] = v[i + j]
    BY <1>1, <1>a, <2>1, SliceIs
  <2> QED
    BY <2>2, <2>3
<1>b. PICK head : head = front \o <<item>>
  OBVIOUS
<1>5. /\ head \in Seq(S) /\ Len(head) = i + 1 /\ head[i + 1] = item
      /\ \A j \in 1..i : head[j] = front[j]
  BY <1>1, <1>3, <1>4, <1>b, ConcatProperties
<1>6. /\ w \in Seq(S) /\ Len(w) = Len(v) + 1
      /\ \A j \in 1..i + 1 : w[j] = head[j]
      /\ \A j \in i + 2..Len(v) + 1 : w[j] = back[j - (i + 1)]
  <2>1. head \in Seq(S) /\ back \in Seq(S) /\ w = head \o back
    BY <1>4, <1>5, <1>a, <1>b
  <2>2. /\ w \in Seq(S) /\ Len(w) = Len(head) + Len(back)
        /\ \A j \in 1..Len(head) + Len(back) :
             w[j] = IF j <= Len(head) THEN head[j] ELSE back[j - Len(head)]
    BY <2>1, ConcatProperties
  <2>3. Len(head) = i + 1 /\ Len(head) + Len(back) = Len(v) + 1
    BY <1>1, <1>4, <1>5
  <2>4. \A j \in 1..Len(v) + 1 :
          w[j] = IF j <= i + 1 THEN head[j] ELSE back[j - (i + 1)]
    BY <2>2, <2>3
  <2>5. \A j \in 1..i + 1 : w[j] = head[j]
    BY <1>1, <2>4
  <2>6. \A j \in i + 2..Len(v) + 1 : w[j] = back[j - (i + 1)]
    BY <1>1, <2>4
  <2> QED
    BY <2>2, <2>3, <2>5, <2>6
<1>7. \A j \in 1..i : w[j] = v[j]
  BY <1>1, <1>4, <1>5, <1>6
<1>8. w[i + 1] = item
  BY <1>1, <1>5, <1>6
<1>9. \A j \in i + 1..Len(v) : w[j + 1] = v[j]
  <2> SUFFICES ASSUME NEW j \in i + 1..Len(v) PROVE w[j + 1] = v[j]
    OBVIOUS
  <2>1. /\ j + 1 \in i + 2..Len(v) + 1 /\ (j + 1) - (i + 1) = j - i
        /\ j - i \in 1..Len(v) - i /\ i + (j - i) = j
    BY <1>1
  <2>2. w[j + 1] = back[(j + 1) - (i + 1)] /\ back[j - i] = v[i + (j - i)]
    BY <1>4, <1>6, <2>1
  <2> QED
    BY <2>1, <2>2
<1>10. Inserted(w, v, i, item)
  BY <1>6, <1>7, <1>8, <1>9 DEF Inserted
<1> QED
  BY <1>2, <1>6, <1>10

(* A removal moves it back; past the end it removes nothing.               *)
LEMMA SpliceRemoveIs ==
  ASSUME NEW S, NEW v \in Seq(S), NEW i \in Nat
  PROVE  SpliceRemove(v, i) \in Seq(S) /\ Removed(SpliceRemove(v, i), v, i)
<1>1. Len(v) \in Nat
  BY LenProperties
<1>2. RemoveAt(v, i + 1) = SubSeq(v, 1, (i + 1) - 1)
                           \o SubSeq(v, (i + 1) + 1, Len(v))
  BY DEF RemoveAt
<1>3. CASE i < Len(v)
  <2>1. PICK front, back : /\ front = SubSeq(v, 1, (i + 1) - 1)
                           /\ back = SubSeq(v, (i + 1) + 1, Len(v))
    OBVIOUS
  <2>2. /\ front \in Seq(S) /\ Len(front) = i
        /\ \A j \in 1..i : front[j] = v[j]
        /\ back \in Seq(S) /\ Len(back) = Len(v) - i - 1
        /\ \A j \in 1..Len(v) - i - 1 : back[j] = v[i + j + 1]
    <3>1. /\ 1 \in 1..Len(v) + 1 /\ (i + 1) - 1 \in 1 - 1..Len(v)
          /\ (i + 1) + 1 \in 1..Len(v) + 1 /\ Len(v) \in (i + 1) + 1 - 1..Len(v)
      BY <1>1, <1>3
    <3>2. /\ front \in Seq(S) /\ Len(front) = i
          /\ \A j \in 1..i : front[j] = v[j]
      BY <1>1, <2>1, <3>1, SliceIs
    <3>3. /\ back \in Seq(S) /\ Len(back) = Len(v) - i - 1
          /\ \A j \in 1..Len(v) - i - 1 : back[j] = v[i + j + 1]
      BY <1>1, <2>1, <3>1, SliceIs
    <3> QED
      BY <3>2, <3>3
  <2>3. /\ front \o back \in Seq(S) /\ Len(front \o back) = Len(v) - 1
        /\ \A j \in 1..Len(v) - 1 : (front \o back)[j] =
             IF j <= i THEN front[j] ELSE back[j - i]
    <3>1. Len(front) \in Nat /\ Len(back) \in Nat
          /\ Len(front) + Len(back) = Len(v) - 1
      BY <1>1, <1>3, <2>2
    <3>2. /\ front \o back \in Seq(S)
          /\ Len(front \o back) = Len(front) + Len(back)
          /\ \A j \in 1..Len(front) + Len(back) : (front \o back)[j] =
               IF j <= Len(front) THEN front[j] ELSE back[j - Len(front)]
      BY <2>2, ConcatProperties
    <3> QED
      BY <2>2, <3>1, <3>2
  <2>4. SpliceRemove(v, i) = front \o back
    BY <1>2, <1>3, <2>1, Zenon DEF SpliceRemove
  <2>5. ASSUME NEW j \in 1..Len(v) - 1
        PROVE  (front \o back)[j] = IF j <= i THEN v[j] ELSE v[j + 1]
    <3>1. CASE j <= i
      <4>1. j \in 1..i
        BY <3>1
      <4> QED
        BY <2>2, <2>3, <3>1, <4>1
    <3>2. CASE ~(j <= i)
      <4>1. j - i \in 1..Len(v) - i - 1 /\ i + (j - i) + 1 = j + 1
        BY <1>1, <1>3, <3>2
      <4>2. (front \o back)[j] = back[j - i]
        BY <2>3, <3>2
      <4>3. back[j - i] = v[i + (j - i) + 1]
        BY <2>2, <4>1
      <4> QED
        BY <3>2, <4>1, <4>2, <4>3
    <3> QED
      BY <3>1, <3>2
  <2>6. Removed(front \o back, v, i)
    BY <1>1, <1>3, <2>3, <2>5 DEF Removed
  <2> QED
    BY <2>3, <2>4, <2>6
<1>4. CASE ~(i < Len(v))
  BY <1>1, <1>4 DEF SpliceRemove, Removed
<1> QED
  BY <1>3, <1>4

(* A replacement past the end is an insertion there.                       *)
LEMMA SpliceReplaceIs ==
  ASSUME NEW S, NEW v \in Seq(S), NEW i \in 0..Len(v), NEW item \in S
  PROVE  /\ SpliceReplace(v, i, item) \in Seq(S)
         /\ Replaced(SpliceReplace(v, i, item), v, i, item)
BY DEF SpliceReplace, ReplaceAt, Replaced

(* Reversing mirrors the positions, and twice it is nothing.               *)
LEMMA ReverseIs ==
  ASSUME NEW S, NEW v \in Seq(S)
  PROVE  /\ Reverse(v) \in Seq(S)
         /\ Len(Reverse(v)) = Len(v)
         /\ \A j \in 1..Len(v) : Reverse(v)[j] = v[Len(v) - j + 1]
         /\ Reverse(Reverse(v)) = v
<1>1. /\ Reverse(v) \in Seq(S)
      /\ Len(Reverse(v)) = Len(v)
      /\ \A j \in 1..Len(v) : Reverse(v)[j] = v[Len(v) - j + 1]
  BY DEF Reverse
<1>2. Len(v) \in Nat
  BY LenProperties
<1>3. Reverse(Reverse(v)) \in Seq(S) /\ Len(Reverse(Reverse(v))) = Len(v)
      /\ \A j \in 1..Len(v) : Reverse(Reverse(v))[j] = v[j]
  BY <1>1, <1>2 DEF Reverse
<1> QED
  BY <1>1, <1>3, SeqEqual
-------------------------------------------------------------------------------
(* A label of a name is neither empty nor what a panic stands for.         *)
LEMMA LabelIs ==
  ASSUME NEW l \in Label
  PROVE  /\ l # EmptyLabel /\ l # Panic
         /\ l \in Seq(STRING \ {"."}) /\ Len(l) \in Nat /\ Len(l) >= 1
<1>1. l \in Seq(STRING \ {"."}) /\ l # EmptyLabel /\ l # <<>>
  BY DEF Label
<1>2. Len(l) \in Nat /\ Len(l) # 0
  BY <1>1, LenProperties, EmptySeq
<1>3. l[1] \in STRING \ {"."}
  BY <1>1, <1>2, ElementOfSeq
<1>4. Panic[1] = "."
  BY DEF Panic
<1> QED
  BY <1>1, <1>2, <1>3, <1>4

(* What a name ends with, label by label.                                  *)
LEMMA EndsWithIs ==
  ASSUME NEW S, NEW v \in Seq(S), NEW T, NEW suffix \in Seq(T)
  PROVE  EndsWith(v, suffix) <=>
           /\ Len(v) >= Len(suffix)
           /\ \A j \in 1..Len(suffix) : v[Len(v) - Len(suffix) + j] = suffix[j]
<1>1. Len(v) \in Nat /\ Len(suffix) \in Nat
  BY LenProperties
<1>2. CASE Len(v) >= Len(suffix)
  <2> DEFINE a == Len(v) - Len(suffix) + 1
             w == SubSeq(v, a, Len(v))
  <2>1. a \in 1..Len(v) + 1 /\ Len(v) \in a - 1..Len(v)
    BY <1>1, <1>2
  <2>2. /\ w \in Seq(S) /\ Len(w) = Len(v) - a + 1
        /\ \A j \in 1..Len(v) - a + 1 : w[j] = v[a + j - 1]
    BY <2>1, SliceIs
  <2>3. w = suffix <=> \A j \in 1..Len(suffix) : w[j] = suffix[j]
    <3> HIDE DEF w
    <3>1. Len(w) = Len(suffix)
      BY <1>1, <2>2
    <3>2. w \in Seq(S \cup T) /\ suffix \in Seq(S \cup T)
      BY <2>2
    <3> QED
      BY <3>1, <3>2, SeqEqual
  <2>4. EndsWith(v, suffix) <=> w = suffix
    BY <1>2 DEF EndsWith
  <2> HIDE DEF w
  <2> QED
    BY <1>1, <1>2, <2>2, <2>3, <2>4
<1> QED
  BY <1>2 DEF EndsWith

(* A suffix of two labels, found label by label.                           *)
LEMMA EndsWithTwo ==
  ASSUME NEW S, NEW v \in Seq(S), NEW x, NEW y
  PROVE  EndsWith(v, Dotted(<<x, y>>)) <=>
           Len(v) >= 2 /\ v[Len(v) - 1] = <<x>> /\ v[Len(v)] = <<y>>
<1>0. PICK suffix, T : suffix = Dotted(<<x, y>>) /\ T = {<<x>>, <<y>>}
  OBVIOUS
<1>1. suffix \in Seq(T) /\ Len(suffix) = 2
      /\ suffix[1] = <<x>> /\ suffix[2] = <<y>>
  BY <1>0 DEF Dotted
<1>2. Len(v) \in Nat
  BY LenProperties
<1>3. EndsWith(v, suffix) <=>
        /\ Len(v) >= Len(suffix)
        /\ \A j \in 1..Len(suffix) : v[Len(v) - Len(suffix) + j] = suffix[j]
  <2>1. suffix \in Seq(T)
    BY <1>1
  <2> QED
    BY <2>1, EndsWithIs
<1>4. 1..2 = {1, 2}
  OBVIOUS
<1>5. EndsWith(v, suffix) <=>
          Len(v) >= 2 /\ v[Len(v) - 1] = <<x>> /\ v[Len(v)] = <<y>>
  BY <1>1, <1>2, <1>3, <1>4
<1> QED
  BY <1>0, <1>5

(* A suffix of three labels.                                               *)
LEMMA EndsWithThree ==
  ASSUME NEW S, NEW v \in Seq(S), NEW x, NEW y, NEW z
  PROVE  EndsWith(v, <<x, y, z>>) <=>
           /\ Len(v) >= 3 /\ v[Len(v) - 2] = x
           /\ v[Len(v) - 1] = y /\ v[Len(v)] = z
<1>0. PICK suffix, T : suffix = <<x, y, z>> /\ T = {x, y, z}
  OBVIOUS
<1>1. suffix \in Seq(T) /\ Len(suffix) = 3
      /\ suffix[1] = x /\ suffix[2] = y /\ suffix[3] = z
  BY <1>0
<1>2. Len(v) \in Nat
  BY LenProperties
<1>3. EndsWith(v, suffix) <=>
        /\ Len(v) >= Len(suffix)
        /\ \A j \in 1..Len(suffix) : v[Len(v) - Len(suffix) + j] = suffix[j]
  <2>1. suffix \in Seq(T)
    BY <1>1
  <2> QED
    BY <2>1, EndsWithIs
<1>4. 1..3 = {1, 2, 3}
  OBVIOUS
<1> QED
  BY <1>0, <1>1, <1>2, <1>3, <1>4

(* What is not in a set is in no sequence of it.                           *)
LEMMA NotInSeq ==
  ASSUME NEW S, NEW w \in Seq(S), NEW item, item \notin S
  PROVE  item \notin ToSet(w)
BY ElementOfSeq DEF ToSet

(* A name is a sequence of labels, of which none is empty or a panic.      *)
LEMMA NameIs ==
  ASSUME NEW name \in Name
  PROVE  /\ name \in Seq(Label) /\ Len(name) \in Nat
         /\ \A j \in 1..Len(name) :
              /\ name[j] \in Label
              /\ name[j] # EmptyLabel /\ name[j] # Panic
<1>1. name \in Seq(Label) /\ Len(name) \in Nat
  BY LenProperties DEF Name
<1> QED
  BY <1>1, ElementOfSeq, LabelIs

(* So it is among the sequences that may hold a few more labels as well.   *)
LEMMA NameWith ==
  ASSUME NEW name \in Name, NEW extra, Panic \notin extra
  PROVE  \E S : /\ name \in Seq(S) /\ Label \subseteq S /\ extra \subseteq S
               /\ Panic \notin S
<1>1. name \in Seq(Label)
  BY NameIs
<1>2. Panic \notin Label
  BY LabelIs
<1>3. PICK S : S = Label \cup extra
  OBVIOUS
<1>4. /\ name \in Seq(S) /\ Label \subseteq S /\ extra \subseteq S
      /\ Panic \notin S
  BY <1>1, <1>2, <1>3
<1> QED
  BY <1>4
-------------------------------------------------------------------------------
(* Azure: the same label is replaced by the same label again.              *)
LEMMA AzureSettles ==
  ASSUME NEW name \in Name, AzureRewrite(name) # None
  PROVE  /\ Panic \notin ToSet(AzureRewrite(name))
         /\ AzureRewrite(AzureRewrite(name)) = AzureRewrite(name)
<1>0. PICK n, item, w, suffix :
      /\ n = Len(name) /\ item = <<"sip", "v4andv6">>
      /\ w = [name EXCEPT ![n - 3] = item]
      /\ suffix = Dotted(<<"azurewebsites", "windows", "net">>)
  OBVIOUS
<1>1. name \in Seq(Label) /\ n \in Nat /\ item # Panic
  BY <1>0, NameIs DEF Panic
<1>2. n >= 4 /\ EndsWith(name, suffix) /\ AzureRewrite(name) = w
  BY <1>0 DEF AzureRewrite, ReplaceAt
<1>3. suffix = <<<<"azurewebsites">>, <<"windows">>, <<"net">>>>
  BY <1>0 DEF Dotted
<1>4. /\ w \in Seq(Label \cup {item}) /\ Len(w) = n
      /\ \A j \in 1..n : w[j] = IF j = n - 3 THEN item ELSE name[j]
  BY <1>0, <1>1, <1>2
<1>5. Panic \notin ToSet(w)
  <2>1. Panic \notin Label \cup {item}
    BY <1>1, LabelIs
  <2> QED
    BY <1>4, <2>1, NotInSeq
<1>6. EndsWith(w, suffix)
  <2>1. /\ name[n - 2] = <<"azurewebsites">>
        /\ name[n - 1] = <<"windows">> /\ name[n] = <<"net">>
    BY <1>0, <1>1, <1>2, <1>3, EndsWithThree
  <2>2. w[n - 2] = name[n - 2] /\ w[n - 1] = name[n - 1] /\ w[n] = name[n]
    BY <1>1, <1>2, <1>4
  <2>3. w \in Seq(Label \cup {item})
    BY <1>4
  <2>4. EndsWith(w, <<<<"azurewebsites">>, <<"windows">>, <<"net">>>>) <=>
          /\ Len(w) >= 3 /\ w[Len(w) - 2] = <<"azurewebsites">>
          /\ w[Len(w) - 1] = <<"windows">> /\ w[Len(w)] = <<"net">>
    BY <2>3, EndsWithThree
  <2>5. Len(w) >= 3 /\ Len(w) = n
    BY <1>1, <1>2, <1>4
  <2> QED
    BY <1>3, <2>1, <2>2, <2>4, <2>5
<1>7. AzureRewrite(w) = [w EXCEPT ![n - 3] = item]
  BY <1>0, <1>2, <1>4, <1>6 DEF AzureRewrite, ReplaceAt
<1>8. [w EXCEPT ![n - 3] = item] = w
  BY <1>0
<1> QED
  BY <1>2, <1>5, <1>7, <1>8

(* awsglb: the dual-stack name is left alone, and what is rewritten is it. *)
LEMMA AwsglbSettles ==
  ASSUME NEW name \in Name, AwsglbRewrite(name) # None
  PROVE  /\ Panic \notin ToSet(AwsglbRewrite(name))
         /\ AwsglbRewrite(AwsglbRewrite(name)) = AwsglbRewrite(name)
<1>0. PICK n, i, item, w :
      /\ n = Len(name) /\ i = n - 2 /\ item = <<"dualstack">>
      /\ w = SpliceInsert(name, i, item)
  OBVIOUS
<1>a. PICK S : /\ name \in Seq(S) /\ item \in S /\ Panic \notin S
  <2>1. PICK extra : extra = {item}
    OBVIOUS
  <2>2. Panic \notin extra
    BY <1>0, <2>1 DEF Panic
  <2> QED
    BY <2>1, <2>2, NameWith
<1>1. name \in Seq(S) /\ n \in Nat /\ Panic \notin S /\ item \in S
  BY <1>0, <1>a, NameIs
<1>2. \A v \in Seq(S) :
        EndsWith(v, Dotted(<<"awsglobalaccelerator", "com">>)) <=>
          /\ Len(v) >= 2 /\ v[Len(v) - 1] = <<"awsglobalaccelerator">>
          /\ v[Len(v)] = <<"com">>
  BY ONLY EndsWithTwo
<1>3. /\ EndsWith(name, Dotted(<<"awsglobalaccelerator", "com">>))
      /\ n >= 2 /\ name[n - 1] = <<"awsglobalaccelerator">>
      /\ name[n] = <<"com">>
  BY <1>0, <1>1, <1>2 DEF AwsglbRewrite
<1>4. CASE n >= 3 /\ name[n - 2] = item
  <2>1. AwsglbRewrite(name) = name
    BY <1>0, <1>3, <1>4 DEF AwsglbRewrite
  <2> QED
    BY <1>1, <2>1, NotInSeq
<1>5. CASE ~(n >= 3 /\ name[n - 2] = item)
  <2>1. AwsglbRewrite(name) = w
    BY <1>0, <1>3, <1>5 DEF AwsglbRewrite
  <2>2. i \in 0..Len(name) /\ n = i + 2
    BY <1>0, <1>1, <1>3
  <2>3. w \in Seq(S) /\ Inserted(w, name, i, item)
    BY <1>0, <1>1, <2>2, SpliceInsertIs
  <2>4. /\ Len(w) = n + 1 /\ w[i + 1] = item
        /\ \A j \in i + 1..n : w[j + 1] = name[j]
    BY <1>0, <2>3 DEF Inserted
  <2>6. Panic \notin ToSet(w)
    BY <1>0, <1>1, <2>3, NotInSeq
  <2>7. w[n - 1] = item /\ w[n] = name[n - 1] /\ w[n + 1] = name[n]
    BY <1>0, <1>1, <1>3, <2>2, <2>4
  <2>8. Len(w) >= 3 /\ Len(w) - 2 = n - 1 /\ Len(w) - 1 = n
    BY <1>0, <1>1, <1>3, <2>4
  <2>9. EndsWith(w, Dotted(<<"awsglobalaccelerator", "com">>))
    <3>1. /\ Len(w) >= 2 /\ w[Len(w) - 1] = <<"awsglobalaccelerator">>
          /\ w[Len(w)] = <<"com">>
      BY <1>3, <2>4, <2>7, <2>8
    <3> QED
      BY <1>2, <2>3, <3>1
  <2>10. AwsglbRewrite(w) = w
    BY <1>0, <2>7, <2>8, <2>9 DEF AwsglbRewrite
  <2> QED
    BY <2>1, <2>6, <2>10
<1> QED
  BY <1>4, <1>5

(* CacheFly: the head of the dual-stack name is no rvip.                   *)
LEMMA CacheflySettles ==
  ASSUME NEW name \in Name, CacheflyRewrite(name) # None
  PROVE  /\ Panic \notin ToSet(CacheflyRewrite(name))
         /\ CacheflyRewrite(CacheflyRewrite(name)) = None
<1>1. PICK h, g, suffix, extra :
        /\ h = <<"rvip1", "dstack">> /\ g = Dotted(<<"g">>)
        /\ suffix = Dotted(<<"cachefly", "net">>)
        /\ extra = {h, <<"g">>, <<"cachefly">>, <<"net">>}
  OBVIOUS
<1>2. Panic \notin extra
  BY <1>1 DEF Panic
<1>3. PICK S : /\ name \in Seq(S) /\ extra \subseteq S /\ Panic \notin S
  BY <1>2, NameWith
<1>4. h \in S /\ g \in Seq(S) /\ suffix \in Seq(S)
  BY <1>1, <1>3 DEF Dotted
<1>5. PICK middle : middle = SubSeq(name, 2, Len(name) - 2)
  OBVIOUS
<1>6. PICK rest : rest = IF middle = <<<<"g", "anycast1">>>> THEN g ELSE middle
  OBVIOUS
<1>7. Len(name) >= 4 /\ CacheflyRewrite(name) = (<<h>> \o rest) \o suffix
  BY <1>1, <1>5, <1>6 DEF CacheflyRewrite
<1>8. rest \in Seq(S)
  <2>1. Len(name) \in Nat
    BY NameIs
  <2>2. 2 \in 1..Len(name) + 1 /\ Len(name) - 2 \in 2 - 1..Len(name)
    BY <1>7, <2>1
  <2>3. middle \in Seq(S)
    BY <1>3, <1>5, <2>2, SliceIs
  <2> QED
    BY <1>4, <1>6, <2>3
<1>9. PICK w : w = (<<h>> \o rest) \o suffix
  OBVIOUS
<1>10. w \in Seq(S) /\ w[1] = h
  <2>1. <<h>> \in Seq(S) /\ Len(<<h>>) = 1 /\ <<h>>[1] = h
    BY <1>4
  <2>2. PICK front : front = <<h>> \o rest
    OBVIOUS
  <2>3. front \in Seq(S) /\ Len(front) >= 1 /\ front[1] = h
    BY <1>8, <2>1, <2>2, ConcatProperties, LenProperties
  <2> QED
    BY <1>4, <1>9, <2>2, <2>3, ConcatProperties, LenProperties
<1>11. Panic \notin ToSet(w)
  BY <1>3, <1>10, NotInSeq
<1>12. CacheflyRewrite(w) = None
  <2>1. h \notin Vip
    BY <1>1 DEF Vip
  <2>2. Head(w) = w[1]
    BY <1>10
  <2> QED
    BY <1>10, <2>1, <2>2 DEF CacheflyRewrite
<1> QED
  BY <1>7, <1>9, <1>11, <1>12
-------------------------------------------------------------------------------
(* What was put before a suffix is found there again.                      *)
LEMMA BeforeSuffix ==
  ASSUME NEW S, NEW u \in Seq(S), NEW suffix \in Seq(S)
  PROVE  /\ EndsWith(u \o suffix, suffix)
         /\ SubSeq(u \o suffix, 1, Len(u \o suffix) - Len(suffix)) = u
<1>1. Len(u) \in Nat /\ Len(suffix) \in Nat
  BY LenProperties
<1>2. PICK w : w = u \o suffix
  OBVIOUS
<1>3. /\ w \in Seq(S) /\ Len(w) = Len(u) + Len(suffix)
      /\ \A j \in 1..Len(u) + Len(suffix) :
           w[j] = IF j <= Len(u) THEN u[j] ELSE suffix[j - Len(u)]
  BY <1>2, ConcatProperties
<1>4. EndsWith(w, suffix)
  <2>1. ASSUME NEW j \in 1..Len(suffix)
        PROVE  w[Len(w) - Len(suffix) + j] = suffix[j]
    <3>1. /\ Len(w) - Len(suffix) + j = Len(u) + j
          /\ Len(u) + j \in 1..Len(u) + Len(suffix)
          /\ ~(Len(u) + j <= Len(u)) /\ Len(u) + j - Len(u) = j
      BY <1>1, <1>3
    <3> QED
      BY <1>3, <3>1
  <2>2. Len(w) >= Len(suffix)
    BY <1>1, <1>3
  <2> QED
    BY <1>3, <2>1, <2>2, EndsWithIs
<1>5. SubSeq(w, 1, Len(u)) = u
  <2>1. PICK x : x = SubSeq(w, 1, Len(u))
    OBVIOUS
  <2>2. 1 \in 1..Len(w) + 1 /\ Len(u) \in 1 - 1..Len(w)
    BY <1>1, <1>3
  <2>3. x \in Seq(S) /\ Len(x) = Len(u) - 1 + 1
        /\ \A j \in 1..Len(u) - 1 + 1 : x[j] = w[1 + j - 1]
    BY <1>3, <2>1, <2>2, SliceIs
  <2>4. Len(x) = Len(u) /\ \A j \in 1..Len(u) : x[j] = u[j]
    BY <1>1, <1>3, <2>3
  <2> QED
    BY <2>1, <2>3, <2>4, SeqEqual
<1>6. Len(w) - Len(suffix) = Len(u)
  BY <1>1, <1>3
<1> QED
  BY <1>2, <1>4, <1>5, <1>6

(* The last of a sequence, and those in front of it.                       *)
LEMMA FrontAndLast ==
  ASSUME NEW S, NEW u \in Seq(S), NEW x \in S
  PROVE  /\ Front(u \o <<x>>) = u /\ Last(u \o <<x>>) = x
         /\ u \o <<x>> \in Seq(S) /\ Len(u \o <<x>>) = Len(u) + 1
<1>1. Len(u) \in Nat /\ <<x>> \in Seq(S) /\ Len(<<x>>) = 1 /\ <<x>>[1] = x
  BY LenProperties
<1>2. PICK w : w = u \o <<x>>
  OBVIOUS
<1>3. w \in Seq(S) /\ Len(w) = Len(u) + 1 /\ w[Len(u) + 1] = x
  BY <1>1, <1>2, ConcatProperties
<1>4. SubSeq(w, 1, Len(w) - Len(<<x>>)) = u
  BY <1>1, <1>2, BeforeSuffix
<1>5. Front(w) = u
  BY <1>1, <1>4 DEF Front
<1>6. Last(w) = x
  BY <1>3 DEF Last
<1> QED
  BY <1>2, <1>3, <1>5, <1>6

(* The labels in front of the ds of a dual-stack name.                     *)
IsStore(body) ==
  LET n == Len(body)
      store == <<"objectstorage">>
  IN /\ ~(n = 3 /\ body[1] = <<"compat">> /\ body[2] = store)
     /\ \/ n = 2 /\ body[1] \in OracleServices
        \/ n = 3 /\ body[2] \in OracleServices
        \/ n = 4 /\ body[2] = <<"compat">> /\ body[3] = store

(* A dual-stack name is rewritten to itself.                               *)
LEMMA OracleAgain ==
  ASSUME NEW S, NEW body \in Seq(S), NEW suffix \in {CloudSuffix, OciSuffix},
         <<"ds">> \in S, suffix \in Seq(S), IsStore(body)
  PROVE  LET name == (body \o <<<<"ds">>>>) \o suffix
         IN name \in Seq(S) /\ OracleRewrite(name) = name
<1>1. PICK ds, u, w : ds = <<"ds">> /\ u = body \o <<ds>> /\ w = u \o suffix
  OBVIOUS
<1>2. /\ u \in Seq(S) /\ Len(u) = Len(body) + 1
      /\ Front(u) = body /\ Last(u) = ds
  BY <1>1, FrontAndLast
<1>3. w \in Seq(S)
  BY <1>1, <1>2, ConcatProperties
<1>4. EndsWith(w, suffix) /\ SubSeq(w, 1, Len(w) - Len(suffix)) = u
  BY <1>1, <1>2, BeforeSuffix
<1>5. Len(body) \in Nat /\ Len(body) >= 2
  BY LenProperties DEF IsStore
<1>6. suffix = IF EndsWith(w, CloudSuffix) THEN CloudSuffix ELSE OciSuffix
  <2>1. CASE suffix = CloudSuffix
    BY <1>4, <2>1
  <2>2. CASE suffix = OciSuffix
    <3>1. EndsWith(w, <<<<"oci">>, <<"customer", "oci">>, <<"com">>>>)
      BY <1>4, <2>2 DEF OciSuffix
    <3>2. w[Len(w) - 1] = <<"customer", "oci">>
      BY <1>3, <3>1, EndsWithThree
    <3>3. <<"customer", "oci">> # <<"oraclecloud">>
      OBVIOUS
    <3>4. ~EndsWith(w, CloudSuffix)
      BY <1>3, <3>2, <3>3, EndsWithTwo DEF CloudSuffix
    <3> QED
      BY <2>2, <3>4
  <2> QED
    BY <2>1, <2>2
<1>7. OracleRewrite(w) = OracleBody(body, suffix, TRUE)
  <2>1. (Last(u) = ds) = TRUE /\ Len(u) >= 2 /\ ~(Len(u) < 2)
    BY <1>2, <1>5
  <2>2. OracleRewrite(w) = IF ~EndsWith(w, suffix) \/ Len(u) < 2
                           THEN None ELSE OracleBody(body, suffix, TRUE)
    <3>1. PICK has : has = TRUE
      OBVIOUS
    <3>2. /\ u = SubSeq(w, 1, Len(w) - Len(suffix))
          /\ has = (Last(u) = <<"ds">>)
          /\ body = IF has THEN Front(u) ELSE u
      BY <1>1, <1>2, <1>4, <2>1, <3>1
    <3>3. OracleRewrite(w) = IF ~EndsWith(w, suffix) \/ Len(u) < 2
                             THEN None ELSE OracleBody(body, suffix, has)
      BY <1>6, <3>2, Zenon DEF OracleRewrite
    <3> QED
      BY <3>1, <3>3
  <2> QED
    BY <1>4, <2>1, <2>2
<1>8. OracleBody(body, suffix, TRUE) = (body \o <<ds>>) \o suffix
  BY <1>1 DEF OracleBody, OracleSuffix, IsStore
<1> QED
  BY <1>1, <1>3, <1>7, <1>8

(* Oracle: what is rewritten to has a ds, and its store in front of it.    *)
LEMMA OracleSettles ==
  ASSUME NEW name \in Name, OracleRewrite(name) # None
  PROVE  /\ Panic \notin ToSet(OracleRewrite(name))
         /\ OracleRewrite(OracleRewrite(name)) = OracleRewrite(name)
<1>1. PICK ds, extra :
        /\ ds = <<"ds">>
        /\ extra = {ds, <<"oci">>, <<"customer", "oci">>, <<"com">>,
                    <<"oraclecloud">>}
  OBVIOUS
<1>2. Panic \notin extra
  BY <1>1 DEF Panic
<1>3. PICK S : /\ name \in Seq(S) /\ extra \subseteq S /\ Panic \notin S
  BY <1>2, NameWith
<1>4. ds \in S /\ OciSuffix \in Seq(S) /\ CloudSuffix \in Seq(S)
  <2>1. ds \in S /\ OciSuffix \in Seq(S)
    BY <1>1, <1>3 DEF OciSuffix
  <2>2. CloudSuffix \in Seq(S)
    BY <1>1, <1>3 DEF CloudSuffix, Dotted
  <2> QED
    BY <2>1, <2>2
<1>5. PICK suffix \in {CloudSuffix, OciSuffix} :
        suffix = IF EndsWith(name, CloudSuffix) THEN CloudSuffix ELSE OciSuffix
  OBVIOUS
<1>6. PICK front, has, b :
        /\ front = SubSeq(name, 1, Len(name) - Len(suffix))
        /\ has = (Last(front) = ds)
        /\ b = IF has THEN Front(front) ELSE front
  OBVIOUS
<1>7. /\ EndsWith(name, suffix) /\ Len(front) >= 2
      /\ OracleRewrite(name) = OracleBody(b, suffix, has)
      /\ OracleBody(b, suffix, has) # None
  <2>1. OracleRewrite(name) = IF ~EndsWith(name, suffix) \/ Len(front) < 2
                              THEN None ELSE OracleBody(b, suffix, has)
    <3>1. /\ front = SubSeq(name, 1, Len(name) - Len(suffix))
          /\ has = (Last(front) = <<"ds">>)
          /\ b = IF has THEN Front(front) ELSE front
      BY <1>1, <1>6, Zenon
    <3> QED
      BY <1>5, <3>1, Zenon DEF OracleRewrite
  <2>2. EndsWith(name, suffix) /\ Len(front) >= 2
        /\ OracleBody(b, suffix, has) # None
    BY <2>1
  <2> QED
    BY <2>1, <2>2
<1>8. b \in Seq(S)
  <2>1. Len(name) \in Nat /\ Len(suffix) \in Nat /\ Len(suffix) <= Len(name)
    BY <1>4, <1>7, NameIs, LenProperties DEF EndsWith
  <2>2. /\ 1 \in 1..Len(name) + 1
        /\ Len(name) - Len(suffix) \in 1 - 1..Len(name)
    BY <2>1
  <2>3. front \in Seq(S)
    BY <1>3, <1>6, <2>2, SliceIs
  <2>4. Len(front) \in Nat
    BY <2>3, LenProperties
  <2>5. 1 \in 1..Len(front) + 1 /\ Len(front) - 1 \in 1 - 1..Len(front)
    BY <1>7, <2>4
  <2>6. Front(front) \in Seq(S)
    BY <2>3, <2>5, SliceIs DEF Front
  <2> QED
    BY <1>6, <2>3, <2>6
<1>9. PICK body \in Seq(S), end \in {CloudSuffix, OciSuffix} :
        IsStore(body) /\ OracleBody(b, suffix, has) = (body \o <<ds>>) \o end
  <2>1. CASE Len(b) = 3 /\ b[1] = <<"compat">> /\ b[2] = <<"objectstorage">>
    <3>1. OracleBody(b, suffix, has) = (Tail(b) \o <<ds>>) \o OciSuffix
      BY <1>1, <2>1 DEF OracleBody
    <3>2. Tail(b) \in Seq(S) /\ Len(Tail(b)) = 2 /\ Tail(b)[1] = b[2]
      BY <1>8, <2>1
    <3>3. PICK t : t = Tail(b)
      OBVIOUS
    <3>4. Len(t) = 2 /\ t[1] \in OracleServices
      BY <2>1, <3>2, <3>3 DEF OracleServices
    <3>5. IsStore(t)
      BY <3>4 DEF IsStore
    <3> QED
      BY <3>1, <3>2, <3>3, <3>5
  <2>2. CASE ~(/\ Len(b) = 3 /\ b[1] = <<"compat">>
               /\ b[2] = <<"objectstorage">>)
    <3>1. IsStore(b) /\ OracleBody(b, suffix, has)
                          = (b \o <<ds>>) \o OracleSuffix(suffix, has)
      BY <1>1, <1>7, <2>2 DEF OracleBody, IsStore
    <3>2. OracleSuffix(suffix, has) \in {CloudSuffix, OciSuffix}
      BY DEF OracleSuffix
    <3> QED
      BY <1>8, <3>1, <3>2
  <2> QED
    BY <2>1, <2>2
<1>10. PICK w : w = (body \o <<ds>>) \o end
  OBVIOUS
<1>11. w \in Seq(S) /\ OracleRewrite(w) = w
  <2>1. end \in Seq(S) /\ <<"ds">> \in S
    BY <1>1, <1>4
  <2> QED
    BY <1>1, <1>9, <1>10, <2>1, OracleAgain
<1>12. Panic \notin ToSet(w)
  BY <1>3, <1>11, NotInSeq
<1> QED
  BY <1>7, <1>9, <1>10, <1>11, <1>12
-------------------------------------------------------------------------------
(* The reversed labels of an OSS endpoint, aliyun-inc replaced.            *)
OssDomain(s) == Len(s) > 2 /\ s[1] = <<"com">> /\ s[2] = <<"aliyuncs">>

(* What oss_rewrite makes of them depends on where the first oss is.       *)
LEMMA OssDomainIs ==
  ASSUME NEW S, NEW s \in Seq(S), OssDomain(s)
  PROVE  /\ OssMatches(s)
         /\ IsNative(s) <=> s[3] = <<"oss">>
         /\ Position(s, <<"aliyun", "inc">>) # 1
<1>1. /\ Len(s) \in Nat /\ Len(s) > 2
      /\ s[1] = <<"com">> /\ s[2] = <<"aliyuncs">>
  BY LenProperties DEF OssDomain
<1>2. 1..1 = {1} /\ 1..2 = {1, 2} /\ 1..0 = {}
  OBVIOUS
<1>3. ASSUME NEW item, NEW k \in {0, 1, 2}
      PROVE  Position(s, item) = k <=>
               s[k + 1] = item /\ \A j \in 1..k : s[j] # item
  <2>1. k \in 0..Len(s) - 1
    BY <1>1
  <2> QED
    BY <2>1, PositionIs
<1>4. Position(s, <<"com">>) = 0
  BY <1>1, <1>2, <1>3
<1>5. Position(s, <<"aliyuncs">>) = 1
  BY <1>1, <1>2, <1>3
<1>6. Position(s, <<"aliyun", "inc">>) # 1
  BY <1>1, <1>3
<1>7. Position(s, <<"oss">>) = 2 <=> s[3] = <<"oss">>
  BY <1>1, <1>2, <1>3
<1> QED
  BY <1>1, <1>4, <1>5, <1>6, <1>7 DEF OssMatches, IsNative

(* A body that is left as it is makes a name that is.                      *)
LEMMA OssAgain ==
  ASSUME NEW S, NEW d \in Seq(S), OssDomain(d), OssBody(d) = d
  PROVE  OssRewrite(Reverse(d)) = NameFromLabels(Reverse(d))
<1>1. Reverse(Reverse(d)) = d
  BY ReverseIs
<1>2. OssMatches(d) /\ Position(d, <<"aliyun", "inc">>) # 1
  BY OssDomainIs
<1> QED
  BY <1>1, <1>2 DEF OssRewrite

(* A region that a native endpoint may have, or is given.                  *)
IsPlaced(region) ==
  /\ region # <<>> /\ Head(region) # "oss"
  /\ region \in OssRegions \/ InHangzhou(region) = region

(* A native endpoint whose region is one, or passes for one, stays.        *)
LEMMA NativeStays ==
  ASSUME NEW S, NEW d \in Seq(S), OssDomain(d), Len(d) > 3,
         d[3] = <<"oss">>, IsPlaced(d[4])
  PROVE  OssBody(d) = d
<1>1. Len(d) \in Nat /\ IsNative(d)
  BY OssDomainIs, LenProperties
<1>2. OssLoc(d) = 3 /\ At(d, 3) = d[4]
  BY <1>1 DEF OssLoc, At
<1>3. ~IsNamed(d) /\ OssListed(d) = d[4]
  BY <1>2 DEF IsNamed, OssListed, IsPlaced
<1>4. OssRegion(d) = d[4] /\ OssRegion(d) # <<>>
  BY <1>1, <1>3 DEF OssRegion, IsPlaced
<1>5. Position(d, <<"oss">>) # -1
  BY <1>1 DEF IsNative
<1>6. SpliceReplace(d, 3, d[4]) = d
  BY <1>1 DEF SpliceReplace, ReplaceAt
<1> QED
  BY <1>2, <1>3, <1>4, <1>5, <1>6 DEF OssBody

(* One without oss that is to stay as it is.                               *)
LEMMA PlainStays ==
  ASSUME NEW S, NEW d \in Seq(S), OssDomain(d), d[3] # <<"oss">>,
         Head(d[3]) # "oss", d[3] # <<>>,
         Len(d) # 4 \/ Position(d, <<"oss">>) # -1
  PROVE  OssBody(d) = d
<1>1. Len(d) \in Nat /\ Len(d) > 2 /\ ~IsNative(d)
  BY OssDomainIs, LenProperties DEF OssDomain
<1>2. OssLoc(d) = 2 /\ At(d, 2) = d[3]
  BY <1>1 DEF OssLoc, At
<1>3. ~IsNamed(d) /\ OssListed(d) = d[3]
  BY <1>2 DEF IsNamed, OssListed
<1>4. OssRegion(d) = d[3] /\ OssRegion(d) # <<>>
  BY <1>1, <1>3 DEF OssRegion
<1>5. SpliceReplace(d, 2, d[3]) = d
  BY <1>1 DEF SpliceReplace, ReplaceAt
<1> QED
  BY <1>2, <1>3, <1>4, <1>5 DEF OssBody

(* What set_ext makes of a region passes for one.                          *)
LEMMA InHangzhouIs ==
  ASSUME NEW T, NEW p \in Seq(T)
  PROVE  IsPlaced(InHangzhou(p)) /\ InHangzhou(p) # Panic
<1>1. PICK U : U = T \cup {"cn", "hangzhou"}
  OBVIOUS
<1>2. PICK x, head, q : /\ x = SubSeq(p, 3, Len(p))
                        /\ head = <<"cn", "hangzhou">> /\ q = head \o x
  OBVIOUS
<1>3. Len(p) \in Nat /\ p \in Seq(U)
  BY <1>1, LenProperties
<1>4. x \in Seq(U)
  <2>1. CASE Len(p) >= 2
    <3>1. 3 \in 1..Len(p) + 1 /\ Len(p) \in 3 - 1..Len(p)
      BY <1>3, <2>1
    <3> QED
      BY <1>2, <1>3, <3>1, SliceIs
  <2>2. CASE Len(p) < 2
    <3>1. x = <<>>
      BY <1>2, <1>3, <2>2
    <3> QED
      BY <3>1
  <2> QED
    BY <1>3, <2>1, <2>2
<1>5. head \in Seq(U) /\ Len(head) = 2 /\ head[1] = "cn"
  BY <1>1, <1>2
<1>6. /\ q \in Seq(U) /\ Len(q) = 2 + Len(x) /\ q[1] = "cn"
      /\ Len(x) \in Nat
      /\ \A j \in 1..Len(x) : q[j + 2] = x[j]
  <2>1. Len(x) \in Nat
    BY <1>4, LenProperties
  <2>2. /\ q \in Seq(U) /\ Len(q) = 2 + Len(x)
        /\ \A j \in 1..2 + Len(x) : q[j] = IF j <= 2 THEN head[j] ELSE x[j - 2]
    BY <1>2, <1>4, <1>5, ConcatProperties
  <2>3. q[1] = "cn"
    BY <1>5, <2>1, <2>2
  <2>4. ASSUME NEW j \in 1..Len(x) PROVE q[j + 2] = x[j]
    <3>1. j + 2 \in 1..2 + Len(x) /\ ~(j + 2 <= 2) /\ j + 2 - 2 = j
      BY <2>1
    <3> QED
      BY <2>2, <3>1
  <2> QED
    BY <2>1, <2>2, <2>3, <2>4
<1>7. SubSeq(q, 3, Len(q)) = x
  <2>1. PICK y : y = SubSeq(q, 3, Len(q))
    OBVIOUS
  <2>2. 3 \in 1..Len(q) + 1 /\ Len(q) \in 3 - 1..Len(q)
    BY <1>6
  <2>3. y \in Seq(U) /\ Len(y) = Len(q) - 3 + 1
        /\ \A j \in 1..Len(q) - 3 + 1 : y[j] = q[3 + j - 1]
    BY <1>6, <2>1, <2>2, SliceIs
  <2>4. Len(y) = Len(x)
    BY <1>6, <2>3
  <2>5. ASSUME NEW j \in 1..Len(x) PROVE y[j] = x[j]
    <3>1. j \in 1..Len(q) - 3 + 1 /\ 3 + j - 1 = j + 2
      BY <1>6
    <3> QED
      BY <1>6, <2>3, <3>1
  <2> QED
    BY <1>4, <2>1, <2>3, <2>4, <2>5, SeqEqual
<1>8. InHangzhou(q) = q /\ InHangzhou(p) = q
  BY <1>2, <1>7 DEF InHangzhou
<1>9. q # <<>> /\ Head(q) = "cn" /\ q # Panic
  BY <1>6 DEF Panic
<1> QED
  BY <1>8, <1>9 DEF IsPlaced

(* The regions of the table are all regions that may stay.                 *)
LEMMA ListedIsPlaced ==
  ASSUME NEW region \in OssRegions
  PROVE  IsPlaced(region)
BY DEF IsPlaced, OssRegions

(* What oss_rewrite does with the labels of an endpoint, by where its oss  *)
(* and its region are, and that it never fails to find them.               *)
LEMMA OssBodyIs ==
  ASSUME NEW S, NEW s \in Seq(S), OssDomain(s),
         <<"oss">> \in S, OssRegion(s) \in S
  PROVE  /\ OssBody(s) \in Seq(S)
         /\ (IsNative(s) /\ Len(s) > 3 /\ ~IsNamed(s) /\ OssRegion(s) # <<>>) =>
              /\ OssDomain(OssBody(s)) /\ Len(OssBody(s)) > 3
              /\ OssBody(s)[3] = <<"oss">> /\ OssBody(s)[4] = OssRegion(s)
         /\ (IsNamed(s) /\ OssLoc(s) = 2 /\ OssRegion(s) # <<>>) =>
              /\ OssDomain(OssBody(s)) /\ Len(OssBody(s)) > 3
              /\ OssBody(s)[3] = <<"oss">> /\ OssBody(s)[4] = OssRegion(s)
         /\ (~IsNative(s) /\ ~IsNamed(s) /\ OssRegion(s) # <<>>) =>
              /\ OssDomain(OssBody(s)) /\ OssBody(s)[3] = OssRegion(s)
              /\ Len(OssBody(s)) # 4 \/ Position(OssBody(s), <<"oss">>) # -1
<1>1. /\ Len(s) \in Nat /\ Len(s) > 2
      /\ s[1] = <<"com">> /\ s[2] = <<"aliyuncs">>
  BY LenProperties DEF OssDomain
<1>2. PICK region, oss, body, placed :
        /\ region = OssRegion(s) /\ oss = <<"oss">>
        /\ body = IF Len(s) = 4 /\ Position(s, <<"oss">>) = -1
                  THEN SpliceRemove(s, 3) ELSE s
        /\ placed = IF region = <<>> THEN SpliceRemove(body, 2)
                    ELSE SpliceReplace(body, OssLoc(s), region)
  OBVIOUS
<1>3. OssBody(s) = IF IsNamed(s) THEN SpliceInsert(placed, 2, oss) ELSE placed
  BY <1>2, Zenon DEF OssBody
<1>4. OssLoc(s) = IF IsNative(s) /\ Len(s) > 3 THEN 3 ELSE 2
  BY DEF OssLoc
<1>5. /\ body \in Seq(S) /\ Len(body) \in Nat /\ Len(body) >= 3
      /\ body[1] = s[1] /\ body[2] = s[2] /\ body[3] = s[3]
      /\ IsNative(s) => body = s
      /\ Len(body) # 4 \/ Position(body, oss) # -1
  <2>1. CASE Len(s) = 4 /\ Position(s, <<"oss">>) = -1
    <3>1. body = SpliceRemove(s, 3)
      BY <1>2, <2>1
    <3>2. body \in Seq(S) /\ Removed(body, s, 3)
      BY <3>1, SpliceRemoveIs
    <3>3. Len(body) = 3 /\ body[1] = s[1] /\ body[2] = s[2] /\ body[3] = s[3]
      BY <2>1, <3>2 DEF Removed
    <3>4. ~IsNative(s)
      BY <2>1 DEF IsNative
    <3> QED
      BY <3>2, <3>3, <3>4
  <2>2. CASE ~(Len(s) = 4 /\ Position(s, <<"oss">>) = -1)
    BY <1>1, <1>2, <2>2
  <2> QED
    BY <2>1, <2>2
<1>6. CASE region = <<>>
  <2>1. placed \in Seq(S) /\ Removed(placed, body, 2)
    BY <1>2, <1>5, <1>6, SpliceRemoveIs
  <2>2. 2 \in 0..Len(placed)
    BY <1>5, <2>1 DEF Removed
  <2>3. SpliceInsert(placed, 2, oss) \in Seq(S)
    BY <1>2, <2>1, <2>2, SpliceInsertIs
  <2> QED
    BY <1>2, <1>3, <1>6, <2>1, <2>3
<1>7. CASE region # <<>>
  <2>1. OssLoc(s) \in {2, 3} /\ OssLoc(s) < Len(body)
    BY <1>1, <1>4, <1>5
  <2>2. OssLoc(s) \in 0..Len(body)
    BY <1>5, <2>1
  <2>3. placed \in Seq(S) /\ Replaced(placed, body, OssLoc(s), region)
    BY <1>2, <1>5, <1>7, <2>2, SpliceReplaceIs
  <2>4. /\ Len(placed) = Len(body) /\ placed[OssLoc(s) + 1] = region
        /\ placed[1] = s[1] /\ placed[2] = s[2]
        /\ OssLoc(s) = 3 => placed[3] = s[3]
    BY <1>5, <2>1, <2>3 DEF Replaced
  <2>5. 2 \in 0..Len(placed)
    BY <1>5, <2>4
  <2>6. PICK w : w = SpliceInsert(placed, 2, oss)
    OBVIOUS
  <2>7. w \in Seq(S) /\ Inserted(w, placed, 2, oss)
    BY <1>2, <2>3, <2>5, <2>6, SpliceInsertIs
  <2>8. /\ Len(w) = Len(body) + 1 /\ w[1] = s[1] /\ w[2] = s[2] /\ w[3] = oss
        /\ OssLoc(s) = 2 => w[4] = region
    BY <1>5, <2>4, <2>7 DEF Inserted
  <2>9. OssBody(s) \in Seq(S)
    BY <1>3, <2>3, <2>6, <2>7
  <2>10. ASSUME IsNative(s), Len(s) > 3, ~IsNamed(s)
         PROVE  /\ OssDomain(OssBody(s)) /\ Len(OssBody(s)) > 3
                /\ OssBody(s)[3] = <<"oss">> /\ OssBody(s)[4] = region
    <3>1. OssBody(s) = placed /\ OssLoc(s) = 3 /\ body = s
      BY <1>3, <1>4, <1>5, <2>10
    <3>2. s[3] = <<"oss">>
      BY <2>10, OssDomainIs
    <3> QED
      BY <1>1, <2>4, <2>10, <3>1, <3>2 DEF OssDomain
  <2>11. ASSUME IsNamed(s), OssLoc(s) = 2
         PROVE  /\ OssDomain(OssBody(s)) /\ Len(OssBody(s)) > 3
                /\ OssBody(s)[3] = <<"oss">> /\ OssBody(s)[4] = region
    <3>1. OssBody(s) = w
      BY <1>3, <2>6, <2>11
    <3> QED
      BY <1>1, <1>2, <1>5, <2>8, <2>11, <3>1 DEF OssDomain
  <2>12. ASSUME ~IsNative(s), ~IsNamed(s), region = s[3]
         PROVE  /\ OssDomain(OssBody(s)) /\ OssBody(s)[3] = region
                /\ Len(OssBody(s)) # 4 \/ Position(OssBody(s), <<"oss">>) # -1
    <3>1. OssBody(s) = placed /\ OssLoc(s) = 2
      BY <1>3, <1>4, <2>12
    <3>2. placed = body
      BY <1>2, <1>5, <1>7, <2>12, <3>1 DEF SpliceReplace, ReplaceAt
    <3>3. OssDomain(body) /\ body[3] = region
      BY <1>1, <1>5, <2>12 DEF OssDomain
    <3>4. Len(body) # 4 \/ Position(body, <<"oss">>) # -1
      BY <1>2, <1>5
    <3> QED
      BY <3>1, <3>2, <3>3, <3>4
  <2>13. (~IsNative(s) /\ ~IsNamed(s)) => region = s[3]
    BY <1>1, <1>2, <1>4 DEF OssRegion, OssListed, At
  <2> QED
    BY <1>2, <2>9, <2>10, <2>11, <2>12, <2>13
<1> QED
  BY <1>6, <1>7

(* The region it finds is not what a panic stands for.                     *)
LEMMA OssRegionIs ==
  ASSUME NEW s, At(s, OssLoc(s)) \in Label
  PROVE  /\ OssRegion(s) # Panic
         /\ ~IsNamed(s) => OssListed(s) # <<>> /\ Head(OssListed(s)) # "oss"
         /\ IsNative(s) => IsPlaced(OssRegion(s))
<1>1. PICK l, listed : l = At(s, OssLoc(s)) /\ listed = OssListed(s)
  OBVIOUS
<1>2. l \in Seq(STRING \ {"."}) /\ l # <<>>
  BY <1>1 DEF Label
<1>3. Tail(l) \in Seq(STRING \ {"."})
  BY <1>2
<1>4. listed \in Seq(STRING \ {"."})
  BY <1>1, <1>2, <1>3 DEF OssListed
<1>5. listed # Panic
  <2>1. CASE listed = <<>>
    BY <2>1 DEF Panic
  <2>2. CASE listed # <<>>
    <3>1. 1 \in 1..Len(listed)
      BY <1>4, <2>2, LenProperties, EmptySeq
    <3>2. listed[1] \in STRING \ {"."}
      BY <1>4, <3>1, ElementOfSeq
    <3> QED
      BY <3>2 DEF Panic
  <2> QED
    BY <2>1, <2>2
<1>6. InHangzhou(listed) # Panic /\ IsPlaced(InHangzhou(listed))
  BY <1>4, InHangzhouIs
<1>7. ~IsNamed(s) => listed = l /\ listed # <<>> /\ Head(listed) # "oss"
  BY <1>1, <1>2 DEF OssListed, IsNamed
<1>8. listed \in OssRegions => IsPlaced(listed)
  BY ListedIsPlaced
<1> QED
  BY <1>1, <1>5, <1>6, <1>7, <1>8 DEF OssRegion

(* OSS: the region of a dual-stack name stays where it is, and is not put  *)
(* there again.                                                            *)
LEMMA OssSettles ==
  ASSUME NEW name \in Name, OssRewrite(name) # None
  PROVE  /\ Panic \notin ToSet(OssRewrite(name))
         /\ \/ OssRewrite(OssRewrite(name)) = OssRewrite(name)
            \/ OssStrays(name)
<1>1. PICK r, s : /\ r = Reverse(name)
                  /\ s = IF Position(r, <<"aliyun", "inc">>) = 1
                         THEN SpliceReplace(r, 1, <<"aliyuncs">>) ELSE r
  OBVIOUS
<1>2. /\ OssMatches(r) /\ OssRewrite(name) = NameFromLabels(Reverse(OssBody(s)))
  BY <1>1 DEF OssRewrite
<1>3. r \in Seq(Label) /\ Len(r) \in Nat /\ Len(r) > 2
  BY <1>1, <1>2, NameIs, ReverseIs, LenProperties DEF OssMatches
<1>4. /\ r[1] = <<"com">> /\ r[2] \in {<<"aliyuncs">>, <<"aliyun", "inc">>}
      /\ Position(r, <<"aliyun", "inc">>) # 1 => r[2] = <<"aliyuncs">>
      /\ IsNative(r) <=> r[3] = <<"oss">>
  <2>1. 1..1 = {1} /\ 1..2 = {1, 2} /\ 1..0 = {}
    OBVIOUS
  <2>2. ASSUME NEW item, NEW k \in {0, 1, 2}
        PROVE  Position(r, item) = k <=>
                 r[k + 1] = item /\ \A j \in 1..k : r[j] # item
    <3>1. k \in 0..Len(r) - 1
      BY <1>3
    <3> QED
      BY <1>3, <3>1, PositionIs
  <2>3. r[1] = <<"com">>
    BY <1>2, <2>2 DEF OssMatches
  <2>4. \/ Position(r, <<"aliyuncs">>) = 1
        \/ Position(r, <<"aliyun", "inc">>) = 1
    BY <1>2 DEF OssMatches
  <2>5. /\ Position(r, <<"aliyuncs">>) = 1 => r[2] = <<"aliyuncs">>
        /\ Position(r, <<"aliyun", "inc">>) = 1 => r[2] = <<"aliyun", "inc">>
    BY <2>2
  <2>6. Position(r, <<"oss">>) = 2 <=>
          r[3] = <<"oss">> /\ r[1] # <<"oss">> /\ r[2] # <<"oss">>
    BY <2>1, <2>2
  <2>7. r[1] # <<"oss">> /\ r[2] # <<"oss">>
    BY <2>3, <2>4, <2>5
  <2> QED
    BY <2>3, <2>4, <2>5, <2>6, <2>7 DEF IsNative
<1>5. /\ Len(s) = Len(r) /\ s[1] = r[1] /\ s[2] = <<"aliyuncs">>
      /\ \A j \in 3..Len(r) : s[j] = r[j]
      /\ \A T : r \in Seq(T) /\ <<"aliyuncs">> \in T => s \in Seq(T)
  <2>1. CASE Position(r, <<"aliyun", "inc">>) = 1
    <3>1. PICK item : item = <<"aliyuncs">>
      OBVIOUS
    <3>2. s = SpliceReplace(r, 1, item) /\ 1 \in 0..Len(r)
      BY <1>1, <1>3, <2>1, <3>1
    <3>3. ASSUME NEW T, r \in Seq(T), item \in T
          PROVE  s \in Seq(T) /\ Replaced(s, r, 1, item)
      BY <3>2, <3>3, SpliceReplaceIs
    <3>4. Replaced(s, r, 1, item)
      <4>1. PICK T : r \in Seq(T) /\ item \in T
        <5>1. r \in Seq(Label \cup {item})
          BY <1>3
        <5> QED
          BY <5>1
      <4> QED
        BY <3>3, <4>1
    <3> QED
      BY <1>3, <3>1, <3>3, <3>4 DEF Replaced
  <2>2. CASE Position(r, <<"aliyun", "inc">>) # 1
    BY <1>1, <1>4, <2>2
  <2> QED
    BY <2>1, <2>2
<1>6. At(s, OssLoc(s)) \in Label
  <2>1. OssLoc(s) \in {2, 3} /\ OssLoc(s) < Len(s)
    BY <1>3, <1>5 DEF OssLoc
  <2>2. At(s, OssLoc(s)) = r[OssLoc(s) + 1]
    BY <1>3, <1>5, <2>1 DEF At
  <2>3. OssLoc(s) + 1 \in 1..Len(r)
    BY <1>3, <1>5, <2>1
  <2> QED
    BY <1>3, <2>2, <2>3, ElementOfSeq
<1>7. PICK region, extra : /\ region = OssRegion(s)
                           /\ extra = {region, <<"oss">>, <<"aliyuncs">>}
  OBVIOUS
<1>8. Panic \notin extra
  <2>1. region # Panic
    BY <1>6, <1>7, OssRegionIs
  <2> QED
    BY <1>7, <2>1 DEF Panic
<1>9. PICK S : name \in Seq(S) /\ extra \subseteq S /\ Panic \notin S
  BY <1>8, NameWith
<1>10. /\ r \in Seq(S) /\ s \in Seq(S) /\ OssDomain(s)
       /\ <<"oss">> \in S /\ region \in S
  <2>1. r \in Seq(S)
    BY <1>1, <1>9, ReverseIs
  <2>2. <<"aliyuncs">> \in S /\ <<"oss">> \in S /\ region \in S
    BY <1>7, <1>9
  <2> QED
    BY <1>3, <1>4, <1>5, <2>1, <2>2 DEF OssDomain
<1>11. PICK d : d = OssBody(s)
  OBVIOUS
<1>12. d \in Seq(S)
  BY <1>7, <1>10, <1>11, OssBodyIs
<1>13. NameFromLabels(Reverse(d)) = Reverse(d) /\ OssRewrite(name) = Reverse(d)
  BY <1>2, <1>11 DEF NameFromLabels
<1>14. Panic \notin ToSet(OssRewrite(name))
  BY <1>9, <1>12, <1>13, ReverseIs, NotInSeq
<1>15. (OssDomain(d) /\ OssBody(d) = d) \/ OssStrays(name)
  <2>1. /\ IsNative(s) <=> IsNative(r)
        /\ IsNative(s) <=> s[3] = <<"oss">>
    <3>1. IsNative(s) <=> s[3] = <<"oss">>
      BY <1>10, OssDomainIs
    <3>2. s[3] = r[3]
      BY <1>3, <1>5
    <3> QED
      BY <1>4, <3>1, <3>2
  <2>2. OssLoc(s) = OssLoc(r) /\ OssLoc(s) = IF IsNative(s) /\ Len(s) > 3
                                             THEN 3 ELSE 2
    BY <1>5, <2>1 DEF OssLoc
  <2>3. At(s, OssLoc(s)) = At(r, OssLoc(r))
    BY <1>3, <1>5, <2>2 DEF At
  <2>4. (IsNamed(s) <=> IsNamed(r)) /\ OssListed(s) = OssListed(r)
    BY <2>3 DEF IsNamed, OssListed
  <2>5. OssStrays(name) <=>
          IsNamed(s) /\ IF IsNative(s) THEN Len(s) > 3
                                       ELSE OssListed(s) \notin OssRegions
    BY <1>1, <1>5, <2>1, <2>4 DEF OssStrays
  <2>6. CASE IsNative(s) /\ Len(s) > 3 /\ ~IsNamed(s)
    <3>1. IsPlaced(region)
      BY <1>6, <1>7, <2>6, OssRegionIs
    <3>2. region # <<>>
      BY <3>1 DEF IsPlaced
    <3>3. /\ OssDomain(d) /\ Len(d) > 3 /\ d[3] = <<"oss">> /\ d[4] = region
      BY <1>7, <1>10, <1>11, <2>6, <3>2, OssBodyIs
    <3> QED
      BY <1>12, <3>1, <3>3, NativeStays
  <2>7. CASE IsNative(s) /\ ~(Len(s) > 3)
    <3>1. OssLoc(s) = 2 /\ At(s, 2) = <<"oss">>
      <4>1. OssLoc(s) = 2
        BY <2>7 DEF OssLoc
      <4>2. s[3] = <<"oss">>
        BY <2>1, <2>7
      <4>3. Len(s) \in Nat /\ Len(s) > 2
        BY <1>10, LenProperties DEF OssDomain
      <4>4. At(s, 2) = s[3]
        BY <4>3 DEF At
      <4> QED
        BY <4>1, <4>2, <4>4
    <3>2. IsNamed(s) /\ OssListed(s) = <<>>
      <4>1. At(s, OssLoc(s)) = <<"oss">>
        BY <3>1
      <4>2. Head(<<"oss">>) = "oss" /\ Tail(<<"oss">>) = <<>>
        OBVIOUS
      <4> QED
        BY <4>1, <4>2, Zenon DEF IsNamed, OssListed
    <3>3. IsPlaced(region)
      BY <1>6, <1>7, <2>7, OssRegionIs
    <3>4. region # <<>>
      BY <3>3 DEF IsPlaced
    <3>5. /\ OssDomain(d) /\ Len(d) > 3 /\ d[3] = <<"oss">> /\ d[4] = region
      BY <1>7, <1>10, <1>11, <3>1, <3>2, <3>4, OssBodyIs
    <3> QED
      BY <1>12, <3>3, <3>5, NativeStays
  <2>8. CASE ~IsNative(s) /\ IsNamed(s) /\ OssListed(s) \in OssRegions
    <3>1. region = OssListed(s) /\ OssLoc(s) = 2
      BY <1>7, <2>2, <2>8 DEF OssRegion
    <3>2. IsPlaced(region)
      BY <2>8, <3>1, ListedIsPlaced
    <3>3. region # <<>>
      BY <3>2 DEF IsPlaced
    <3>4. /\ OssDomain(d) /\ Len(d) > 3 /\ d[3] = <<"oss">> /\ d[4] = region
      BY <1>7, <1>10, <1>11, <2>8, <3>1, <3>3, OssBodyIs
    <3> QED
      BY <1>12, <3>2, <3>4, NativeStays
  <2>9. CASE ~IsNative(s) /\ ~IsNamed(s)
    <3>1. region = OssListed(s)
      BY <1>7, <2>9 DEF OssRegion
    <3>2. region # <<>> /\ Head(region) # "oss"
      BY <1>6, <2>9, <3>1, OssRegionIs
    <3>3. /\ OssDomain(d) /\ d[3] = region
          /\ Len(d) # 4 \/ Position(d, <<"oss">>) # -1
      BY <1>7, <1>10, <1>11, <2>9, <3>2, OssBodyIs
    <3>4. region # <<"oss">>
      BY <3>2
    <3> QED
      BY <1>12, <3>2, <3>3, <3>4, PlainStays
  <2> QED
    BY <2>5, <2>6, <2>7, <2>8, <2>9
<1>16. OssDomain(d) /\ OssBody(d) = d =>
         OssRewrite(OssRewrite(name)) = OssRewrite(name)
  BY <1>12, <1>13, OssAgain
<1> QED
  BY <1>14, <1>15, <1>16
-------------------------------------------------------------------------------
(* The first labels of a reversed endpoint, and of what is made of it.     *)
StartsAs(f, s) == Len(f) >= 3 /\ f[1] = s[1] /\ f[2] = s[2]

(* What the forms of s3_rewrite leave of the labels: the domain stays, and *)
(* only an accelerate endpoint gets its dualstack here.                    *)
LEMMA S3FormIs ==
  ASSUME NEW S, NEW s \in Seq(S), NEW china \in BOOLEAN, Len(s) > 2,
         {<<"dualstack">>, UsEast1, <<"s3">>, <<"s3", "r", "w">>,
          <<"s3", "website">>} \subseteq S,
         s[3] \in Label, S3Region(s[3], china) \in S,
         S3Form(s, china) # NoForm
  PROVE  /\ S3Form(s, china).labels \in Seq(S)
         /\ StartsAs(S3Form(s, china).labels, s)
         /\ \/ S3Form(s, china).labels[3] # <<"dualstack">>
            \/ s[3] = <<"dualstack">>
            \/ /\ S3Form(s, china).labels[4] = <<"s3", "accelerate">>
               /\ ~S3Form(s, china).china
<1>1. Len(s) \in Nat
  BY LenProperties
<1>2. PICK dual, accelerate, store, rw, website :
        /\ dual = <<"dualstack">> /\ accelerate = <<"s3", "accelerate">>
        /\ store = <<"s3">> /\ rw = <<"s3", "r", "w">>
        /\ website = <<"s3", "website">>
  OBVIOUS
<1>3. PICK body, region :
        /\ body = IF Len(s) = 5 THEN Append(s, At(s, 4)) ELSE s
        /\ region = S3Region(s[3], china)
  OBVIOUS
<1>4. PICK implied, cut, regional :
        /\ implied = SpliceInsert(body, 2, UsEast1)
        /\ cut = SpliceRemove(body, 2)
        /\ regional = SpliceInsert(cut, 2, region)
  OBVIOUS
<1>5. At(s, 2) = s[3]
  BY <1>1 DEF At
<1>6. \/ /\ Position(s, accelerate) = 2
         /\ S3Form(s, china) = Form(SpliceInsert(body, 2, dual), FALSE)
      \/ S3Form(s, china).labels = SpliceRemove(body, 4)
      \/ S3Form(s, china).labels = SpliceReplace(implied, 3, rw)
      \/ S3Form(s, china).labels = implied
      \/ S3Form(s, china).labels
           = SpliceReplace(SpliceReplace(body, 2, UsEast1), 3, website)
      \/ /\ Len(s[3]) > 1
         /\ S3Form(s, china).labels
              \in {regional, SpliceInsert(regional, 3, store)}
  BY <1>2, <1>3, <1>4, <1>5 DEF S3Form, Form
<1>7. /\ dual \in S /\ store \in S /\ rw \in S /\ website \in S
      /\ UsEast1 \in S /\ region \in S
  BY <1>2, <1>3
<1>8. /\ body \in Seq(S) /\ Len(body) \in Nat /\ StartsAs(body, s)
      /\ body[3] = s[3]
  <2>1. CASE Len(s) = 5
    <3>1. At(s, 4) = s[5] /\ 5 \in 1..Len(s)
      BY <1>1, <2>1 DEF At
    <3>2. PICK x : x = s[5]
      OBVIOUS
    <3>3. x \in S
      BY <3>1, <3>2, ElementOfSeq
    <3>4. body = Append(s, x)
      BY <1>3, <2>1, <3>1, <3>2
    <3>5. body \in Seq(S)
      BY <3>3, <3>4, AppendProperties
    <3>6. Len(body) = 6
      <4>1. Len(Append(s, x)) = Len(s) + 1
        BY <3>3, AppendProperties
      <4>2. Len(s) + 1 = 6
        BY <2>1
      <4> QED
        BY <3>4, <4>1, <4>2, Zenon
    <3>7. body[1] = s[1] /\ body[2] = s[2] /\ body[3] = s[3]
      BY <2>1, <3>3, <3>4
    <3> QED
      BY <3>5, <3>6, <3>7 DEF StartsAs
  <2>2. CASE Len(s) # 5
    BY <1>1, <1>3, <2>2 DEF StartsAs
  <2> QED
    BY <2>1, <2>2
<1>9. /\ implied \in Seq(S) /\ Len(implied) = Len(body) + 1
      /\ StartsAs(implied, s) /\ implied[3] = UsEast1
  <2>1. 2 \in 0..Len(body)
    BY <1>8 DEF StartsAs
  <2>2. implied \in Seq(S) /\ Inserted(implied, body, 2, UsEast1)
    BY <1>4, <1>7, <1>8, <2>1, SpliceInsertIs
  <2> QED
    BY <1>8, <2>2 DEF Inserted, StartsAs
<1>10. UsEast1 # dual
  BY <1>2 DEF UsEast1
<1>11. PICK f : f = S3Form(s, china).labels
  OBVIOUS
<1>12. CASE /\ Position(s, accelerate) = 2
            /\ S3Form(s, china) = Form(SpliceInsert(body, 2, dual), FALSE)
  <2>1. f = SpliceInsert(body, 2, dual) /\ S3Form(s, china).china = FALSE
    BY <1>11, <1>12 DEF Form
  <2>2. 2 \in 0..Len(body)
    BY <1>8 DEF StartsAs
  <2>3. f \in Seq(S) /\ Inserted(f, body, 2, dual)
    BY <1>7, <1>8, <2>1, <2>2, SpliceInsertIs
  <2>4. StartsAs(f, s) /\ f[4] = s[3]
    BY <1>8, <2>3 DEF Inserted, StartsAs
  <2>5. s[3] = accelerate
    <3>1. 2 \in 0..Len(s) - 1
      BY <1>1
    <3> QED
      BY <1>12, <3>1, PositionIs
  <2> QED
    BY <1>2, <1>11, <2>1, <2>3, <2>4, <2>5
<1>13. CASE f = SpliceRemove(body, 4)
  <2>1. f \in Seq(S) /\ Removed(f, body, 4)
    BY <1>8, <1>13, SpliceRemoveIs
  <2>2. StartsAs(f, s) /\ f[3] = s[3]
    BY <1>8, <2>1 DEF Removed, StartsAs
  <2> QED
    BY <1>11, <2>1, <2>2
<1>14. CASE f = SpliceReplace(implied, 3, rw)
  <2>1. 3 \in 0..Len(implied)
    BY <1>8, <1>9 DEF StartsAs
  <2>2. f \in Seq(S) /\ Replaced(f, implied, 3, rw)
    BY <1>7, <1>9, <1>14, <2>1, SpliceReplaceIs
  <2>3. StartsAs(f, s) /\ f[3] = UsEast1
    BY <1>8, <1>9, <2>2 DEF Replaced, StartsAs
  <2> QED
    BY <1>2, <1>10, <1>11, <2>2, <2>3
<1>15. CASE f = implied
  BY <1>2, <1>9, <1>10, <1>11, <1>15
<1>16. CASE f = SpliceReplace(SpliceReplace(body, 2, UsEast1), 3, website)
  <2>1. PICK w : w = SpliceReplace(body, 2, UsEast1)
    OBVIOUS
  <2>2. 2 \in 0..Len(body)
    BY <1>8 DEF StartsAs
  <2>3. w \in Seq(S) /\ Replaced(w, body, 2, UsEast1)
    BY <1>7, <1>8, <2>1, <2>2, SpliceReplaceIs
  <2>4. StartsAs(w, s) /\ w[3] = UsEast1 /\ Len(w) = Len(body)
    BY <1>8, <2>3 DEF Replaced, StartsAs
  <2>5. 3 \in 0..Len(w)
    BY <1>8, <2>4 DEF StartsAs
  <2>6. f \in Seq(S) /\ Replaced(f, w, 3, website)
    BY <1>7, <1>16, <2>1, <2>3, <2>5, SpliceReplaceIs
  <2>7. StartsAs(f, s) /\ f[3] = UsEast1
    BY <1>8, <2>4, <2>6 DEF Replaced, StartsAs
  <2> QED
    BY <1>2, <1>10, <1>11, <2>6, <2>7
<1>17. CASE Len(s[3]) > 1 /\ f \in {regional, SpliceInsert(regional, 3, store)}
  <2>1. cut \in Seq(S) /\ Removed(cut, body, 2)
    BY <1>4, <1>8, SpliceRemoveIs
  <2>2. Len(cut) = Len(body) - 1 /\ cut[1] = s[1] /\ cut[2] = s[2]
    BY <1>8, <2>1 DEF Removed, StartsAs
  <2>3. 2 \in 0..Len(cut)
    BY <1>8, <2>2 DEF StartsAs
  <2>4. regional \in Seq(S) /\ Inserted(regional, cut, 2, region)
    BY <1>4, <1>7, <2>1, <2>3, SpliceInsertIs
  <2>5. /\ StartsAs(regional, s) /\ regional[3] = region
        /\ Len(regional) = Len(body)
    BY <1>8, <2>2, <2>4 DEF Inserted, StartsAs
  <2>6. region # dual
    <3>1. s[3] \in Seq(STRING \ {"."}) /\ Len(s[3]) \in Nat
      BY LabelIs
    <3>2. Len(s[3]) = 4 => Len(Tail(s[3])) = 3
      BY <3>1
    <3>3. region = s[3] \/ (Len(s[3]) = 4 /\ region = Tail(s[3]))
      BY <1>3, Zenon DEF S3Region
    <3>4. Len(region) = Len(s[3]) \/ Len(region) = 3
      BY <3>2, <3>3, Zenon
    <3>5. Len(region) > 1
      <4>1. PICK k \in Nat : k = Len(s[3])
        BY <3>1
      <4>2. k > 1
        BY <1>17, <4>1
      <4>3. Len(region) = k \/ Len(region) = 3
        BY <3>4, <4>1, Zenon
      <4> QED
        BY <4>2, <4>3
    <3> QED
      BY <1>2, <3>5
  <2>7. CASE f = regional
    BY <1>2, <1>11, <2>4, <2>5, <2>6, <2>7
  <2>8. CASE f = SpliceInsert(regional, 3, store)
    <3>1. 3 \in 0..Len(regional)
      BY <1>8, <2>5 DEF StartsAs
    <3>2. f \in Seq(S) /\ Inserted(f, regional, 3, store)
      BY <1>7, <2>4, <2>8, <3>1, SpliceInsertIs
    <3>3. StartsAs(f, s) /\ f[3] = region
      BY <1>8, <2>5, <3>2 DEF Inserted, StartsAs
    <3> QED
      BY <1>2, <1>11, <2>6, <3>2, <3>3
  <2> QED
    BY <1>17, <2>7, <2>8
<1> QED
  BY <1>6, <1>11, <1>12, <1>13, <1>14, <1>15, <1>16, <1>17

(* Where the search for a label can end among the first four.              *)
LEMMA EarlyPosition ==
  ASSUME NEW S, NEW v \in Seq(S), Len(v) >= 3, NEW item
  PROVE  /\ Position(v, item) = 0 <=> v[1] = item
         /\ Position(v, item) = 1 <=> v[2] = item /\ v[1] # item
         /\ Position(v, item) = 2 <=> v[3] = item /\ v[1] # item /\ v[2] # item
         /\ Position(v, item) = 3 =>
              /\ v[4] = item
              /\ v[1] # item /\ v[2] # item /\ v[3] # item
         /\ (/\ v[4] = item /\ Len(v) >= 4
             /\ v[1] # item /\ v[2] # item /\ v[3] # item) =>
              Position(v, item) = 3
<1>1. Len(v) \in Nat
  BY LenProperties
<1>2. 1..0 = {} /\ 1..1 = {1} /\ 1..2 = {1, 2} /\ 1..3 = {1, 2, 3}
  OBVIOUS
<1>3. ASSUME NEW k \in 0..Len(v) - 1
      PROVE  Position(v, item) = k <=>
               v[k + 1] = item /\ \A j \in 1..k : v[j] # item
  BY PositionIs
<1>4. Position(v, item) \in -1..Len(v) - 1
  BY PositionIs
<1>5. 0 \in 0..Len(v) - 1 /\ 1 \in 0..Len(v) - 1 /\ 2 \in 0..Len(v) - 1
  BY <1>1
<1>6. Position(v, item) = 3 \/ Len(v) >= 4 => 3 \in 0..Len(v) - 1
  BY <1>1, <1>4
<1>7. Position(v, item) = 0 <=> v[0 + 1] = item /\ \A j \in 1..0 : v[j] # item
  BY <1>3, <1>5
<1>8. Position(v, item) = 1 <=> v[1 + 1] = item /\ \A j \in 1..1 : v[j] # item
  BY <1>3, <1>5
<1>9. Position(v, item) = 2 <=> v[2 + 1] = item /\ \A j \in 1..2 : v[j] # item
  BY <1>3, <1>5
<1>10. Position(v, item) = 3 \/ Len(v) >= 4 =>
         (Position(v, item) = 3 <=>
            v[3 + 1] = item /\ \A j \in 1..3 : v[j] # item)
  BY <1>3, <1>6
<1> QED
  BY <1>2, <1>7, <1>8, <1>9, <1>10

(* The dual-stack form of an accelerate endpoint has none itself.          *)
LEMMA AccelerateStays ==
  ASSUME NEW S, NEW f \in Seq(S), Len(f) >= 3,
         f[3] = <<"dualstack">>, f[4] = <<"s3", "accelerate">>
  PROVE  S3Form(f, FALSE) = NoForm
<1>1. At(f, 2) = <<"dualstack">>
  BY LenProperties DEF At
<1>2. /\ Position(f, <<"s3", "accelerate">>) # 2
      /\ Position(f, <<"s3", "accesspoint">>) # 3
      /\ Position(f, <<"s3", "website">>) # 3
      /\ Position(f, <<"s3">>) # 3
      /\ Position(f, <<"s3", "control">>) # 3
      /\ Position(f, <<"s3">>) # 2
  <2>1. \A item : Position(f, item) = 3 => f[4] = item
    BY EarlyPosition
  <2>2. \A item : Position(f, item) = 2 => f[3] = item
    BY EarlyPosition
  <2> QED
    BY <2>1, <2>2
<1>3. Len(<<"dualstack">>) = 1 /\ <<"dualstack">>[1] # "s3"
  OBVIOUS
<1> QED
  BY <1>1, <1>2, <1>3 DEF S3Form

(* What s3_rewrite refuses, by the labels it looks at.                     *)
LEMMA S3Refuses ==
  ASSUME NEW name, NEW s,
         s = IF Position(Reverse(name), <<"cn">>) = 0 THEN Tail(Reverse(name))
             ELSE Reverse(name),
         \/ Position(s, <<"dualstack">>) = 3
         \/ Position(s, <<"amazonaws">>) # 1
         \/ S3Form(s, Position(Reverse(name), <<"cn">>) = 0) = NoForm
  PROVE  S3Rewrite(name) = None
BY Zenon DEF S3Rewrite

(* S3: what it rewrites to has a dualstack where it would look for one, or *)
(* is no form that it knows.                                               *)
LEMMA S3Settles ==
  ASSUME NEW name \in Name, S3Rewrite(name) # None
  PROVE  /\ Panic \notin ToSet(S3Rewrite(name))
         /\ S3Rewrite(S3Rewrite(name)) = None \/ S3Strays(name)
<1>0. PICK cn, label, amazon : /\ cn = <<"cn">> /\ label = <<"dualstack">>
                               /\ amazon = <<"amazonaws">>
  OBVIOUS
<1>1. PICK r, china, s : /\ r = Reverse(name)
                         /\ china = (Position(r, cn) = 0)
                         /\ s = IF china THEN Tail(r) ELSE r
  OBVIOUS
<1>2. PICK f, dual, w :
        /\ f = S3Form(s, china).labels
        /\ dual = IF At(f, 2) = label THEN f ELSE SpliceInsert(f, 3, label)
        /\ w = IF S3Form(s, china).china THEN <<cn>> \o dual ELSE dual
  OBVIOUS
<1>3. /\ Position(s, label) # 3 /\ Position(s, amazon) = 1
      /\ ~(Len(s) <= 2) /\ S3Form(s, china) # NoForm
      /\ S3Rewrite(name) = Reverse(w)
  <2>1. S3Rewrite(name) =
          IF \/ Position(s, label) = 3
             \/ Position(s, amazon) # 1
             \/ Len(s) <= 2
             \/ S3Form(s, china) = NoForm
          THEN None ELSE Reverse(w)
    BY <1>0, <1>1, <1>2, Zenon DEF S3Rewrite
  <2> QED
    BY <2>1
<1>4. r \in Seq(Label) /\ Len(r) \in Nat /\ china \in BOOLEAN
  BY <1>0, <1>1, NameIs, ReverseIs
<1>5. s \in Seq(Label)
  <2>1. CASE china
    <3>1. r # <<>>
      <4>1. Position(r, cn) \in -1..Len(r) - 1
        BY <1>4, PositionIs
      <4> QED
        <5>1. Position(r, cn) = 0
          BY <1>0, <1>1, <2>1
        <5> QED
          BY <1>4, <4>1, <5>1
    <3> QED
      BY <1>0, <1>1, <1>4, <2>1, <3>1
  <2>2. CASE ~china
    BY <1>0, <1>1, <1>4, <2>2
  <2> QED
    BY <1>4, <2>1, <2>2
<1>6. Len(s) \in Nat /\ Len(s) > 2 /\ s[3] \in Label
  BY <1>3, <1>5, LenProperties, ElementOfSeq
<1>7. PICK region, extra :
        /\ region = S3Region(s[3], china)
        /\ extra = {label, UsEast1, <<"s3">>, <<"s3", "r", "w">>,
                    <<"s3", "website">>, cn, region}
  OBVIOUS
<1>8. Panic \notin extra
  <2>1. region # Panic
    <3>1. s[3] \in Seq(STRING \ {"."}) /\ s[3] # Panic
      BY <1>6, LabelIs
    <3>2. region = s[3] \/ (Len(s[3]) = 4 /\ region = Tail(s[3]))
      BY <1>7, Zenon DEF S3Region
    <3>3. Len(s[3]) = 4 => Len(Tail(s[3])) = 3
      BY <3>1
    <3>4. Len(Panic) = 1
      BY DEF Panic
    <3>5. Len(s[3]) = 4 => Tail(s[3]) # Panic
      <4>1. 3 # 1
        OBVIOUS
      <4> QED
        BY <3>3, <3>4, <4>1, Zenon
    <3> QED
      BY <3>1, <3>2, <3>5, Zenon
  <2>2. UsEast1 # Panic
    BY DEF UsEast1, Panic
  <2> QED
    BY <1>0, <1>1, <1>7, <2>1, <2>2 DEF Panic
<1>9. PICK S : /\ name \in Seq(S) /\ Label \subseteq S /\ extra \subseteq S
               /\ Panic \notin S
  BY <1>8, NameWith
<1>10. /\ s \in Seq(S) /\ label \in S /\ cn \in S /\ region \in S
       /\ {<<"dualstack">>, UsEast1, <<"s3">>, <<"s3", "r", "w">>,
           <<"s3", "website">>} \subseteq S
  <2>1. s \in Seq(S)
    BY <1>5, <1>9
  <2> QED
    BY <1>0, <1>1, <1>7, <1>9, <2>1
<1>11. /\ f \in Seq(S) /\ StartsAs(f, s)
       /\ \/ f[3] # label \/ s[3] = label
          \/ f[4] = <<"s3", "accelerate">> /\ ~S3Form(s, china).china
  <2>1. S3Region(s[3], china) \in S
    BY <1>7, <1>10
  <2> QED
    BY <1>0, <1>1, <1>2, <1>3, <1>4, <1>6, <1>10, <2>1, S3FormIs
<1>12. At(f, 2) = f[3] /\ Len(f) \in Nat /\ Len(f) >= 3
  BY <1>11, LenProperties DEF At, StartsAs
<1>13. /\ dual \in Seq(S) /\ StartsAs(dual, s) /\ dual[3] = f[3]
       /\ f[3] = label => dual = f
       /\ f[3] # label => Len(dual) >= 4 /\ dual[4] = label
  <2>1. CASE f[3] = label
    BY <1>2, <1>11, <1>12, <2>1
  <2>2. CASE f[3] # label
    <3>1. dual = SpliceInsert(f, 3, label) /\ 3 \in 0..Len(f)
      BY <1>2, <1>12, <2>2
    <3>2. dual \in Seq(S) /\ Inserted(dual, f, 3, label)
      BY <1>10, <1>11, <3>1, SpliceInsertIs
    <3>3. /\ Len(dual) = Len(f) + 1 /\ dual[1] = f[1] /\ dual[2] = f[2]
          /\ dual[3] = f[3] /\ dual[4] = label
      BY <1>12, <3>2 DEF Inserted
    <3> QED
      BY <1>11, <1>12, <2>2, <3>2, <3>3 DEF StartsAs
  <2> QED
    BY <2>1, <2>2
<1>14. PICK before : before = <<cn>> \o dual
  OBVIOUS
<1>15. /\ before \in Seq(S) /\ before # <<>>
       /\ Head(before) = cn /\ Tail(before) = dual
  <2>1. <<cn>> \in Seq(S) /\ Len(<<cn>>) = 1 /\ <<cn>>[1] = cn
    BY <1>10
  <2> QED
    BY <1>13, <1>14, <2>1
<1>b. Position(before, cn) = 0
  <2>1. before[1] = cn /\ Len(before) >= 3
    BY <1>13, <1>15 DEF StartsAs
  <2> QED
    BY <1>15, <2>1, EarlyPosition
<1>16. w \in Seq(S)
  BY <1>2, <1>13, <1>14, <1>15
<1>17. Panic \notin ToSet(S3Rewrite(name))
  BY <1>3, <1>9, <1>16, ReverseIs, NotInSeq
<1>18. Reverse(Reverse(w)) = w
  BY <1>16, ReverseIs
<1>19. s[2] = amazon /\ s[1] # amazon
  BY <1>3, <1>6, <1>10, EarlyPosition
<1>20. S3Strays(name) <=> Position(s, label) \in {0, 2}
  BY <1>0, <1>1, Zenon DEF S3Strays
<1>21. ASSUME ~S3Strays(name)
       PROVE  S3Rewrite(Reverse(w)) = None
  <2>1. s[1] # label /\ s[2] # label /\ s[3] # label
    <3>1. s[2] # label
      <4>1. amazon # label
        BY <1>0
      <4> QED
        BY <1>19, <4>1, Zenon
    <3>2. Position(s, label) # 0 /\ Position(s, label) # 2
      BY <1>20, <1>21
    <3> QED
      BY <1>6, <1>10, <3>1, <3>2, EarlyPosition
  <2>2. PICK again : again = IF Position(w, cn) = 0 THEN Tail(w) ELSE w
    OBVIOUS
  <2>3. CASE again = dual
    <3>1. CASE f[3] # label
      <4>1. Len(dual) >= 4 /\ dual[4] = label /\ dual[3] # label
            /\ dual[1] # label /\ dual[2] # label
        BY <1>13, <2>1, <3>1 DEF StartsAs
      <4>2. Position(dual, label) = 3
        BY <1>13, <4>1, EarlyPosition, LenProperties
      <4> QED
        BY <1>0, <1>1, <1>18, <2>2, <2>3, <4>2, S3Refuses
    <3>2. CASE f[3] = label
      <4>1. f[4] = <<"s3", "accelerate">> /\ ~S3Form(s, china).china
        BY <1>11, <2>1, <3>2
      <4>2. w = dual /\ dual = f
        BY <1>2, <1>13, <3>2, <4>1
      <4>3. S3Form(f, FALSE) = NoForm
        BY <1>0, <1>1, <1>11, <1>12, <3>2, <4>1, AccelerateStays
      <4>4. Position(w, cn) # 0
        <5>1. Position(w, cn) = 0 => Tail(w) = w
          BY <2>2, <2>3, <4>2
        <5>2. Len(Tail(f)) # Len(f)
          BY <1>11, <1>12
        <5> QED
          BY <4>2, <5>1, <5>2
      <4> QED
        BY <1>0, <1>1, <1>18, <2>2, <2>3, <4>2, <4>3, <4>4, S3Refuses
    <3> QED
      BY <3>1, <3>2
  <2>4. CASE again # dual
    <3>1. w = dual /\ again = Tail(dual)
      <4>1. w # before
        BY <1>15, <1>b, <2>2, <2>4
      <4>2. w = dual
        BY <1>2, <1>14, <4>1
      <4> QED
        BY <2>2, <2>4, <4>2
    <3>2. /\ Tail(dual) \in Seq(S) /\ Len(dual) >= 3
          /\ Tail(dual)[1] = amazon
      BY <1>13, <1>19 DEF StartsAs
    <3>3. Position(Tail(dual), amazon) # 1
      <4>1. PICK t : t = Tail(dual)
        OBVIOUS
      <4>2. t \in Seq(S) /\ Len(t) \in Nat /\ Len(t) >= 2 /\ t[1] = amazon
        BY <1>13, <3>2, <4>1, LenProperties
      <4>3. 1 \in 0..Len(t) - 1 /\ 1 \in 1..1
        BY <4>2
      <4>4. Position(t, amazon) = 1 => \A j \in 1..1 : t[j] # amazon
        BY <4>2, <4>3, PositionIs
      <4> QED
        BY <4>1, <4>2, <4>3, <4>4
    <3> QED
      BY <1>0, <1>1, <1>18, <2>2, <3>1, <3>3, S3Refuses
  <2> QED
    BY <2>3, <2>4
<1> QED
  BY <1>3, <1>17, <1>21

(* A rewrite of any of the providers of which RewritesSettle speaks.       *)
LEMMA RewriteSettles ==
  ASSUME NEW id \in Settling, NEW name \in Name, Rewrite(id, name) # None
  PROVE  /\ Panic \notin ToSet(Rewrite(id, name))
         /\ \/ Rewrite(id, Rewrite(id, name)) \in {None, Rewrite(id, name)}
            \/ Strays(id, name)
<1>1. id \in {"s3", "oss", "oracleobjectstorage", "awsglb", "azurewebsites",
              "cachefly"}
  BY DEF Settling, MatchRewrite
<1>2. CASE id = "s3"
  <2>1. \A n : Rewrite(id, n) = S3Rewrite(n)
    BY <1>2 DEF Rewrite
  <2> QED
    BY <1>2, <2>1, S3Settles DEF Strays
<1>3. CASE id = "oss"
  <2>1. \A n : Rewrite(id, n) = OssRewrite(n)
    BY <1>3 DEF Rewrite
  <2> QED
    BY <1>3, <2>1, OssSettles DEF Strays
<1>4. CASE id = "oracleobjectstorage"
  <2>1. \A n : Rewrite(id, n) = OracleRewrite(n)
    BY <1>4 DEF Rewrite
  <2> QED
    BY <2>1, OracleSettles
<1>5. CASE id = "awsglb"
  <2>1. \A n : Rewrite(id, n) = AwsglbRewrite(n)
    BY <1>5 DEF Rewrite
  <2> QED
    BY <2>1, AwsglbSettles
<1>6. CASE id = "azurewebsites"
  <2>1. \A n : Rewrite(id, n) = AzureRewrite(n)
    BY <1>6 DEF Rewrite
  <2> QED
    BY <2>1, AzureSettles
<1>7. CASE id = "cachefly"
  <2>1. \A n : Rewrite(id, n) = CacheflyRewrite(n)
    BY <1>7 DEF Rewrite
  <2> QED
    BY <2>1, CacheflySettles
<1> QED
  BY <1>1, <1>2, <1>3, <1>4, <1>5, <1>6, <1>7
-------------------------------------------------------------------------------
(* The hostnames of a context are names.                                   *)
LEMMA HostnamesAreNames ==
  ASSUME NEW f \in Facts, NEW h \in ToSet(Hostnames(f))
  PROVE  h \in Name
<1>1. f.cnames \in Seq(Name) /\ f.name \in Name
  BY DEF Facts
<1>2. Hostnames(f) \in Seq(Name)
  BY <1>1, AppendProperties DEF Hostnames
<1> QED
  BY <1>2 DEF ToSet

(* A plan that asks for a name claims no address.                          *)
LEMMA AsksIsPlan ==
  ASSUME NEW combine \in {"verbatim", "borrow", "fuse"}, NEW target
  PROVE  /\ Asks(combine, target).plan \in Plan
         /\ Asks(combine, target).plan.claims = {}
BY DEF Asks, Plan, Combination

(* A plan that asks for nothing claims what it is given.                   *)
LEMMA PureIsPlan ==
  ASSUME NEW combine \in {"constant", "transform"}, NEW claims \in SUBSET IPv4
  PROVE  /\ Pure(combine, claims).plan \in Plan
         /\ Pure(combine, claims).plan.claims = claims
BY DEF Pure, Plan, Combination

(* No detection is no plan, and claims nothing.                            *)
LEMMA NotDetectedIsPlan ==
  /\ NotDetected.plan = NoPlan
  /\ NotDetected.plan.claims = {}
BY DEF NotDetected, NoPlan

(* The A records of a context, and those of them in a range.               *)
LEMMA AddressesOf ==
  ASSUME NEW f \in Facts
  PROVE  /\ Addrs(f.a) \in SUBSET IPv4
         /\ \A block : Inside(f, block) \in SUBSET IPv4
<1>1. f.a \in SUBSET [addr : IPv4, ttl : Nat]
  BY DEF Facts
<1>2. Addrs(f.a) \in SUBSET IPv4
  BY <1>1 DEF Addrs
<1> QED
  BY <1>2 DEF Inside

(* MatchConst asks for nothing and claims nothing.                         *)
LEMMA ConstIsPlan ==
  ASSUME NEW entry, NEW f \in Facts
  PROVE  DetectConst(entry, f).plan \in Plan \cup {NoPlan}
<1>1. Pure("constant", {}).plan \in Plan
  BY PureIsPlan
<1> QED
  BY <1>1, NotDetectedIsPlan, Zenon DEF DetectConst

(* MatchBorrow asks for its reference.                                     *)
LEMMA BorrowIsPlan ==
  ASSUME NEW entry, NEW f \in Facts
  PROVE  DetectBorrow(entry, f).plan \in Plan \cup {NoPlan}
<1>1. \A target : /\ Asks("borrow", target).plan \in Plan
                  /\ Asks("verbatim", target).plan \in Plan
  BY AsksIsPlan
<1> QED
  BY <1>1, NotDetectedIsPlan, Zenon DEF DetectBorrow

(* MatchRewrite asks for a rewritten name, and claims nothing.             *)
LEMMA RewriteIsPlan ==
  ASSUME NEW rewritten
  PROVE  /\ DetectRewrite(rewritten).plan \in Plan \cup {NoPlan}
         /\ DetectRewrite(rewritten).plan.claims = {}
<1>1. /\ Asks("verbatim", FirstRewritten(rewritten)).plan \in Plan
      /\ Asks("verbatim", FirstRewritten(rewritten)).plan.claims = {}
  BY AsksIsPlan
<1> QED
  BY <1>1, NotDetectedIsPlan, Zenon DEF DetectRewrite

(* A range claims only the addresses in it.                                *)
LEMMA RangeIsPlan ==
  ASSUME NEW block, NEW f \in Facts
  PROVE  /\ DetectRange(block, f).plan \in Plan \cup {NoPlan}
         /\ DetectRange(block, f).plan.claims \subseteq Inside(f, block)
<1>1. /\ Pure("transform", Inside(f, block)).plan \in Plan
      /\ Pure("transform", Inside(f, block)).plan.claims = Inside(f, block)
  BY PureIsPlan, AddressesOf
<1>2. CASE Inside(f, block) = {}
  BY <1>2, NotDetectedIsPlan DEF DetectRange
<1>3. CASE Inside(f, block) # {}
  <2>1. DetectRange(block, f) = Pure("transform", Inside(f, block))
    BY <1>3 DEF DetectRange
  <2> QED
    BY <1>1, <2>1
<1> QED
  BY <1>2, <1>3

(* Cachefly claims nothing by a hostname, and only its range otherwise.    *)
LEMMA CacheflyIsPlan ==
  ASSUME NEW f \in Facts
  PROVE  /\ DetectCachefly(f).plan \in Plan \cup {NoPlan}
         /\ DetectCachefly(f).plan.claims \subseteq Inside(f, CacheflyRange)
BY RewriteIsPlan, RangeIsPlan, Zenon DEF DetectCachefly

(* Fastly asks for one of its references, or for a rewritten hostname.     *)
LEMMA FastlyIsPlan ==
  ASSUME NEW f \in Facts
  PROVE  DetectFastly(f).plan \in Plan \cup {NoPlan}
<1>1. \A target : Asks("fuse", target).plan \in Plan
  BY AsksIsPlan
<1> QED
  BY <1>1, RewriteIsPlan, Zenon DEF DetectFastly

(* Msedge transforms all the A records.                                    *)
LEMMA MsedgeIsPlan ==
  ASSUME NEW f \in Facts
  PROVE  DetectMsedge(f).plan \in Plan \cup {NoPlan}
<1>1. Pure("transform", Addrs(f.a)).plan \in Plan
  BY PureIsPlan, AddressesOf
<1> QED
  BY <1>1, NotDetectedIsPlan, Zenon DEF DetectMsedge

(* The tables of cdn.rs, by id.                                            *)
LEMMA TablesAre ==
  /\ DOMAIN MatchConst = {"shopify", "webflow", "weebly"}
  /\ DOMAIN MatchBorrow = {"cloudfront", "bunnycdn", "blazingcdn", "gcorecdn",
                           "cdn77", "sucuri", "netlify", "bearblog", "alicdn"}
  /\ MatchRewrite = {"akamai", "s3", "oss", "oracleobjectstorage", "awsglb",
                     "azurewebsites"}
  /\ DOMAIN OwnRange = {"cloudflare", "wpvip", "cachefly"}
BY Zenon DEF MatchConst, MatchBorrow, MatchRewrite, OwnRange

(* What a provider detects is a plan, or none.                             *)
LEMMA DetectIsPlan ==
  ASSUME NEW id \in MakeIds, NEW f \in Facts
  PROVE  Detect(id, f).plan \in Plan \cup {NoPlan}
<1>1. CASE id \in DOMAIN MatchConst
  <2>1. Detect(id, f) = DetectConst(MatchConst[id], f)
    BY <1>1, TablesAre DEF Detect
  <2> QED
    BY <2>1, ConstIsPlan
<1>2. CASE id \in DOMAIN MatchBorrow
  <2>1. Detect(id, f) = DetectBorrow(MatchBorrow[id], f)
    BY <1>2, TablesAre DEF Detect
  <2> QED
    BY <2>1, BorrowIsPlan
<1>3. CASE id \in MatchRewrite
  <2>1. Detect(id, f) = DetectRewrite(Rewritten(id, f))
    BY <1>3, TablesAre DEF Detect
  <2> QED
    BY <2>1, RewriteIsPlan
<1>4. CASE id = "cloudflare"
  <2>1. Detect(id, f) = DetectRange(CloudflareRange, f)
    BY <1>4, TablesAre DEF Detect
  <2> QED
    BY <2>1, RangeIsPlan
<1>5. CASE id = "fastly"
  <2>1. Detect(id, f) = DetectFastly(f)
    BY <1>5, TablesAre DEF Detect
  <2> QED
    BY <2>1, FastlyIsPlan
<1>6. CASE id = "msedge"
  <2>1. Detect(id, f) = DetectMsedge(f)
    BY <1>6, TablesAre DEF Detect
  <2> QED
    BY <2>1, MsedgeIsPlan
<1>7. CASE id = "wpvip"
  <2>1. Detect(id, f) = DetectRange(WpvipRange, f)
    BY <1>7, TablesAre DEF Detect
  <2> QED
    BY <2>1, RangeIsPlan
<1>8. CASE id = "cachefly"
  <2>1. Detect(id, f) = DetectCachefly(f)
    BY <1>8, TablesAre DEF Detect
  <2> QED
    BY <2>1, CacheflyIsPlan
<1> QED
  BY <1>1, <1>2, <1>3, <1>4, <1>5, <1>6, <1>7, <1>8 DEF MakeIds

(* The providers of a range claim only the addresses in it.                *)
LEMMA DetectClaims ==
  ASSUME NEW id \in DOMAIN OwnRange, NEW f \in Facts,
         NEW ip \in Detect(id, f).plan.claims
  PROVE  InCidr(ip, OwnRange[id])
<1>1. CASE id = "cloudflare"
  <2>1. Detect(id, f) = DetectRange(CloudflareRange, f)
    BY <1>1, TablesAre DEF Detect
  <2>2. OwnRange[id] = CloudflareRange
    BY <1>1 DEF OwnRange
  <2> QED
    BY <2>1, <2>2, RangeIsPlan DEF Inside
<1>2. CASE id = "wpvip"
  <2>1. Detect(id, f) = DetectRange(WpvipRange, f)
    BY <1>2, TablesAre DEF Detect
  <2>2. OwnRange[id] = WpvipRange
    BY <1>2 DEF OwnRange
  <2> QED
    BY <2>1, <2>2, RangeIsPlan DEF Inside
<1>3. CASE id = "cachefly"
  <2>1. Detect(id, f) = DetectCachefly(f)
    BY <1>3, TablesAre DEF Detect
  <2>2. OwnRange[id] = CacheflyRange
    BY <1>3 DEF OwnRange
  <2> QED
    BY <2>1, <2>2, CacheflyIsPlan DEF Inside
<1> QED
  BY <1>1, <1>2, <1>3, TablesAre
-------------------------------------------------------------------------------
(* Reversing a concatenation.                                              *)
LEMMA ReverseConcat ==
  ASSUME NEW S, NEW u \in Seq(S), NEW v \in Seq(S)
  PROVE  Reverse(u \o v) = Reverse(v) \o Reverse(u)
<1>1. PICK w, ru, rv, l, r : /\ w = u \o v /\ ru = Reverse(u) /\ rv = Reverse(v)
                             /\ l = Reverse(w) /\ r = rv \o ru
  OBVIOUS
<1>2. Len(u) \in Nat /\ Len(v) \in Nat
  BY LenProperties
<1>3. /\ w \in Seq(S) /\ Len(w) = Len(u) + Len(v)
      /\ \A j \in 1..Len(u) + Len(v) :
           w[j] = IF j <= Len(u) THEN u[j] ELSE v[j - Len(u)]
  BY <1>1, ConcatProperties
<1>4. /\ ru \in Seq(S) /\ Len(ru) = Len(u)
      /\ \A j \in 1..Len(u) : ru[j] = u[Len(u) - j + 1]
  BY <1>1, ReverseIs
<1>5. /\ rv \in Seq(S) /\ Len(rv) = Len(v)
      /\ \A j \in 1..Len(v) : rv[j] = v[Len(v) - j + 1]
  BY <1>1, ReverseIs
<1>6. /\ l \in Seq(S) /\ Len(l) = Len(w)
      /\ \A j \in 1..Len(w) : l[j] = w[Len(w) - j + 1]
  BY <1>1, <1>3, ReverseIs
<1>7. /\ r \in Seq(S) /\ Len(r) = Len(rv) + Len(ru)
      /\ \A j \in 1..Len(rv) + Len(ru) :
           r[j] = IF j <= Len(rv) THEN rv[j] ELSE ru[j - Len(rv)]
  <2>1. rv \in Seq(S) /\ ru \in Seq(S) /\ r = rv \o ru
    BY <1>1, <1>4, <1>5
  <2> QED
    BY <2>1, ConcatProperties
<1>8. ASSUME NEW j \in 1..Len(l)
      PROVE  l[j] = r[j]
  <2>1. j \in 1..Len(u) + Len(v) /\ Len(w) - j + 1 \in 1..Len(u) + Len(v)
    BY <1>2, <1>3, <1>6
  <2>2. l[j] = w[Len(w) - j + 1]
    BY <1>3, <1>6
  <2>3. CASE j <= Len(v)
    <3>1. j \in 1..Len(v) /\ ~(Len(w) - j + 1 <= Len(u))
          /\ (Len(w) - j + 1) - Len(u) = Len(v) - j + 1
      BY <1>2, <1>3, <2>1, <2>3
    <3>2. w[Len(w) - j + 1] = v[Len(v) - j + 1]
      BY <1>3, <2>1, <3>1
    <3>3. r[j] = v[Len(v) - j + 1]
      <4>1. Len(rv) = Len(v) /\ Len(ru) = Len(u) /\ rv[j] = v[Len(v) - j + 1]
        BY <1>4, <1>5, <3>1
      <4>2. j \in 1..Len(rv) + Len(ru) /\ j <= Len(rv)
        BY <1>2, <2>1, <3>1, <4>1
      <4>3. r[j] = rv[j]
        BY <1>7, <4>2
      <4> QED
        BY <4>1, <4>3
    <3> QED
      BY <2>2, <3>2, <3>3
  <2>4. CASE ~(j <= Len(v))
    <3>1. j - Len(v) \in 1..Len(u) /\ Len(w) - j + 1 <= Len(u)
          /\ Len(u) - (j - Len(v)) + 1 = Len(w) - j + 1
      BY <1>2, <1>3, <2>1, <2>4
    <3>2. w[Len(w) - j + 1] = u[Len(w) - j + 1]
      BY <1>3, <2>1, <3>1
    <3>3. r[j] = ru[j - Len(v)]
      BY <1>2, <1>4, <1>5, <1>7, <2>1, <2>4
    <3>4. ru[j - Len(v)] = u[Len(u) - (j - Len(v)) + 1]
      BY <1>4, <3>1
    <3> QED
      BY <2>2, <3>1, <3>2, <3>3, <3>4
  <2> QED
    BY <2>3, <2>4
<1>9. Len(l) = Len(r)
  BY <1>2, <1>3, <1>4, <1>5, <1>6, <1>7
<1> QED
  BY <1>1, <1>6, <1>7, <1>8, <1>9, SeqEqual

(* And of tuples, by their labels.                                         *)
LEMMA ReverseTuples ==
  /\ \A a, b : Reverse(<<a, b>>) = <<b, a>>
  /\ \A a, b, c : Reverse(<<a, b, c>>) = <<c, b, a>>
  /\ \A a, b, c, d : Reverse(<<a, b, c, d>>) = <<d, c, b, a>>
  /\ \A a, b, c, d, e : Reverse(<<a, b, c, d, e>>) = <<e, d, c, b, a>>
BY DEF Reverse

(* A short sequence is the tuple of its elements.                          *)
LEMMA AsTuple ==
  ASSUME NEW S, NEW w \in Seq(S)
  PROVE  /\ Len(w) = 2 => w = <<w[1], w[2]>>
         /\ Len(w) = 3 => w = <<w[1], w[2], w[3]>>
         /\ Len(w) = 4 => w = <<w[1], w[2], w[3], w[4]>>
         /\ Len(w) = 5 => w = <<w[1], w[2], w[3], w[4], w[5]>>
         /\ Len(w) = 6 => w = <<w[1], w[2], w[3], w[4], w[5], w[6]>>
<1>1. \A j \in 1..Len(w) : w[j] \in S
  BY ElementOfSeq
<1>2. ASSUME Len(w) = 2
      PROVE  w = <<w[1], w[2]>>
  <2>1. PICK t : t = <<w[1], w[2]>>
    OBVIOUS
  <2>2. t \in Seq(S) /\ Len(t) = Len(w) /\ \A j \in 1..Len(w) : t[j] = w[j]
    BY <1>1, <1>2, <2>1
  <2> QED
    BY <2>1, <2>2, SeqEqual
<1>3. ASSUME Len(w) = 3
      PROVE  w = <<w[1], w[2], w[3]>>
  <2>1. PICK t : t = <<w[1], w[2], w[3]>>
    OBVIOUS
  <2>2. t \in Seq(S) /\ Len(t) = Len(w) /\ \A j \in 1..Len(w) : t[j] = w[j]
    BY <1>1, <1>3, <2>1
  <2> QED
    BY <2>1, <2>2, SeqEqual
<1>4. ASSUME Len(w) = 4
      PROVE  w = <<w[1], w[2], w[3], w[4]>>
  <2>1. PICK t : t = <<w[1], w[2], w[3], w[4]>>
    OBVIOUS
  <2>2. t \in Seq(S) /\ Len(t) = Len(w) /\ \A j \in 1..Len(w) : t[j] = w[j]
    BY <1>1, <1>4, <2>1
  <2> QED
    BY <2>1, <2>2, SeqEqual
<1>5. ASSUME Len(w) = 5
      PROVE  w = <<w[1], w[2], w[3], w[4], w[5]>>
  <2>1. PICK t : t = <<w[1], w[2], w[3], w[4], w[5]>>
    OBVIOUS
  <2>2. t \in Seq(S) /\ Len(t) = Len(w) /\ \A j \in 1..Len(w) : t[j] = w[j]
    BY <1>1, <1>5, <2>1
  <2> QED
    BY <2>1, <2>2, SeqEqual
<1>6. ASSUME Len(w) = 6
      PROVE  w = <<w[1], w[2], w[3], w[4], w[5], w[6]>>
  <2>1. PICK t : t = <<w[1], w[2], w[3], w[4], w[5], w[6]>>
    OBVIOUS
  <2>2. t \in Seq(S) /\ Len(t) = Len(w) /\ \A j \in 1..Len(w) : t[j] = w[j]
    BY <1>1, <1>6, <2>1
  <2> QED
    BY <2>1, <2>2, SeqEqual
<1> QED
  BY <1>2, <1>3, <1>4, <1>5, <1>6

(* Tuples, joined.                                                         *)
LEMMA JoinTuples ==
  /\ \A a, x : <<a>> \o <<x>> = <<a, x>>
  /\ \A a, x, y : <<a>> \o <<x, y>> = <<a, x, y>>
  /\ \A a, b, x, y : <<a, b>> \o <<x, y>> = <<a, b, x, y>>
  /\ \A a, b, c, x, y : <<a, b, c>> \o <<x, y>> = <<a, b, c, x, y>>
  /\ \A a, x, y, z : <<a>> \o <<x, y, z>> = <<a, x, y, z>>
  /\ \A a, b, x, y, z : <<a, b>> \o <<x, y, z>> = <<a, b, x, y, z>>
  /\ \A a, b, c, x, y, z :
       <<a, b, c>> \o <<x, y, z>> = <<a, b, c, x, y, z>>
<1>1. ASSUME NEW a, NEW x
      PROVE  <<a>> \o <<x>> = <<a, x>>
  <2>1. PICK S, w : S = {a, x} /\ w = <<a>> \o <<x>>
    OBVIOUS
  <2>2. <<a>> \in Seq(S) /\ <<x>> \in Seq(S)
    BY <2>1
  <2>3. /\ w \in Seq(S) /\ Len(w) = 2
        /\ w[1] = a /\ w[2] = x
    BY <2>1, <2>2, ConcatProperties
  <2> QED
    BY <2>1, <2>3, AsTuple
<1>2. ASSUME NEW a, NEW x, NEW y
      PROVE  <<a>> \o <<x, y>> = <<a, x, y>>
  <2>1. PICK S, w : S = {a, x, y} /\ w = <<a>> \o <<x, y>>
    OBVIOUS
  <2>2. <<a>> \in Seq(S) /\ <<x, y>> \in Seq(S)
    BY <2>1
  <2>3. /\ w \in Seq(S) /\ Len(w) = 3
        /\ w[1] = a /\ w[2] = x /\ w[3] = y
    BY <2>1, <2>2, ConcatProperties
  <2> QED
    BY <2>1, <2>3, AsTuple
<1>3. ASSUME NEW a, NEW b, NEW x, NEW y
      PROVE  <<a, b>> \o <<x, y>> = <<a, b, x, y>>
  <2>1. PICK S, w : S = {a, b, x, y} /\ w = <<a, b>> \o <<x, y>>
    OBVIOUS
  <2>2. <<a, b>> \in Seq(S) /\ <<x, y>> \in Seq(S)
    BY <2>1
  <2>3. /\ w \in Seq(S) /\ Len(w) = 4
        /\ w[1] = a /\ w[2] = b /\ w[3] = x /\ w[4] = y
    BY <2>1, <2>2, ConcatProperties
  <2> QED
    BY <2>1, <2>3, AsTuple
<1>4. ASSUME NEW a, NEW b, NEW c, NEW x, NEW y
      PROVE  <<a, b, c>> \o <<x, y>> = <<a, b, c, x, y>>
  <2>1. PICK S, w : S = {a, b, c, x, y} /\ w = <<a, b, c>> \o <<x, y>>
    OBVIOUS
  <2>2. <<a, b, c>> \in Seq(S) /\ <<x, y>> \in Seq(S)
    BY <2>1
  <2>3. /\ w \in Seq(S) /\ Len(w) = 5
        /\ w[1] = a /\ w[2] = b /\ w[3] = c /\ w[4] = x /\ w[5] = y
    BY <2>1, <2>2, ConcatProperties
  <2> QED
    BY <2>1, <2>3, AsTuple
<1>5. ASSUME NEW a, NEW x, NEW y, NEW z
      PROVE  <<a>> \o <<x, y, z>> = <<a, x, y, z>>
  <2>1. PICK S, w : S = {a, x, y, z} /\ w = <<a>> \o <<x, y, z>>
    OBVIOUS
  <2>2. <<a>> \in Seq(S) /\ <<x, y, z>> \in Seq(S)
    BY <2>1
  <2>3. /\ w \in Seq(S) /\ Len(w) = 4
        /\ w[1] = a /\ w[2] = x /\ w[3] = y /\ w[4] = z
    BY <2>1, <2>2, ConcatProperties
  <2> QED
    BY <2>1, <2>3, AsTuple
<1>6. ASSUME NEW a, NEW b, NEW x, NEW y, NEW z
      PROVE  <<a, b>> \o <<x, y, z>> = <<a, b, x, y, z>>
  <2>1. PICK S, w : S = {a, b, x, y, z} /\ w = <<a, b>> \o <<x, y, z>>
    OBVIOUS
  <2>2. <<a, b>> \in Seq(S) /\ <<x, y, z>> \in Seq(S)
    BY <2>1
  <2>3. /\ w \in Seq(S) /\ Len(w) = 5
        /\ w[1] = a /\ w[2] = b /\ w[3] = x /\ w[4] = y /\ w[5] = z
    BY <2>1, <2>2, ConcatProperties
  <2> QED
    BY <2>1, <2>3, AsTuple
<1>7. ASSUME NEW a, NEW b, NEW c, NEW x, NEW y, NEW z
      PROVE  <<a, b, c>> \o <<x, y, z>> = <<a, b, c, x, y, z>>
  <2>1. PICK S, w : S = {a, b, c, x, y, z} /\ w = <<a, b, c>> \o <<x, y, z>>
    OBVIOUS
  <2>2. <<a, b, c>> \in Seq(S) /\ <<x, y, z>> \in Seq(S)
    BY <2>1
  <2>3. /\ w \in Seq(S) /\ Len(w) = 6
        /\ w[1] = a /\ w[2] = b /\ w[3] = c /\ w[4] = x /\ w[5] = y /\ w[6] = z
    BY <2>1, <2>2, ConcatProperties
  <2> QED
    BY <2>1, <2>3, AsTuple
<1> QED
  BY <1>1, <1>2, <1>3, <1>4, <1>5, <1>6, <1>7

(* A splice of what is in front leaves alone what is behind.               *)
LEMMA InsertInFront ==
  ASSUME NEW S, NEW p \in Seq(S), NEW q \in Seq(S), NEW item \in S,
         NEW i \in 0..Len(p)
  PROVE  SpliceInsert(p \o q, i, item) = SpliceInsert(p, i, item) \o q
<1>1. PICK w, x, u, y : /\ w = p \o q /\ x = SpliceInsert(w, i, item)
                        /\ u = SpliceInsert(p, i, item) /\ y = u \o q
  OBVIOUS
<1>2. /\ Len(p) \in Nat /\ Len(q) \in Nat /\ i \in Nat /\ i <= Len(p)
  BY LenProperties
<1>3. /\ w \in Seq(S) /\ Len(w) = Len(p) + Len(q)
      /\ \A j \in 1..Len(p) + Len(q) :
           w[j] = IF j <= Len(p) THEN p[j] ELSE q[j - Len(p)]
  BY <1>1, ConcatProperties
<1>4. x \in Seq(S) /\ Inserted(x, w, i, item)
  <2>1. w \in Seq(S) /\ i \in 0..Len(w)
    BY <1>2, <1>3
  <2> QED
    BY <1>1, <2>1, SpliceInsertIs
<1>5. u \in Seq(S) /\ Inserted(u, p, i, item)
  BY <1>1, SpliceInsertIs
<1>6. /\ y \in Seq(S) /\ Len(y) = Len(p) + 1 + Len(q)
      /\ \A j \in 1..Len(p) + 1 + Len(q) :
           y[j] = IF j <= Len(p) + 1 THEN u[j] ELSE q[j - (Len(p) + 1)]
  <2>1. Len(u) = Len(p) + 1
    BY <1>5 DEF Inserted
  <2>2. /\ y \in Seq(S) /\ Len(y) = Len(u) + Len(q)
        /\ \A j \in 1..Len(u) + Len(q) :
             y[j] = IF j <= Len(u) THEN u[j] ELSE q[j - Len(u)]
    BY <1>1, <1>5, ConcatProperties
  <2> QED
    BY <2>1, <2>2
<1>7. Len(x) = Len(p) + 1 + Len(q)
  BY <1>2, <1>3, <1>4 DEF Inserted
<1>8. ASSUME NEW j \in 1..Len(p) + 1 + Len(q)
      PROVE  x[j] = y[j]
  <2>1. CASE j <= i
    <3>1. j \in 1..i /\ j \in 1..Len(p) + Len(q) /\ j <= Len(p)
      BY <1>2, <2>1
    <3>2. x[j] = w[j] /\ u[j] = p[j]
      BY <1>4, <1>5, <3>1 DEF Inserted
    <3>3. w[j] = p[j] /\ y[j] = u[j]
      BY <1>2, <1>3, <1>6, <3>1
    <3> QED
      BY <3>2, <3>3
  <2>2. CASE j = i + 1
    <3>1. x[j] = item /\ u[j] = item
      BY <1>4, <1>5, <2>2 DEF Inserted
    <3>2. y[j] = u[j]
      BY <1>2, <1>6, <2>2
    <3> QED
      BY <3>1, <3>2
  <2>3. CASE j > i + 1
    <3>1. PICK k \in Nat : k = j - 1
      BY <1>2, <2>3
    <3>2. k \in i + 1..Len(w) /\ k \in 1..Len(p) + Len(q) /\ k + 1 = j
      BY <1>2, <1>3, <2>3, <3>1
    <3>3. x[j] = w[k]
      BY <1>4, <3>2 DEF Inserted
    <3>4. CASE k <= Len(p)
      <4>1. k \in i + 1..Len(p)
        BY <1>2, <3>2, <3>4
      <4>2. u[k + 1] = p[k]
        BY <1>5, <4>1 DEF Inserted
      <4>3. y[j] = u[j] /\ w[k] = p[k]
        BY <1>2, <1>3, <1>6, <3>2, <3>4
      <4> QED
        BY <3>2, <3>3, <4>2, <4>3
    <3>5. CASE ~(k <= Len(p))
      <4>1. ~(j <= Len(p) + 1) /\ j - (Len(p) + 1) = k - Len(p)
        BY <1>2, <3>2, <3>5
      <4>2. w[k] = q[k - Len(p)] /\ y[j] = q[j - (Len(p) + 1)]
        BY <1>3, <1>6, <3>2, <3>5, <4>1
      <4> QED
        BY <3>3, <4>1, <4>2
    <3> QED
      BY <3>4, <3>5
  <2> QED
    BY <1>2, <2>1, <2>2, <2>3
<1>9. Len(x) = Len(y) /\ \A j \in 1..Len(x) : x[j] = y[j]
  BY <1>6, <1>7, <1>8
<1>10. x = y
  BY <1>4, <1>6, <1>9, SeqEqual
<1> QED
  BY <1>1, <1>10

(* A removal in front of a concatenation is one from its first part.       *)
LEMMA RemoveInFront ==
  ASSUME NEW S, NEW p \in Seq(S), NEW q \in Seq(S), NEW i \in 0..Len(p) - 1
  PROVE  SpliceRemove(p \o q, i) = SpliceRemove(p, i) \o q
<1>1. PICK w, x, u, y : /\ w = p \o q /\ x = SpliceRemove(w, i)
                        /\ u = SpliceRemove(p, i) /\ y = u \o q
  OBVIOUS
<1>2. /\ Len(p) \in Nat /\ Len(q) \in Nat /\ i \in Nat /\ i < Len(p)
  BY LenProperties
<1>3. /\ w \in Seq(S) /\ Len(w) = Len(p) + Len(q)
      /\ \A j \in 1..Len(p) + Len(q) :
           w[j] = IF j <= Len(p) THEN p[j] ELSE q[j - Len(p)]
  BY <1>1, ConcatProperties
<1>4. x \in Seq(S) /\ Removed(x, w, i)
  BY <1>1, <1>2, <1>3, SpliceRemoveIs
<1>5. u \in Seq(S) /\ Removed(u, p, i)
  BY <1>1, <1>2, SpliceRemoveIs
<1>6. Len(x) = Len(p) - 1 + Len(q) /\ Len(u) = Len(p) - 1
  BY <1>2, <1>3, <1>4, <1>5 DEF Removed
<1>7. /\ y \in Seq(S) /\ Len(y) = Len(p) - 1 + Len(q)
      /\ \A j \in 1..Len(p) - 1 + Len(q) :
           y[j] = IF j <= Len(p) - 1 THEN u[j] ELSE q[j - (Len(p) - 1)]
  <2>1. /\ y \in Seq(S) /\ Len(y) = Len(u) + Len(q)
        /\ \A j \in 1..Len(u) + Len(q) :
             y[j] = IF j <= Len(u) THEN u[j] ELSE q[j - Len(u)]
    BY <1>1, <1>5, ConcatProperties
  <2> QED
    BY <1>6, <2>1
<1>8. ASSUME NEW j \in 1..Len(p) - 1 + Len(q)
      PROVE  x[j] = y[j]
  <2>1. CASE j <= i
    <3>1. /\ j \in 1..Len(x) /\ j \in 1..Len(u) /\ j \in 1..Len(p) + Len(q)
          /\ j <= Len(p) - 1
      BY <1>2, <1>6, <2>1
    <3>2. x[j] = w[j] /\ u[j] = p[j]
      BY <1>4, <1>5, <2>1, <3>1 DEF Removed
    <3>3. w[j] = p[j]
      <4>1. j <= Len(p)
        BY <1>2, <3>1
      <4> QED
        BY <1>3, <3>1, <4>1
    <3>4. y[j] = u[j]
      BY <1>7, <3>1
    <3> QED
      BY <3>2, <3>3, <3>4
  <2>2. CASE j > i
    <3>1. j \in 1..Len(x) /\ j + 1 \in 1..Len(p) + Len(q)
      BY <1>2, <1>6
    <3>2. x[j] = w[j + 1]
      BY <1>4, <2>2, <3>1 DEF Removed
    <3>3. CASE j <= Len(p) - 1
      <4>1. j \in 1..Len(u) /\ j + 1 <= Len(p)
        BY <1>2, <1>6, <3>3
      <4>2. u[j] = p[j + 1]
        BY <1>5, <2>2, <4>1 DEF Removed
      <4>3. w[j + 1] = p[j + 1] /\ y[j] = u[j]
        BY <1>3, <1>7, <3>1, <3>3, <4>1
      <4> QED
        BY <3>2, <4>2, <4>3
    <3>4. CASE ~(j <= Len(p) - 1)
      <4>1. ~(j + 1 <= Len(p)) /\ j + 1 - Len(p) = j - (Len(p) - 1)
        BY <1>2, <3>4
      <4>2. w[j + 1] = q[j + 1 - Len(p)] /\ y[j] = q[j - (Len(p) - 1)]
        BY <1>3, <1>7, <3>1, <3>4, <4>1
      <4> QED
        BY <3>2, <4>1, <4>2
    <3> QED
      BY <3>3, <3>4
  <2> QED
    BY <1>2, <2>1, <2>2
<1>9. Len(x) = Len(y) /\ \A j \in 1..Len(x) : x[j] = y[j]
  BY <1>6, <1>7, <1>8
<1>10. x = y
  BY <1>4, <1>7, <1>9, SeqEqual
<1> QED
  BY <1>1, <1>10

(* The splices of s3_rewrite and oss_rewrite, of the labels that matter.   *)
LEMMA SpliceTuples ==
  /\ \A a, b, x : SpliceInsert(<<a, b>>, 2, x) = <<a, b, x>>
  /\ \A a, b, c, x : SpliceInsert(<<a, b, c>>, 2, x) = <<a, b, x, c>>
  /\ \A a, b, c, x : SpliceInsert(<<a, b, c>>, 3, x) = <<a, b, c, x>>
  /\ \A a, b, c, d, x : SpliceInsert(<<a, b, c, d>>, 3, x) = <<a, b, c, x, d>>
  /\ \A a, b, c : SpliceRemove(<<a, b, c>>, 2) = <<a, b>>
<1>1. ASSUME NEW a, NEW b, NEW x
      PROVE  SpliceInsert(<<a, b>>, 2, x) = <<a, b, x>>
  <2>1. PICK S, v, w : /\ S = {a, b, x} /\ v = <<a, b>>
                       /\ w = SpliceInsert(v, 2, x)
    OBVIOUS
  <2>2. v \in Seq(S) /\ 2 \in 0..Len(v) /\ x \in S
    BY <2>1
  <2>3. w \in Seq(S) /\ Inserted(w, v, 2, x)
    BY <2>1, <2>2, SpliceInsertIs
  <2>4. Len(w) = 3 /\ w[1] = a /\ w[2] = b /\ w[3] = x
    BY <2>1, <2>3 DEF Inserted
  <2> QED
    BY <2>1, <2>3, <2>4, AsTuple
<1>2. ASSUME NEW a, NEW b, NEW c, NEW x
      PROVE  /\ SpliceInsert(<<a, b, c>>, 2, x) = <<a, b, x, c>>
             /\ SpliceInsert(<<a, b, c>>, 3, x) = <<a, b, c, x>>
  <2>1. PICK S, v, w, y : /\ S = {a, b, c, x} /\ v = <<a, b, c>>
                          /\ w = SpliceInsert(v, 2, x)
                          /\ y = SpliceInsert(v, 3, x)
    OBVIOUS
  <2>2. v \in Seq(S) /\ 2 \in 0..Len(v) /\ 3 \in 0..Len(v) /\ x \in S
    BY <2>1
  <2>3. w \in Seq(S) /\ Inserted(w, v, 2, x)
    BY <2>1, <2>2, SpliceInsertIs
  <2>4. y \in Seq(S) /\ Inserted(y, v, 3, x)
    BY <2>1, <2>2, SpliceInsertIs
  <2>5. Len(w) = 4 /\ w[1] = a /\ w[2] = b /\ w[3] = x /\ w[4] = c
    BY <2>1, <2>3 DEF Inserted
  <2>6. Len(y) = 4 /\ y[1] = a /\ y[2] = b /\ y[3] = c /\ y[4] = x
    BY <2>1, <2>4 DEF Inserted
  <2>7. w = <<a, b, x, c>>
    BY <2>3, <2>5, AsTuple
  <2>8. y = <<a, b, c, x>>
    BY <2>4, <2>6, AsTuple
  <2> QED
    BY <2>1, <2>7, <2>8
<1>3. ASSUME NEW a, NEW b, NEW c, NEW d, NEW x
      PROVE  SpliceInsert(<<a, b, c, d>>, 3, x) = <<a, b, c, x, d>>
  <2>1. PICK S, v, w : /\ S = {a, b, c, d, x} /\ v = <<a, b, c, d>>
                       /\ w = SpliceInsert(v, 3, x)
    OBVIOUS
  <2>2. v \in Seq(S) /\ 3 \in 0..Len(v) /\ x \in S
    BY <2>1
  <2>3. w \in Seq(S) /\ Inserted(w, v, 3, x)
    BY <2>1, <2>2, SpliceInsertIs
  <2>4. Len(w) = 5 /\ w[1] = a /\ w[2] = b /\ w[3] = c /\ w[4] = x /\ w[5] = d
    BY <2>1, <2>3 DEF Inserted
  <2> QED
    BY <2>1, <2>3, <2>4, AsTuple
<1>4. ASSUME NEW a, NEW b, NEW c
      PROVE  SpliceRemove(<<a, b, c>>, 2) = <<a, b>>
  <2>1. PICK S, v, w : /\ S = {a, b, c} /\ v = <<a, b, c>>
                       /\ w = SpliceRemove(v, 2)
    OBVIOUS
  <2>2. v \in Seq(S) /\ 2 \in Nat
    BY <2>1
  <2>3. w \in Seq(S) /\ Removed(w, v, 2)
    BY <2>1, <2>2, SpliceRemoveIs
  <2>4. Len(w) = 2 /\ w[1] = a /\ w[2] = b
    BY <2>1, <2>3 DEF Removed
  <2> QED
    BY <2>1, <2>3, <2>4, AsTuple
<1> QED
  BY <1>1, <1>2, <1>3, <1>4

(* A name read backwards: its endpoint first, then its bucket.             *)
LEMMA EndpointReversed ==
  ASSUME NEW S, NEW b \in Seq(S), NEW q \in Seq(S), NEW suffix \in Seq(S)
  PROVE  /\ (b \o q) \o suffix \in Seq(S)
         /\ Reverse((b \o q) \o suffix) = Reverse(q \o suffix) \o Reverse(b)
<1>1. PICK e : e = q \o suffix
  OBVIOUS
<1>2. e \in Seq(S) /\ b \o q \in Seq(S)
  BY <1>1, ConcatProperties
<1>3. (b \o q) \o suffix = b \o e
  BY <1>1, ConcatAssociative
<1>4. (b \o q) \o suffix \in Seq(S)
  BY <1>2, ConcatProperties
<1>5. Reverse(b \o e) = Reverse(e) \o Reverse(b)
  BY <1>2, ReverseConcat
<1> QED
  BY <1>1, <1>3, <1>4, <1>5
-------------------------------------------------------------------------------
(* The forms that the documented S3 endpoints take.                        *)
LEMMA S3Implied ==
  ASSUME NEW S, NEW s \in Seq(S), Len(s) >= 3, Len(s) # 5,
         s[1] # <<"s3">>, s[2] # <<"s3">>, s[3] = <<"s3">>,
         \A item \in S3Services \cup {S3Website} : Position(s, item) # 3
  PROVE  S3Form(s, FALSE) = Form(SpliceInsert(s, 2, UsEast1), FALSE)
<1>1. At(s, 2) = <<"s3">>
  BY LenProperties DEF At
<1>2. /\ ~(Len(At(s, 2)) \in {2, 3}) /\ ~(Len(At(s, 2)) > 1)
  BY <1>1
<1>3. /\ ~(Position(s, <<"s3", "accelerate">>) = 2)
      /\ ~(Position(s, <<"console", "l">>) = 2)
  <2>1. \A item : Position(s, item) = 2 => s[3] = item
    BY EarlyPosition
  <2>2. <<"s3">> # <<"s3", "accelerate">> /\ <<"s3">> # <<"console", "l">>
    OBVIOUS
  <2> QED
    BY <2>1, <2>2
<1>4. Position(s, <<"s3">>) = 2
  BY EarlyPosition
<1>5. /\ ~(Position(s, <<"s3", "accesspoint">>) = 3)
      /\ ~(Position(s, <<"s3", "website">>) = 3)
      /\ ~(Position(s, <<"s3", "control">>) = 3)
      /\ ~(Position(s, <<"s3">>) = 3)
  BY DEF S3Services, S3Website
<1> QED
  BY <1>2, <1>3, <1>4, <1>5, Zenon DEF S3Form

(* A label that joins a service and a region by a dash, taken apart.       *)
LEMMA JoinedLabel ==
  ASSUME NEW r, IsRegion(r)
  PROVE  LET parts == <<"s3">> \o r
         IN /\ Len(parts) = 4 /\ parts[1] = "s3" /\ parts[2] # "website"
            /\ Tail(parts) = r
<1>1. PICK T, store, parts : /\ T = (STRING \ {"."}) \cup {"s3"}
                             /\ store = <<"s3">> /\ parts = store \o r
  OBVIOUS
<1>2. r \in Seq(T) /\ Len(r) = 3 /\ r[1] # "website"
  BY <1>1, LabelIs DEF IsRegion
<1>3. store \in Seq(T) /\ Len(store) = 1 /\ store[1] = "s3"
  BY <1>1
<1>4. /\ parts \in Seq(T) /\ Len(parts) = Len(store) + Len(r)
      /\ \A j \in 1..Len(store) + Len(r) :
           parts[j] = IF j <= Len(store) THEN store[j] ELSE r[j - Len(store)]
  <2>1. store \in Seq(T) /\ r \in Seq(T)
    BY <1>2, <1>3
  <2> QED
    BY <1>1, <2>1, ConcatProperties
<1>5. Len(parts) = 4 /\ parts[1] = "s3"
  BY <1>2, <1>3, <1>4
<1>6. ASSUME NEW j \in 1..3
      PROVE  parts[j + 1] = r[j]
  <2>1. j + 1 \in 1..4 /\ ~(j + 1 <= 1) /\ j + 1 - 1 = j
    OBVIOUS
  <2> QED
    BY <1>2, <1>3, <1>4, <2>1
<1>7. parts[2] # "website"
  <2>1. 1 \in 1..3 /\ 1 + 1 = 2
    OBVIOUS
  <2> QED
    BY <1>2, <1>6, <2>1
<1>8. PICK t : t = Tail(parts)
  OBVIOUS
<1>9. /\ t \in Seq(T) /\ Len(t) = 3
      /\ \A i \in 1..Len(t) : t[i] = parts[i + 1]
  <2>1. parts \in Seq(T) /\ parts # <<>>
    BY <1>4, <1>5, EmptySeq
  <2>2. /\ t \in Seq(T) /\ Len(t) = Len(parts) - 1
        /\ \A i \in 1..Len(t) : t[i] = parts[i + 1]
    BY <1>8, <2>1, HeadTailProperties
  <2> QED
    BY <1>5, <2>2
<1>10. t = r
  <2>1. Len(t) = Len(r) /\ \A i \in 1..Len(t) : t[i] = r[i]
    BY <1>2, <1>6, <1>9
  <2>2. t \in Seq(T) /\ r \in Seq(T)
    BY <1>2, <1>9
  <2> QED
    BY <2>1, <2>2, SeqEqual
<1> QED
  BY <1>1, <1>5, <1>7, <1>8, <1>10

(* A region joined to s3 by a dash is made a label of its own, and s3 put  *)
(* behind it.                                                              *)
LEMMA S3Joined ==
  ASSUME NEW S, NEW s \in Seq(S), Len(s) >= 3, Len(s) # 5,
         Len(s[3]) = 4, s[3][1] = "s3", s[3][2] # "website",
         Position(s, <<"s3">>) = -1,
         \A item \in S3Services \cup {S3Website} : Position(s, item) # 3
  PROVE  S3Form(s, FALSE) =
           Form(SpliceInsert(SpliceInsert(SpliceRemove(s, 2), 2, Tail(s[3])),
                             3, <<"s3">>), FALSE)
<1>1. At(s, 2) = s[3]
  BY LenProperties DEF At
<1>2. /\ ~(Position(s, <<"s3", "accelerate">>) = 2)
      /\ ~(Position(s, <<"console", "l">>) = 2)
  <2>1. PICK x, y : x = <<"s3", "accelerate">> /\ y = <<"console", "l">>
    OBVIOUS
  <2>2. s[3] # x /\ s[3] # y
    <3>1. Len(x) = 2 /\ Len(y) = 2 /\ 4 # 2
      BY <2>1
    <3> QED
      BY <3>1, Zenon
  <2>3. \A item : Position(s, item) = 2 => s[3] = item
    BY EarlyPosition
  <2> QED
    BY <2>1, <2>2, <2>3
<1>3. /\ ~(Position(s, <<"s3", "accesspoint">>) = 3)
      /\ ~(Position(s, <<"s3", "website">>) = 3)
      /\ ~(Position(s, <<"s3", "control">>) = 3)
      /\ ~(Position(s, <<"s3">>) = 3)
  BY DEF S3Services, S3Website
<1>4. S3Region(At(s, 2), FALSE) = Tail(s[3])
  BY <1>1, Zenon DEF S3Region
<1>5. /\ ~(Len(s[3]) \in {2, 3}) /\ Len(s[3]) > 1
      /\ ~(s[3][2] = "website") /\ ~(s[3][1] # "s3")
  OBVIOUS
<1>6. /\ ~(Len(At(s, 2)) \in {2, 3}) /\ Len(At(s, 2)) > 1
      /\ ~(At(s, 2)[2] = "website") /\ ~(At(s, 2)[1] # "s3")
  BY <1>1, <1>5, Zenon
<1> QED
  BY <1>2, <1>3, <1>4, <1>6, Zenon DEF S3Form

(* An accelerated endpoint gets its mark at once.                          *)
LEMMA S3Accelerated ==
  ASSUME NEW S, NEW s \in Seq(S), Len(s) >= 3, Len(s) # 5,
         s[1] # <<"s3", "accelerate">>, s[2] # <<"s3", "accelerate">>,
         s[3] = <<"s3", "accelerate">>
  PROVE  S3Form(s, FALSE) = Form(SpliceInsert(s, 2, <<"dualstack">>), FALSE)
<1>1. Position(s, <<"s3", "accelerate">>) = 2
  BY EarlyPosition
<1> QED
  BY <1>1, Zenon DEF S3Form

(* The label that is doubled of five is removed again.                     *)
LEMMA DoubledIsRemoved ==
  ASSUME NEW S, NEW s \in Seq(S), Len(s) \in {4, 5}
  PROVE  SpliceRemove(IF Len(s) = 5 THEN Append(s, At(s, 4)) ELSE s, 4) = s
<1>1. CASE Len(s) = 4
  <2>1. SpliceRemove(s, 4) = s /\ 4 # 5
    BY <1>1 DEF SpliceRemove
  <2> QED
    BY <1>1, <2>1, Zenon
<1>2. CASE Len(s) = 5
  <2>1. PICK x, body, w : /\ x = At(s, 4) /\ body = Append(s, x)
                          /\ w = SpliceRemove(body, 4)
    OBVIOUS
  <2>2. x = s[5] /\ 5 \in 1..Len(s)
    BY <1>2, <2>1 DEF At
  <2>3. x \in S
    BY <2>2, ElementOfSeq
  <2>4. /\ body \in Seq(S) /\ Len(body) = Len(s) + 1 /\ body[Len(s) + 1] = x
        /\ \A j \in 1..Len(s) : body[j] = s[j]
    BY <2>1, <2>3, AppendProperties
  <2>5. /\ body \in Seq(S) /\ Len(body) = 6 /\ body[6] = s[5]
        /\ \A j \in 1..5 : body[j] = s[j]
    BY <1>2, <2>2, <2>4
  <2>6. w \in Seq(S) /\ Removed(w, body, 4)
    BY <2>1, <2>5, SpliceRemoveIs
  <2>7. Len(w) = 5 /\ \A j \in 1..5 : w[j] = s[j]
    BY <2>5, <2>6 DEF Removed
  <2>8. w = s
    BY <1>2, <2>6, <2>7, SeqEqual
  <2> QED
    BY <1>2, <2>1, <2>8, Zenon
<1> QED
  BY <1>1, <1>2

(* Where the region is a label of its own already, nothing changes.        *)
LEMMA S3Separate ==
  ASSUME NEW S, NEW s \in Seq(S), Len(s) \in {4, 5}, NEW china \in BOOLEAN,
         s[4] \in S3Services \cup {S3Website}, s[4] = S3Website => ~china,
         s[1] # s[4], s[2] # s[4], Len(s[3]) = 3, s[3][1] # "s3"
  PROVE  S3Form(s, china) = Form(s, china)
<1>1. At(s, 2) = s[3]
  BY DEF At
<1>2. s[3] # s[4]
  BY DEF S3Services, S3Website
<1>3. Position(s, s[4]) = 3
  BY <1>2, EarlyPosition
<1>4. \A item : Position(s, item) = 3 => s[4] = item
  BY EarlyPosition
<1>5. /\ ~(Position(s, <<"s3", "accelerate">>) = 2)
      /\ ~(Position(s, <<"console", "l">>) = 2)
  <2>1. PICK x, y : x = <<"s3", "accelerate">> /\ y = <<"console", "l">>
    OBVIOUS
  <2>2. s[3] # x /\ s[3] # y
    <3>1. Len(x) = 2 /\ Len(y) = 2 /\ 3 # 2
      BY <2>1
    <3> QED
      BY <3>1, Zenon
  <2>3. \A item : Position(s, item) = 2 => s[3] = item
    BY EarlyPosition
  <2> QED
    BY <2>1, <2>2, <2>3
<1>6. ~(At(s, 2)[1] = "s3")
  BY <1>1
<1>7. SpliceRemove(IF Len(s) = 5 THEN Append(s, At(s, 4)) ELSE s, 4) = s
  BY DoubledIsRemoved
<1>8. CASE s[4] = <<"s3", "accesspoint">>
  BY <1>3, <1>5, <1>7, <1>8, Zenon DEF S3Form
<1>9. CASE s[4] = S3Website
  <2>1. /\ ~(Position(s, <<"s3", "accesspoint">>) = 3)
        /\ Position(s, <<"s3", "website">>) = 3
    BY <1>3, <1>4, <1>9 DEF S3Website
  <2>2. china = FALSE
    BY <1>9
  <2> QED
    BY <1>5, <1>7, <2>1, <2>2, Zenon DEF S3Form
<1>10. CASE s[4] = <<"s3">> \/ s[4] = <<"s3", "control">>
  <2>1. /\ ~(Position(s, <<"s3", "accesspoint">>) = 3)
        /\ ~(Position(s, <<"s3", "website">>) = 3)
        /\ Position(s, <<"s3">>) = 3 \/ Position(s, <<"s3", "control">>) = 3
    <3>1. /\ s[4] # <<"s3", "accesspoint">> /\ s[4] # <<"s3", "website">>
          /\ s[4] = <<"s3">> \/ s[4] = <<"s3", "control">>
      <4>1. /\ <<"s3">> # <<"s3", "accesspoint">>
            /\ <<"s3">> # <<"s3", "website">>
            /\ <<"s3", "control">> # <<"s3", "accesspoint">>
            /\ <<"s3", "control">> # <<"s3", "website">>
        OBVIOUS
      <4> QED
        BY <1>10, <4>1, Zenon
    <3>2. Position(s, <<"s3">>) = 3 \/ Position(s, <<"s3", "control">>) = 3
      BY <1>3, <3>1, Zenon
    <3> QED
      BY <1>4, <3>1, <3>2, Zenon
  <2> QED
    BY <1>5, <1>6, <1>7, <2>1, Zenon DEF S3Form
<1> QED
  BY <1>8, <1>9, <1>10 DEF S3Services

(* Reversed labels under the suffix of China.                              *)
InChina(s) == <<<<"cn">>>> \o s

(* What s3_rewrite makes of a name, from the form its labels take.         *)
LEMMA S3Rewrites ==
  ASSUME NEW S, NEW name \in Seq(S), NEW d \in Seq(S), NEW f, f # None,
         NEW r, r = Reverse(name),
         NEW china, china = (Position(r, <<"cn">>) = 0),
         NEW s, s = IF china THEN Tail(r) ELSE r,
         Position(s, <<"dualstack">>) # 3, Position(s, <<"amazonaws">>) = 1,
         Len(s) > 2, S3Form(s, china) = Form(f, china),
         NEW dual, dual = IF At(f, 2) = <<"dualstack">> THEN f
                          ELSE SpliceInsert(f, 3, <<"dualstack">>),
         Reverse(d) = IF china THEN InChina(dual) ELSE dual
  PROVE  S3Rewrite(name) = d
<1>1. PICK form : form = S3Form(s, china)
  OBVIOUS
<1>2. form.labels = f /\ form.china = china /\ form # NoForm
  BY <1>1 DEF Form, NoForm
<1>3. PICK w : w = IF form.china THEN InChina(dual) ELSE dual
  OBVIOUS
<1>4. S3Rewrite(name) =
        IF \/ Position(s, <<"dualstack">>) = 3
           \/ Position(s, <<"amazonaws">>) # 1
           \/ Len(s) <= 2
           \/ form = NoForm
        THEN None ELSE Reverse(w)
  BY <1>1, <1>2, <1>3, Zenon DEF S3Rewrite, InChina
<1>5. ~(Len(s) <= 2)
  OBVIOUS
<1>6. S3Rewrite(name) = Reverse(w)
  BY <1>2, <1>4, <1>5, Zenon
<1>7. Reverse(Reverse(d)) = d /\ w = Reverse(d)
  BY <1>2, <1>3, ReverseIs
<1> QED
  BY <1>6, <1>7, Zenon

(* What is not the fourth label is not found there.                        *)
LEMMA NotFourth ==
  ASSUME NEW S, NEW s \in Seq(S), Len(s) >= 3, NEW item,
         Len(s) >= 4 => s[4] # item
  PROVE  Position(s, item) # 3
<1>1. Position(s, item) \in -1..Len(s) - 1
  BY PositionIs
<1>2. Position(s, item) = 3 => s[4] = item
  BY EarlyPosition
<1>3. Len(s) \in Nat
  BY LenProperties
<1> QED
  BY <1>1, <1>2, <1>3

(* The same under the two suffixes that it knows.                          *)
LEMMA S3InAmazon ==
  ASSUME NEW S, NEW name \in Seq(S), NEW d \in Seq(S), NEW f, f # None,
         NEW s \in Seq(S), s = Reverse(name), Len(s) >= 3,
         s[1] = <<"com">>, s[2] = <<"amazonaws">>,
         Len(s) >= 4 => s[4] # <<"dualstack">>,
         S3Form(s, FALSE) = Form(f, FALSE),
         Reverse(d) = IF At(f, 2) = <<"dualstack">> THEN f
                      ELSE SpliceInsert(f, 3, <<"dualstack">>)
  PROVE  S3Rewrite(name) = d
<1>1. Position(s, <<"cn">>) # 0 /\ Position(s, <<"amazonaws">>) = 1
  <2>1. \A item : Position(s, item) = 0 <=> s[1] = item
    BY EarlyPosition
  <2>2. \A item : Position(s, item) = 1 <=> s[2] = item /\ s[1] # item
    BY EarlyPosition
  <2> QED
    BY <2>1, <2>2
<1>2. Position(s, <<"dualstack">>) # 3
  BY NotFourth
<1>3. Len(s) > 2
  BY LenProperties
<1>4. PICK china, dual, t :
        /\ china = (Position(s, <<"cn">>) = 0)
        /\ dual = IF At(f, 2) = <<"dualstack">> THEN f
                  ELSE SpliceInsert(f, 3, <<"dualstack">>)
        /\ t = IF china THEN Tail(s) ELSE s
  OBVIOUS
<1>5. china = FALSE /\ t = s /\ Reverse(d) = dual
  BY <1>1, <1>4
<1>6. Reverse(d) = IF china THEN InChina(dual) ELSE dual
  BY <1>5
<1>7. S3Form(t, china) = Form(f, china)
  BY <1>5, Zenon
<1> QED
  BY <1>1, <1>2, <1>3, <1>4, <1>5, <1>6, <1>7, S3Rewrites

(* The suffix of China is found, and what is left of it.                   *)
LEMMA InChinaIs ==
  ASSUME NEW S, NEW s \in Seq(S), <<"cn">> \in S
  PROVE  Position(InChina(s), <<"cn">>) = 0 /\ Tail(InChina(s)) = s
<1>1. PICK cn, r : cn = <<"cn">> /\ r = <<cn>> \o s
  OBVIOUS
<1>2. <<cn>> \in Seq(S) /\ Len(<<cn>>) = 1 /\ <<cn>>[1] = cn
  BY <1>1
<1>3. Len(s) \in Nat
  BY LenProperties
<1>4. /\ r \in Seq(S) /\ Len(r) = 1 + Len(s) /\ r[1] = cn
      /\ \A j \in 1..Len(s) : r[j + 1] = s[j]
  <2>1. /\ r \in Seq(S) /\ Len(r) = 1 + Len(s)
        /\ \A j \in 1..1 + Len(s) :
             r[j] = IF j <= 1 THEN <<cn>>[j] ELSE s[j - 1]
    BY <1>1, <1>2, ConcatProperties
  <2>2. ASSUME NEW j \in 1..Len(s)
        PROVE  r[j + 1] = s[j]
    <3>1. j + 1 \in 1..1 + Len(s) /\ ~(j + 1 <= 1) /\ j + 1 - 1 = j
      BY <1>3
    <3> QED
      BY <2>1, <3>1
  <2> QED
    BY <1>2, <1>3, <2>1, <2>2
<1>5. Position(r, cn) = 0
  <2>1. 0 \in 0..Len(r) - 1 /\ 1..0 = {} /\ 0 + 1 = 1
    BY <1>3, <1>4
  <2>2. Position(r, cn) = 0 <=> r[0 + 1] = cn /\ \A j \in 1..0 : r[j] # cn
    BY <1>4, <2>1, PositionIs
  <2> QED
    BY <1>4, <2>1, <2>2
<1>6. PICK t : t = Tail(r)
  OBVIOUS
<1>7. t \in Seq(S) /\ Len(t) = Len(s) /\ \A j \in 1..Len(s) : t[j] = s[j]
  <2>1. r \in Seq(S) /\ r # <<>>
    BY <1>3, <1>4, EmptySeq
  <2>2. /\ t \in Seq(S) /\ Len(t) = Len(r) - 1
        /\ \A j \in 1..Len(t) : t[j] = r[j + 1]
    BY <1>6, <2>1, HeadTailProperties
  <2> QED
    BY <1>3, <1>4, <2>2
<1>8. t = s
  BY <1>7, SeqEqual
<1> QED
  BY <1>1, <1>5, <1>6, <1>8 DEF InChina

(* The same under the Chinese suffix, which is taken off and put back.     *)
LEMMA S3InChina ==
  ASSUME NEW S, NEW name \in Seq(S), NEW d \in Seq(S), NEW f, f # None,
         NEW s \in Seq(S), Reverse(name) = InChina(s), <<"cn">> \in S,
         Len(s) >= 3, s[1] = <<"com">>, s[2] = <<"amazonaws">>,
         Len(s) >= 4 => s[4] # <<"dualstack">>,
         S3Form(s, TRUE) = Form(f, TRUE), At(f, 2) # <<"dualstack">>,
         Reverse(d) = InChina(SpliceInsert(f, 3, <<"dualstack">>))
  PROVE  S3Rewrite(name) = d
<1>1. Position(s, <<"amazonaws">>) = 1
  <2>1. \A item : Position(s, item) = 1 <=> s[2] = item /\ s[1] # item
    BY EarlyPosition
  <2> QED
    BY <2>1
<1>2. Position(s, <<"dualstack">>) # 3
  BY NotFourth
<1>3. Len(s) > 2
  BY LenProperties
<1>4. PICK china, r, form, w :
        /\ r = Reverse(name) /\ china = (Position(r, <<"cn">>) = 0)
        /\ form = S3Form(s, TRUE)
        /\ w = InChina(SpliceInsert(f, 3, <<"dualstack">>))
  OBVIOUS
<1>5. china = TRUE /\ Tail(r) = s
  BY <1>4, InChinaIs
<1>6. form.labels = f /\ form.china /\ form # NoForm
  <2>1. form = Form(f, china)
    BY <1>4, <1>5, Zenon
  <2>2. form.labels = f /\ form.china = china /\ form # NoForm
    BY <2>1 DEF Form, NoForm
  <2> QED
    BY <1>5, <2>2, Zenon
<1>7. ~(Len(s) <= 2) /\ (At(f, 2) = <<"dualstack">>) = FALSE
  BY <1>3
<1>8. S3Rewrite(name) = Reverse(w)
  BY <1>1, <1>2, <1>4, <1>5, <1>6, <1>7, Zenon DEF S3Rewrite, InChina
<1>9. Reverse(Reverse(d)) = d /\ w = Reverse(d)
  BY <1>4, ReverseIs
<1> QED
  BY <1>8, <1>9, Zenon

(* A label of a bucket, and those of the bucket in either order.           *)
IsPlain(label) ==
  /\ label \in Label /\ label[1] \notin {"s3", "oss"}
  /\ label \notin OssRegions \cup {<<"dualstack">>, <<"compat">>}

(* A bucket is a name of plain labels, forwards and backwards.             *)
LEMMA BucketIs ==
  ASSUME NEW b, IsBucket(b)
  PROVE  /\ b \in Seq(Label) /\ Reverse(b) \in Seq(Label)
         /\ Len(b) \in Nat /\ Len(b) # 2 /\ Len(Reverse(b)) = Len(b)
         /\ \A j \in 1..Len(b) : IsPlain(b[j]) /\ IsPlain(Reverse(b)[j])
<1>1. b \in Seq(Label) /\ Len(b) \in Nat /\ Len(b) # 2
  BY NameIs DEF IsBucket
<1>2. /\ Reverse(b) \in Seq(Label) /\ Len(Reverse(b)) = Len(b)
      /\ \A j \in 1..Len(b) : Reverse(b)[j] = b[Len(b) - j + 1]
  BY <1>1, ReverseIs
<1>3. ASSUME NEW j \in 1..Len(b)
      PROVE  IsPlain(b[j])
  <2>1. PICK l : l = b[j]
    OBVIOUS
  <2>2. l \in Label /\ l \in ToSet(b)
    BY <1>1, <2>1, ElementOfSeq DEF ToSet
  <2>3. Head(l) \notin {"s3", "oss"}
        /\ l \notin OssRegions \cup {<<"dualstack">>, <<"compat">>}
    BY <2>2, Zenon DEF IsBucket
  <2> QED
    BY <2>1, <2>2, <2>3 DEF IsPlain
<1>4. ASSUME NEW j \in 1..Len(b)
      PROVE  IsPlain(Reverse(b)[j])
  <2>1. Len(b) - j + 1 \in 1..Len(b)
    BY <1>1
  <2> QED
    BY <1>2, <1>3, <2>1
<1> QED
  BY <1>1, <1>2, <1>3, <1>4

(* A name in the order it is read, and labels in front of a reversed one.  *)
Under(b, q, suffix) == (b \o q) \o suffix

Back(q, suffix) == Reverse(q \o suffix)

Onto(p, b) == p \o Reverse(b)

(* Reversed, a name is the front of its endpoint onto its bucket.          *)
LEMMA UnderIs ==
  ASSUME NEW S, NEW b \in Seq(S), NEW q \in Seq(S), NEW suffix \in Seq(S)
  PROVE  /\ Under(b, q, suffix) \in Seq(S)
         /\ Reverse(Under(b, q, suffix)) = Onto(Back(q, suffix), b)
<1>1. /\ (b \o q) \o suffix \in Seq(S)
      /\ Reverse((b \o q) \o suffix) = Reverse(q \o suffix) \o Reverse(b)
  BY EndpointReversed
<1> QED
  BY <1>1, Zenon DEF Under, Back, Onto

(* The labels that are neither a region's nor a bucket's.                  *)
Words == {<<"com">>, <<"cn">>, <<"amazonaws">>, <<"aliyuncs">>,
          <<"aliyun", "inc">>, <<"dualstack">>, <<"oss">>, S3Website,
          <<"s3">>, <<"s3", "control">>, <<"s3", "accesspoint">>,
          <<"s3", "accelerate">>, UsEast1, <<"cn", "hangzhou">>}

(* The labels that join a service and a region by a dash.                  *)
Joined == {<<"s3">> \o r : r \in {r \in Label : IsRegion(r)}}
          \cup {<<"oss">> \o r : r \in OssRegions}

Labels == Label \cup Words \cup OssRegions \cup Joined
-------------------------------------------------------------------------------
(* Where the labels of the front are, and that the rest is the bucket's.   *)
LEMMA OntoIs ==
  ASSUME NEW b, IsBucket(b), NEW p \in Seq(Labels), NEW s, s = Onto(p, b)
  PROVE  /\ s \in Seq(Labels) /\ Len(s) = Len(p) + Len(b)
         /\ Len(b) \in Nat /\ Len(b) # 2
         /\ \A j \in 1..Len(p) : s[j] = p[j]
         /\ \A j \in Len(p) + 1..Len(s) : IsPlain(s[j])
<1>1. PICK r : r = Reverse(b)
  OBVIOUS
<1>2. /\ r \in Seq(Label) /\ Len(b) \in Nat /\ Len(b) # 2 /\ Len(r) = Len(b)
      /\ \A j \in 1..Len(b) : IsPlain(r[j])
  BY <1>1, BucketIs
<1>3. r \in Seq(Labels) /\ s = p \o r /\ Len(p) \in Nat
  BY <1>1, <1>2, LenProperties DEF Labels, Onto
<1>4. /\ s \in Seq(Labels) /\ Len(s) = Len(p) + Len(r)
      /\ \A j \in 1..Len(p) + Len(r) :
           s[j] = IF j <= Len(p) THEN p[j] ELSE r[j - Len(p)]
  <2>1. p \in Seq(Labels) /\ r \in Seq(Labels) /\ s = p \o r
    BY <1>3
  <2> QED
    BY <2>1, ConcatProperties
<1>5. \A j \in 1..Len(p) : s[j] = p[j]
  BY <1>2, <1>3, <1>4
<1>6. ASSUME NEW j \in Len(p) + 1..Len(s)
      PROVE  IsPlain(s[j])
  <2>1. /\ j \in 1..Len(p) + Len(r) /\ ~(j <= Len(p))
        /\ j - Len(p) \in 1..Len(b)
    BY <1>2, <1>3, <1>4
  <2>2. s[j] = r[j - Len(p)]
    BY <1>4, <2>1
  <2> QED
    BY <1>2, <2>1, <2>2, Zenon
<1> QED
  BY <1>2, <1>4, <1>5, <1>6

(* A splice of the front.                                                  *)
LEMMA OntoSplices ==
  ASSUME NEW b, IsBucket(b), NEW p \in Seq(Labels)
  PROVE  /\ \A i \in 0..Len(p), item \in Labels :
              SpliceInsert(Onto(p, b), i, item)
                = Onto(SpliceInsert(p, i, item), b)
         /\ \A i \in 0..Len(p) - 1 :
              SpliceRemove(Onto(p, b), i) = Onto(SpliceRemove(p, i), b)
<1>1. Reverse(b) \in Seq(Labels)
  BY BucketIs DEF Labels
<1>2. PICK r : r = Reverse(b)
  OBVIOUS
<1>3. ASSUME NEW i \in 0..Len(p), NEW item \in Labels
      PROVE  SpliceInsert(Onto(p, b), i, item)
               = Onto(SpliceInsert(p, i, item), b)
  <2>1. SpliceInsert(p \o r, i, item) = SpliceInsert(p, i, item) \o r
    BY <1>1, <1>2, InsertInFront
  <2> QED
    BY <1>2, <2>1, Zenon DEF Onto
<1>4. ASSUME NEW i \in 0..Len(p) - 1
      PROVE  SpliceRemove(Onto(p, b), i) = Onto(SpliceRemove(p, i), b)
  <2>1. SpliceRemove(p \o r, i) = SpliceRemove(p, i) \o r
    BY <1>1, <1>2, RemoveInFront
  <2> QED
    BY <1>2, <2>1, Zenon DEF Onto
<1> QED
  BY <1>3, <1>4

(* The suffixes, label by label.                                           *)
LEMMA DomainsAre ==
  /\ Amazon = <<<<"amazonaws">>, <<"com">>>>
  /\ China = <<<<"amazonaws">>, <<"com">>, <<"cn">>>>
  /\ Aliyun = <<<<"aliyuncs">>, <<"com">>>>
  /\ Oss = <<<<"oss">>, <<"aliyuncs">>, <<"com">>>>
<1>1. ASSUME NEW x, NEW y
      PROVE  Dotted(<<x, y>>) = <<<<x>>, <<y>>>>
  BY DEF Dotted
<1>2. ASSUME NEW x, NEW y, NEW z
      PROVE  Dotted(<<x, y, z>>) = <<<<x>>, <<y>>, <<z>>>>
  BY DEF Dotted
<1>3. Aliyun = <<<<"aliyuncs">>, <<"com">>>>
  BY <1>1 DEF Aliyun
<1>4. Oss = <<<<"oss">>, <<"aliyuncs">>, <<"com">>>>
  BY <1>3, JoinTuples, Zenon DEF Oss
<1> QED
  BY <1>1, <1>2, <1>3, <1>4 DEF Amazon, China

(* An endpoint of one, two or three labels under a suffix, reversed.       *)
LEMMA BackIs ==
  /\ \A x, u, v : Back(<<x>>, <<u, v>>) = <<v, u, x>>
  /\ \A x, y, u, v : Back(<<x, y>>, <<u, v>>) = <<v, u, y, x>>
  /\ \A x, y, z, u, v : Back(<<x, y, z>>, <<u, v>>) = <<v, u, z, y, x>>
  /\ \A x, y, u, v, w : Back(<<x, y>>, <<u, v, w>>) = <<w, v, u, y, x>>
  /\ \A x, y, z, u, v, w :
       Back(<<x, y, z>>, <<u, v, w>>) = <<w, v, u, z, y, x>>
<1>1. ASSUME NEW x, NEW u, NEW v
      PROVE  Back(<<x>>, <<u, v>>) = <<v, u, x>>
  <2>1. <<x>> \o <<u, v>> = <<x, u, v>>
    BY JoinTuples
  <2>2. Reverse(<<x, u, v>>) = <<v, u, x>>
    BY ReverseTuples
  <2> QED
    BY <2>1, <2>2, Zenon DEF Back
<1>2. ASSUME NEW x, NEW y, NEW u, NEW v
      PROVE  Back(<<x, y>>, <<u, v>>) = <<v, u, y, x>>
  <2>1. <<x, y>> \o <<u, v>> = <<x, y, u, v>>
    BY JoinTuples
  <2>2. Reverse(<<x, y, u, v>>) = <<v, u, y, x>>
    BY ReverseTuples
  <2> QED
    BY <2>1, <2>2, Zenon DEF Back
<1>3. ASSUME NEW x, NEW y, NEW z, NEW u, NEW v
      PROVE  Back(<<x, y, z>>, <<u, v>>) = <<v, u, z, y, x>>
  <2>1. <<x, y, z>> \o <<u, v>> = <<x, y, z, u, v>>
    BY JoinTuples
  <2>2. Reverse(<<x, y, z, u, v>>) = <<v, u, z, y, x>>
    BY ReverseTuples
  <2> QED
    BY <2>1, <2>2, Zenon DEF Back
<1>4. ASSUME NEW x, NEW y, NEW u, NEW v, NEW w
      PROVE  Back(<<x, y>>, <<u, v, w>>) = <<w, v, u, y, x>>
  <2>1. <<x, y>> \o <<u, v, w>> = <<x, y, u, v, w>>
    BY JoinTuples
  <2>2. Reverse(<<x, y, u, v, w>>) = <<w, v, u, y, x>>
    BY ReverseTuples
  <2> QED
    BY <2>1, <2>2, Zenon DEF Back
<1>5. ASSUME NEW x, NEW y, NEW z, NEW u, NEW v, NEW w
      PROVE  Back(<<x, y, z>>, <<u, v, w>>) = <<w, v, u, z, y, x>>
  <2>1. <<x, y, z>> \o <<u, v, w>> = <<x, y, z, u, v, w>>
    BY JoinTuples
  <2>2. Reverse(<<x, y, z, u, v, w>>) = <<w, v, u, z, y, x>>
    BY DEF Reverse
  <2> QED
    BY <2>1, <2>2, Zenon DEF Back
<1> QED
  BY <1>1, <1>2, <1>3, <1>4, <1>5, Zenon

(* The names under a suffix of two labels, by what is in front of it.      *)
LEMMA OneUnder ==
  ASSUME NEW S, NEW b \in Seq(S), NEW u \in S, NEW v \in S,
         NEW x \in S,
         NEW name, name = Under(b, <<x>>, <<u, v>>)
  PROVE  name \in Seq(S) /\ Reverse(name) = Onto(<<v, u, x>>, b)
<1>1. <<u, v>> \in Seq(S) /\ <<x>> \in Seq(S)
  OBVIOUS
<1>2. Back(<<x>>, <<u, v>>) = <<v, u, x>>
  BY BackIs
<1> QED
  BY <1>1, <1>2, UnderIs

(* Two labels in front of a suffix of two.                                 *)
LEMMA TwoUnder ==
  ASSUME NEW S, NEW b \in Seq(S), NEW u \in S, NEW v \in S,
         NEW x \in S, NEW y \in S,
         NEW name, name = Under(b, <<x, y>>, <<u, v>>)
  PROVE  name \in Seq(S) /\ Reverse(name) = Onto(<<v, u, y, x>>, b)
<1>1. <<u, v>> \in Seq(S) /\ <<x, y>> \in Seq(S)
  OBVIOUS
<1>2. Back(<<x, y>>, <<u, v>>) = <<v, u, y, x>>
  BY BackIs
<1> QED
  BY <1>1, <1>2, UnderIs

(* Three labels in front of a suffix of two.                               *)
LEMMA ThreeUnder ==
  ASSUME NEW S, NEW b \in Seq(S), NEW u \in S, NEW v \in S,
         NEW x \in S, NEW y \in S, NEW z \in S,
         NEW name, name = Under(b, <<x, y, z>>, <<u, v>>)
  PROVE  name \in Seq(S) /\ Reverse(name) = Onto(<<v, u, z, y, x>>, b)
<1>1. <<u, v>> \in Seq(S) /\ <<x, y, z>> \in Seq(S)
  OBVIOUS
<1>2. Back(<<x, y, z>>, <<u, v>>) = <<v, u, z, y, x>>
  BY BackIs
<1> QED
  BY <1>1, <1>2, UnderIs

(* And under the suffix of China, which comes off again.                   *)
LEMMA TwoUnderChina ==
  ASSUME NEW S, NEW b \in Seq(S), NEW u \in S, NEW v \in S,
         NEW x \in S, NEW y \in S,
         NEW cn \in S, cn = <<"cn">>,
         NEW name, name = Under(b, <<x, y>>, <<u, v, cn>>)
  PROVE  name \in Seq(S) /\ Reverse(name) = InChina(Onto(<<v, u, y, x>>, b))
<1>1. <<u, v, cn>> \in Seq(S) /\ <<x, y>> \in Seq(S)
  OBVIOUS
<1>2. PICK p, r, w : p = <<v, u, y, x>> /\ r = Reverse(b) /\ w = <<cn>> \o p
  OBVIOUS
<1>3. <<cn>> \in Seq(S) /\ p \in Seq(S) /\ r \in Seq(S)
  BY <1>2, ReverseIs
<1>4. w = <<cn, v, u, y, x>>
  <2>1. /\ w \in Seq(S) /\ Len(w) = 5
        /\ w[1] = cn
        /\ w[2] = v
        /\ w[3] = u
        /\ w[4] = y
        /\ w[5] = x
    BY <1>2, <1>3, ConcatProperties
  <2> QED
    BY <2>1, AsTuple
<1>5. Back(<<x, y>>, <<u, v, cn>>) = w
  BY <1>4, BackIs
<1>6. name \in Seq(S) /\ Reverse(name) = Onto(w, b)
  BY <1>1, <1>5, UnderIs
<1>7. (<<cn>> \o p) \o r = <<cn>> \o (p \o r)
  BY <1>3, ConcatAssociative
<1>8. Onto(w, b) = InChina(Onto(p, b))
  BY <1>2, <1>7, Zenon DEF InChina, Onto
<1> QED
  BY <1>2, <1>6, <1>8, Zenon

(* Three labels in front of the Chinese suffix.                            *)
LEMMA ThreeUnderChina ==
  ASSUME NEW S, NEW b \in Seq(S), NEW u \in S, NEW v \in S,
         NEW x \in S, NEW y \in S, NEW z \in S,
         NEW cn \in S, cn = <<"cn">>,
         NEW name, name = Under(b, <<x, y, z>>, <<u, v, cn>>)
  PROVE  name \in Seq(S) /\ Reverse(name) = InChina(Onto(<<v, u, z, y, x>>, b))
<1>1. <<u, v, cn>> \in Seq(S) /\ <<x, y, z>> \in Seq(S)
  OBVIOUS
<1>2. PICK p, r, w : p = <<v, u, z, y, x>> /\ r = Reverse(b) /\ w = <<cn>> \o p
  OBVIOUS
<1>3. <<cn>> \in Seq(S) /\ p \in Seq(S) /\ r \in Seq(S)
  BY <1>2, ReverseIs
<1>4. w = <<cn, v, u, z, y, x>>
  <2>1. /\ w \in Seq(S) /\ Len(w) = 6
        /\ w[1] = cn
        /\ w[2] = v
        /\ w[3] = u
        /\ w[4] = z
        /\ w[5] = y
        /\ w[6] = x
    BY <1>2, <1>3, ConcatProperties
  <2> QED
    BY <2>1, AsTuple
<1>5. Back(<<x, y, z>>, <<u, v, cn>>) = w
  BY <1>4, BackIs
<1>6. name \in Seq(S) /\ Reverse(name) = Onto(w, b)
  BY <1>1, <1>5, UnderIs
<1>7. (<<cn>> \o p) \o r = <<cn>> \o (p \o r)
  BY <1>3, ConcatAssociative
<1>8. Onto(w, b) = InChina(Onto(p, b))
  BY <1>2, <1>7, Zenon DEF InChina, Onto
<1> QED
  BY <1>2, <1>6, <1>8, Zenon

(* Fronts of three and four labels, and what the splices leave of them.    *)
LEMMA OntoThree ==
  ASSUME NEW b, IsBucket(b), NEW x \in Labels, NEW y \in Labels,
         NEW z \in Labels, NEW s, s = Onto(<<x, y, z>>, b)
  PROVE  /\ s \in Seq(Labels) /\ Len(s) >= 3 /\ Len(s) # 5
         /\ s[1] = x /\ s[2] = y /\ s[3] = z
         /\ Len(s) >= 4 => IsPlain(s[4])
<1>1. PICK p : p = <<x, y, z>>
  OBVIOUS
<1>2. p \in Seq(Labels) /\ Len(p) = 3 /\ p[1] = x /\ p[2] = y /\ p[3] = z
  BY <1>1
<1>3. s = Onto(p, b)
  BY <1>1, Zenon
<1>4. /\ s \in Seq(Labels) /\ Len(s) = Len(p) + Len(b)
      /\ Len(b) \in Nat /\ Len(b) # 2
      /\ \A j \in 1..Len(p) : s[j] = p[j]
      /\ \A j \in Len(p) + 1..Len(s) : IsPlain(s[j])
  BY <1>2, <1>3, OntoIs
<1>5. s[1] = p[1] /\ s[2] = p[2] /\ s[3] = p[3] /\ 3 + 1 = 4
  BY <1>2, <1>4
<1>6. Len(s) = 3 + Len(b) /\ Len(b) \in Nat /\ Len(b) # 2
  BY <1>2, <1>4
<1>7. Len(s) >= 3 /\ Len(s) # 5 /\ (Len(s) >= 4 => 4 \in 3 + 1..Len(s))
  <2>1. PICK m, n : m = Len(b) /\ n = Len(s)
    OBVIOUS
  <2>2. n = 3 + m /\ m \in Nat /\ m # 2
    BY <1>6, <2>1
  <2>3. n >= 3 /\ n # 5 /\ (n >= 4 => 4 \in 3 + 1..n)
    BY <2>2
  <2> QED
    BY <2>1, <2>3, Zenon
<1> QED
  BY <1>2, <1>4, <1>5, <1>7, Zenon

(* A front of four labels onto a bucket.                                   *)
LEMMA OntoFour ==
  ASSUME NEW b, IsBucket(b), NEW x \in Labels, NEW y \in Labels,
         NEW z \in Labels, NEW w \in Labels, NEW s, s = Onto(<<x, y, z, w>>, b)
  PROVE  /\ s \in Seq(Labels) /\ Len(s) = 4 + Len(b)
         /\ Len(b) \in Nat
         /\ s[1] = x /\ s[2] = y /\ s[3] = z /\ s[4] = w
<1>1. PICK p : p = <<x, y, z, w>>
  OBVIOUS
<1>2. p \in Seq(Labels) /\ Len(p) = 4
      /\ p[1] = x /\ p[2] = y /\ p[3] = z /\ p[4] = w
  BY <1>1
<1>3. s = Onto(p, b)
  BY <1>1, Zenon
<1>4. /\ s \in Seq(Labels) /\ Len(s) = Len(p) + Len(b)
      /\ Len(b) \in Nat /\ Len(b) # 2
      /\ \A j \in 1..Len(p) : s[j] = p[j]
      /\ \A j \in Len(p) + 1..Len(s) : IsPlain(s[j])
  BY <1>2, <1>3, OntoIs
<1>5. s[1] = p[1] /\ s[2] = p[2] /\ s[3] = p[3] /\ s[4] = p[4] /\ 4 + 1 = 5
  BY <1>2, <1>4
<1> QED
  BY <1>2, <1>4, <1>5

(* A label behind a front of two.                                          *)
LEMMA OntoTwoSplice ==
  ASSUME NEW b, IsBucket(b), NEW x \in Labels, NEW y \in Labels,
         NEW w \in Labels, NEW s, s = Onto(<<x, y>>, b)
  PROVE  SpliceInsert(s, 2, w) = Onto(<<x, y, w>>, b)
<1>1. PICK p : p = <<x, y>>
  OBVIOUS
<1>2. p \in Seq(Labels) /\ Len(p) = 2 /\ 2 \in 0..Len(p)
  BY <1>1
<1>3. SpliceInsert(Onto(p, b), 2, w) = Onto(SpliceInsert(p, 2, w), b)
  BY <1>2, OntoSplices
<1>4. SpliceInsert(p, 2, w) = <<x, y, w>>
  BY <1>1, SpliceTuples
<1> QED
  BY <1>1, <1>3, <1>4, Zenon

(* A front of three without its last label.                                *)
LEMMA OntoThreeLess ==
  ASSUME NEW b, IsBucket(b), NEW x \in Labels, NEW y \in Labels,
         NEW z \in Labels, NEW s, s = Onto(<<x, y, z>>, b)
  PROVE  SpliceRemove(s, 2) = Onto(<<x, y>>, b)
<1>1. PICK q : q = <<x, y, z>>
  OBVIOUS
<1>2. q \in Seq(Labels) /\ Len(q) = 3 /\ 2 \in 0..Len(q) - 1
  BY <1>1
<1>3. SpliceRemove(Onto(q, b), 2) = Onto(SpliceRemove(q, 2), b)
  BY <1>2, OntoSplices
<1>4. SpliceRemove(q, 2) = <<x, y>>
  BY <1>1, SpliceTuples
<1> QED
  BY <1>1, <1>3, <1>4, Zenon

(* A label inside a front of three.                                        *)
LEMMA OntoThreeInside ==
  ASSUME NEW b, IsBucket(b), NEW x \in Labels, NEW y \in Labels,
         NEW z \in Labels, NEW w \in Labels, NEW s, s = Onto(<<x, y, z>>, b)
  PROVE  SpliceInsert(s, 2, w) = Onto(<<x, y, w, z>>, b)
<1>1. PICK q : q = <<x, y, z>>
  OBVIOUS
<1>2. q \in Seq(Labels) /\ Len(q) = 3 /\ 2 \in 0..Len(q)
  BY <1>1
<1>3. SpliceInsert(Onto(q, b), 2, w) = Onto(SpliceInsert(q, 2, w), b)
  BY <1>2, OntoSplices
<1>4. SpliceInsert(q, 2, w) = <<x, y, w, z>>
  BY <1>1, SpliceTuples
<1> QED
  BY <1>1, <1>3, <1>4, Zenon

(* A label behind a front of three.                                        *)
LEMMA OntoThreeBehind ==
  ASSUME NEW b, IsBucket(b), NEW x \in Labels, NEW y \in Labels,
         NEW z \in Labels, NEW w \in Labels, NEW s, s = Onto(<<x, y, z>>, b)
  PROVE  SpliceInsert(s, 3, w) = Onto(<<x, y, z, w>>, b)
<1>1. PICK q : q = <<x, y, z>>
  OBVIOUS
<1>2. q \in Seq(Labels) /\ Len(q) = 3 /\ 3 \in 0..Len(q)
  BY <1>1
<1>3. SpliceInsert(Onto(q, b), 3, w) = Onto(SpliceInsert(q, 3, w), b)
  BY <1>2, OntoSplices
<1>4. SpliceInsert(q, 3, w) = <<x, y, z, w>>
  BY <1>1, SpliceTuples
<1> QED
  BY <1>1, <1>3, <1>4, Zenon

(* A label inside a front of four.                                         *)
LEMMA OntoFourSplice ==
  ASSUME NEW b, IsBucket(b), NEW x \in Labels, NEW y \in Labels,
         NEW z \in Labels, NEW w \in Labels, NEW v \in Labels,
         NEW s, s = Onto(<<x, y, z, w>>, b)
  PROVE  SpliceInsert(s, 3, v) = Onto(<<x, y, z, v, w>>, b)
<1>1. PICK p : p = <<x, y, z, w>>
  OBVIOUS
<1>2. p \in Seq(Labels) /\ Len(p) = 4 /\ 3 \in 0..Len(p)
  BY <1>1
<1>3. SpliceInsert(Onto(p, b), 3, v) = Onto(SpliceInsert(p, 3, v), b)
  BY <1>2, OntoSplices
<1>4. SpliceInsert(p, 3, v) = <<x, y, z, v, w>>
  BY <1>1, SpliceTuples
<1> QED
  BY <1>1, <1>3, <1>4, Zenon

(* The label of a bucket is no service of S3, and no mark of dual stack.   *)
LEMMA PlainFourth ==
  ASSUME NEW S, NEW s \in Seq(S), Len(s) >= 3, Len(s) >= 4 => IsPlain(s[4])
  PROVE  /\ \A item \in S3Services \cup {S3Website} : Position(s, item) # 3
         /\ Len(s) >= 4 => s[4] # <<"dualstack">>
<1>1. ASSUME NEW item \in S3Services \cup {S3Website}
      PROVE  Position(s, item) # 3
  <2>1. item[1] = "s3"
    BY DEF S3Services, S3Website
  <2>2. Len(s) >= 4 => s[4] # item
    BY <2>1 DEF IsPlain
  <2> QED
    BY <2>2, NotFourth
<1> QED
  BY <1>1 DEF IsPlain

(* The labels of S3, and those of buckets and regions, are labels.         *)
LEMMA S3Words ==
  /\ <<"com">> \in Labels /\ <<"amazonaws">> \in Labels /\ <<"cn">> \in Labels
  /\ <<"dualstack">> \in Labels /\ UsEast1 \in Labels
  /\ <<"s3">> \in Labels /\ <<"s3", "accelerate">> \in Labels
  /\ \A service \in S3Services \cup {S3Website} : service \in Labels
  /\ \A r : IsRegion(r) => r \in Labels
  /\ \A b : IsBucket(b) => b \in Seq(Labels)
<1>1. /\ \A service \in S3Services \cup {S3Website} : service \in Labels
      /\ \A r : IsRegion(r) => r \in Labels
  BY DEF Labels, Words, S3Services, IsRegion
<1>2. ASSUME NEW b, IsBucket(b)
      PROVE  b \in Seq(Labels)
  BY <1>2, BucketIs DEF Labels
<1> QED
  BY <1>1, <1>2 DEF Labels, Words

(* Where S3 has its region in front of its service, it is marked between.  *)
LEMMA MarkedBetween ==
  ASSUME NEW b, IsBucket(b), NEW x \in Labels, NEW y \in Labels,
         NEW z \in Labels, NEW w \in Labels, NEW v \in Labels, z # v,
         NEW f, f = Onto(<<x, y, z, w>>, b)
  PROVE  /\ f # None /\ At(f, 2) # v
         /\ SpliceInsert(f, 3, v) = Onto(<<x, y, z, v, w>>, b)
<1>1. /\ f \in Seq(Labels) /\ Len(f) = 4 + Len(b) /\ Len(b) \in Nat
      /\ f[3] = z
  BY OntoFour
<1>2. f # None
  BY <1>1 DEF None
<1>3. At(f, 2) # v
  BY <1>1 DEF At
<1> QED
  BY <1>2, <1>3, OntoFourSplice

(* A name in which only the mark is missing gets it between region and     *)
(* service.                                                                *)
LEMMA S3Marked ==
  ASSUME NEW b, IsBucket(b), NEW name \in Seq(Labels), NEW d \in Seq(Labels),
         NEW s \in Seq(Labels), s = Reverse(name), Len(s) >= 3,
         s[1] = <<"com">>, s[2] = <<"amazonaws">>,
         Len(s) >= 4 => s[4] # <<"dualstack">>,
         NEW f, f # None, S3Form(s, FALSE) = Form(f, FALSE),
         At(f, 2) # <<"dualstack">>,
         Reverse(d) = SpliceInsert(f, 3, <<"dualstack">>)
  PROVE  S3Rewrite(name) = d
<1>1. Reverse(d) = IF At(f, 2) = <<"dualstack">> THEN f
                   ELSE SpliceInsert(f, 3, <<"dualstack">>)
  BY Zenon
<1> QED
  BY <1>1, S3InAmazon

(* bucket.s3.amazonaws.com, of any bucket, is that of us-east-1.           *)
LEMMA S3First ==
  ASSUME NEW b, IsBucket(b)
  PROVE  S3Rewrite(Under(b, <<<<"s3">>>>, Amazon))
           = Under(b, S3Dual(<<"s3">>, UsEast1), Amazon)
<1>1. PICK com, aws, store, ds, us :
        /\ com = <<"com">> /\ aws = <<"amazonaws">> /\ store = <<"s3">>
        /\ ds = <<"dualstack">> /\ us = UsEast1
  OBVIOUS
<1>2. PICK name, d, s : /\ name = Under(b, <<store>>, Amazon)
                        /\ d = Under(b, S3Dual(store, us), Amazon)
                        /\ s = Onto(<<com, aws, store>>, b)
  OBVIOUS
<1>3. /\ com \in Labels /\ aws \in Labels /\ store \in Labels /\ ds \in Labels
      /\ us \in Labels /\ b \in Seq(Labels)
  BY <1>1, S3Words
<1>4. Amazon = <<aws, com>> /\ S3Dual(store, us) = <<store, ds, us>>
  BY <1>1, DomainsAre DEF S3Dual
<1>5. /\ name \in Seq(Labels) /\ Reverse(name) = s
      /\ d \in Seq(Labels) /\ Reverse(d) = Onto(<<com, aws, us, ds, store>>, b)
  <2>1. name \in Seq(Labels) /\ Reverse(name) = s
    BY <1>2, <1>3, <1>4, OneUnder
  <2>2. d \in Seq(Labels) /\ Reverse(d) = Onto(<<com, aws, us, ds, store>>, b)
    BY <1>2, <1>3, <1>4, ThreeUnder
  <2> QED
    BY <2>1, <2>2
<1>6. s \in Seq(Labels) /\ s[1] = com /\ s[2] = aws /\ s[3] = store
  BY <1>2, <1>3, OntoThree
<1>7. Len(s) >= 3 /\ Len(s) # 5 /\ (Len(s) >= 4 => IsPlain(s[4]))
  BY <1>2, <1>3, OntoThree
<1>8. /\ \A item \in S3Services \cup {S3Website} : Position(s, item) # 3
      /\ Len(s) >= 4 => s[4] # ds
  BY <1>1, <1>6, <1>7, PlainFourth
<1>9. PICK f : f = Onto(<<com, aws, us, store>>, b)
  OBVIOUS
<1>10. S3Form(s, FALSE) = Form(f, FALSE)
  <2>1. com # store /\ aws # store
    BY <1>1
  <2>2. S3Form(s, FALSE) = Form(SpliceInsert(s, 2, us), FALSE)
    BY <1>1, <1>6, <1>7, <1>8, <2>1, S3Implied
  <2>3. SpliceInsert(s, 2, us) = Onto(<<com, aws, us, store>>, b)
    BY <1>2, <1>3, OntoThreeInside
  <2> QED
    BY <1>9, <2>2, <2>3, Zenon
<1>11. /\ f # None /\ At(f, 2) # ds
       /\ SpliceInsert(f, 3, ds) = Onto(<<com, aws, us, ds, store>>, b)
  <2>1. us # ds
    BY <1>1 DEF UsEast1
  <2> QED
    BY <1>3, <1>9, <2>1, MarkedBetween
<1>12. Reverse(d) = SpliceInsert(f, 3, ds)
  BY <1>5, <1>11, Zenon
<1>13. S3Rewrite(name) = d
  BY <1>1, <1>5, <1>6, <1>7, <1>8, <1>10, <1>11, <1>12, S3Marked
<1> QED
  BY <1>1, <1>2, <1>13, Zenon

(* What is said of a region, and of a service.                             *)
LEMMA RegionIs ==
  ASSUME NEW r, IsRegion(r)
  PROVE  /\ r \in Labels /\ Len(r) = 3 /\ r[1] # "s3" /\ r # <<"dualstack">>
<1>1. r \in Label /\ Len(r) = 3 /\ r[1] # "s3"
  BY LabelIs DEF IsRegion
<1>2. PICK ds : ds = <<"dualstack">>
  OBVIOUS
<1>3. Len(ds) = 1 /\ 3 # 1
  BY <1>2
<1> QED
  BY <1>1, <1>2, <1>3, Zenon DEF Labels

(* The services of S3 are no other words.                                  *)
LEMMA ServiceIs ==
  ASSUME NEW service \in S3Services \cup {S3Website}
  PROVE  /\ service \in Labels /\ service # <<"dualstack">>
         /\ service # <<"com">> /\ service # <<"amazonaws">>
<1>1. service[1] = "s3"
  BY DEF S3Services, S3Website
<1> QED
  BY <1>1, S3Words

(* A service in front of its region stays where it is.                     *)
LEMMA S3InRegion ==
  ASSUME NEW b, IsBucket(b), Len(b) <= 1,
         NEW service \in S3Services \cup {S3Website}, NEW r, IsRegion(r)
  PROVE  S3Rewrite(Under(b, <<service, r>>, Amazon))
           = Under(b, S3Dual(service, r), Amazon)
<1>1. PICK com, aws, ds :
        com = <<"com">> /\ aws = <<"amazonaws">> /\ ds = <<"dualstack">>
  OBVIOUS
<1>2. PICK name, d, s : /\ name = Under(b, <<service, r>>, Amazon)
                        /\ d = Under(b, S3Dual(service, r), Amazon)
                        /\ s = Onto(<<com, aws, r, service>>, b)
  OBVIOUS
<1>3. com \in Labels /\ aws \in Labels /\ ds \in Labels /\ b \in Seq(Labels)
  BY <1>1, S3Words
<1>4. /\ r \in Labels /\ Len(r) = 3 /\ r[1] # "s3" /\ r # ds
      /\ service \in Labels /\ service # ds /\ service # com /\ service # aws
  BY <1>1, RegionIs, ServiceIs
<1>5. Amazon = <<aws, com>> /\ S3Dual(service, r) = <<service, ds, r>>
  BY <1>1, DomainsAre DEF S3Dual
<1>6. /\ name \in Seq(Labels) /\ Reverse(name) = s
      /\ d \in Seq(Labels) /\ Reverse(d) = Onto(<<com, aws, r, ds, service>>, b)
  <2>1. name \in Seq(Labels) /\ Reverse(name) = s
    BY <1>2, <1>3, <1>4, <1>5, TwoUnder
  <2>2. d \in Seq(Labels) /\ Reverse(d) = Onto(<<com, aws, r, ds, service>>, b)
    BY <1>2, <1>3, <1>4, <1>5, ThreeUnder
  <2> QED
    BY <2>1, <2>2
<1>7. /\ s \in Seq(Labels) /\ Len(s) = 4 + Len(b) /\ Len(b) \in Nat
      /\ s[1] = com /\ s[2] = aws /\ s[3] = r /\ s[4] = service
  BY <1>2, <1>3, <1>4, OntoFour
<1>8. Len(s) \in {4, 5} /\ Len(s) >= 3
  BY <1>7
<1>9. S3Form(s, FALSE) = Form(s, FALSE)
  BY <1>4, <1>7, <1>8, S3Separate
<1>10. /\ s # None /\ At(s, 2) # ds
       /\ SpliceInsert(s, 3, ds) = Onto(<<com, aws, r, ds, service>>, b)
  BY <1>2, <1>3, <1>4, MarkedBetween
<1>11. Reverse(d) = SpliceInsert(s, 3, ds)
  BY <1>6, <1>10, Zenon
<1>12. S3Rewrite(name) = d
  BY <1>1, <1>4, <1>6, <1>7, <1>8, <1>9, <1>10, <1>11, S3Marked
<1> QED
  BY <1>2, <1>12, Zenon

(* And so it does in China, where the suffix goes and comes back.          *)
LEMMA S3InChinese ==
  ASSUME NEW b, IsBucket(b), Len(b) <= 1,
         NEW service \in S3Services, NEW r, IsRegion(r)
  PROVE  S3Rewrite(Under(b, <<service, r>>, China))
           = Under(b, S3Dual(service, r), China)
<1>1. PICK com, aws, ds, cn :
        /\ com = <<"com">> /\ aws = <<"amazonaws">> /\ ds = <<"dualstack">>
        /\ cn = <<"cn">>
  OBVIOUS
<1>2. PICK name, d, s : /\ name = Under(b, <<service, r>>, China)
                        /\ d = Under(b, S3Dual(service, r), China)
                        /\ s = Onto(<<com, aws, r, service>>, b)
  OBVIOUS
<1>3. /\ com \in Labels /\ aws \in Labels /\ ds \in Labels /\ cn \in Labels
      /\ b \in Seq(Labels)
  BY <1>1, S3Words
<1>4. /\ r \in Labels /\ Len(r) = 3 /\ r[1] # "s3" /\ r # ds
      /\ service \in Labels /\ service # ds /\ service # com /\ service # aws
  BY <1>1, RegionIs, ServiceIs
<1>5. China = <<aws, com, cn>> /\ S3Dual(service, r) = <<service, ds, r>>
  BY <1>1, DomainsAre DEF S3Dual
<1>6. /\ name \in Seq(Labels) /\ Reverse(name) = InChina(s)
      /\ d \in Seq(Labels)
      /\ Reverse(d) = InChina(Onto(<<com, aws, r, ds, service>>, b))
  <2>1. /\ name = Under(b, <<service, r>>, <<aws, com, cn>>)
        /\ d = Under(b, <<service, ds, r>>, <<aws, com, cn>>)
    BY <1>2, <1>5, Zenon
  <2>2. cn = <<"cn">>
    BY <1>1
  <2>3. /\ name \in Seq(Labels)
        /\ Reverse(name) = InChina(Onto(<<com, aws, r, service>>, b))
    BY <1>3, <1>4, <2>1, <2>2, TwoUnderChina
  <2>4. /\ d \in Seq(Labels)
        /\ Reverse(d) = InChina(Onto(<<com, aws, r, ds, service>>, b))
    BY <1>3, <1>4, <2>1, <2>2, ThreeUnderChina
  <2> QED
    BY <1>2, <2>3, <2>4, Zenon
<1>7. /\ s \in Seq(Labels) /\ Len(s) = 4 + Len(b) /\ Len(b) \in Nat
      /\ s[1] = com /\ s[2] = aws /\ s[3] = r /\ s[4] = service
  BY <1>2, <1>3, <1>4, OntoFour
<1>8. Len(s) \in {4, 5} /\ Len(s) >= 3
  BY <1>7
<1>9. S3Form(s, TRUE) = Form(s, TRUE)
  <2>1. service # S3Website
    BY DEF S3Services, S3Website
  <2> QED
    BY <1>4, <1>7, <1>8, <2>1, S3Separate
<1>10. /\ s # None /\ At(s, 2) # ds
       /\ SpliceInsert(s, 3, ds) = Onto(<<com, aws, r, ds, service>>, b)
  BY <1>2, <1>3, <1>4, MarkedBetween
<1>11. Reverse(d) = InChina(SpliceInsert(s, 3, ds))
  BY <1>6, <1>10, Zenon
<1>12. S3Rewrite(name) = d
  BY <1>1, <1>3, <1>4, <1>6, <1>7, <1>8, <1>9, <1>10, <1>11, S3InChina
<1> QED
  BY <1>2, <1>12, Zenon

(* A service that is not in the front is nowhere.                          *)
LEMMA NotOnto ==
  ASSUME NEW b, IsBucket(b), NEW x \in Labels, NEW y \in Labels,
         NEW z \in Labels, NEW s, s = Onto(<<x, y, z>>, b), NEW item,
         item[1] \in {"s3", "oss"}, x # item, y # item, z # item
  PROVE  Position(s, item) = -1
<1>1. PICK p : p = <<x, y, z>>
  OBVIOUS
<1>2. p \in Seq(Labels) /\ Len(p) = 3 /\ p[1] = x /\ p[2] = y /\ p[3] = z
  BY <1>1
<1>3. s = Onto(p, b)
  BY <1>1, Zenon
<1>4. /\ s \in Seq(Labels) /\ Len(s) = Len(p) + Len(b)
      /\ Len(b) \in Nat
      /\ \A j \in 1..Len(p) : s[j] = p[j]
  <2>1. p \in Seq(Labels)
    BY <1>2
  <2>2. s \in Seq(Labels) /\ Len(b) \in Nat
    BY <1>3, <2>1, OntoIs
  <2>3. Len(s) = Len(p) + Len(b)
    BY <1>3, <2>1, OntoIs
  <2>4. \A j \in 1..Len(p) : s[j] = p[j]
    BY <1>3, <2>1, OntoIs
  <2> QED
    BY <2>2, <2>3, <2>4
<1>5. \A j \in Len(p) + 1..Len(s) : IsPlain(s[j])
  BY <1>2, <1>3, OntoIs
<1>6. ASSUME NEW j \in 1..Len(s)
      PROVE  s[j] # item
  <2>1. CASE j \in 1..3
    <3>1. p[j] # item
      BY <1>2, <2>1
    <3> QED
      BY <1>2, <1>4, <2>1, <3>1
  <2>2. CASE j \notin 1..3
    <3>1. j \in Len(p) + 1..Len(s)
      BY <1>2, <1>4, <2>2
    <3>2. IsPlain(s[j])
      BY <1>5, <3>1, Zenon
    <3> QED
      BY <3>2 DEF IsPlain
  <2> QED
    BY <2>1, <2>2
<1>7. s \in Seq(Labels)
  BY <1>4
<1>8. Position(s, item) = -1 <=> \A j \in 1..Len(s) : s[j] # item
  BY <1>7, PositionIs
<1> QED
  BY <1>6, <1>8, Zenon

(* A region joined to its service by a dash becomes a label of its own.    *)
LEMMA S3WithRegion ==
  ASSUME NEW b, IsBucket(b), NEW r, IsRegion(r)
  PROVE  S3Rewrite(Under(b, <<<<"s3">> \o r>>, Amazon))
           = Under(b, S3Dual(<<"s3">>, r), Amazon)
<1>1. PICK com, aws, store, ds, parts :
        /\ com = <<"com">> /\ aws = <<"amazonaws">> /\ store = <<"s3">>
        /\ ds = <<"dualstack">> /\ parts = <<"s3">> \o r
  OBVIOUS
<1>2. PICK name, d : /\ name = Under(b, <<parts>>, Amazon)
                     /\ d = Under(b, S3Dual(store, r), Amazon)
  OBVIOUS
<1>3. PICK s, t, u, f : /\ s = Onto(<<com, aws, parts>>, b)
                        /\ t = Onto(<<com, aws>>, b)
                        /\ u = Onto(<<com, aws, r>>, b)
                        /\ f = Onto(<<com, aws, r, store>>, b)
  OBVIOUS
<1>4. /\ com \in Labels /\ aws \in Labels /\ store \in Labels /\ ds \in Labels
      /\ b \in Seq(Labels)
  BY <1>1, S3Words
<1>5. r \in Labels /\ Len(r) = 3 /\ r # ds
  BY <1>1, RegionIs
<1>6. parts \in Labels
  <2>1. r \in Label
    BY DEF IsRegion
  <2>2. parts \in Joined
    BY <1>1, <2>1, Zenon DEF Joined
  <2> QED
    BY <2>2, Zenon DEF Labels
<1>7. /\ Len(parts) = 4 /\ parts[1] = "s3" /\ parts[2] # "website"
      /\ Tail(parts) = r
  BY <1>1, JoinedLabel, Zenon
<1>8. Amazon = <<aws, com>> /\ S3Dual(store, r) = <<store, ds, r>>
  BY <1>1, DomainsAre DEF S3Dual
<1>9. name \in Seq(Labels) /\ Reverse(name) = s
  <2>1. name = Under(b, <<parts>>, <<aws, com>>)
    BY <1>2, <1>8, Zenon
  <2> QED
    BY <1>3, <1>4, <1>6, <2>1, OneUnder
<1>10. d \in Seq(Labels) /\ Reverse(d) = Onto(<<com, aws, r, ds, store>>, b)
  <2>1. d = Under(b, <<store, ds, r>>, <<aws, com>>)
    BY <1>2, <1>8, Zenon
  <2> QED
    BY <1>4, <1>5, <2>1, ThreeUnder
<1>11. s \in Seq(Labels) /\ s[1] = com /\ s[2] = aws /\ s[3] = parts
  BY <1>3, <1>4, <1>6, OntoThree
<1>12. Len(s) >= 3 /\ Len(s) # 5 /\ (Len(s) >= 4 => IsPlain(s[4]))
  BY <1>3, <1>4, <1>6, OntoThree
<1>13. /\ \A item \in S3Services \cup {S3Website} : Position(s, item) # 3
       /\ Len(s) >= 4 => s[4] # ds
  BY <1>1, <1>11, <1>12, PlainFourth
<1>14. Position(s, store) = -1
  <2>1. /\ com # store /\ aws # store /\ store[1] = "s3"
        /\ Len(store) = 1 /\ 4 # 1
    BY <1>1
  <2>2. parts # store
    BY <1>7, <2>1, Zenon
  <2> QED
    BY <1>3, <1>4, <1>6, <2>1, <2>2, NotOnto
<1>15. SpliceRemove(s, 2) = t
  BY <1>3, <1>4, <1>6, OntoThreeLess
<1>16. SpliceInsert(t, 2, r) = u
  BY <1>3, <1>4, <1>5, OntoTwoSplice
<1>17. SpliceInsert(u, 3, store) = f
  BY <1>3, <1>4, <1>5, OntoThreeBehind
<1>18. S3Form(s, FALSE) = Form(f, FALSE)
  <2>1. Len(s[3]) = 4 /\ s[3][1] = "s3" /\ s[3][2] # "website"
    BY <1>7, <1>11, Zenon
  <2>2. store = <<"s3">>
    BY <1>1
  <2>3. Position(s, <<"s3">>) = -1
    BY <1>14, <2>2, Zenon
  <2>4. S3Form(s, FALSE) =
          Form(SpliceInsert(SpliceInsert(SpliceRemove(s, 2), 2, Tail(s[3])),
                            3, <<"s3">>), FALSE)
    BY <1>11, <1>12, <1>13, <2>1, <2>3, S3Joined
  <2> QED
    BY <1>7, <1>11, <1>15, <1>16, <1>17, <2>2, <2>4, Zenon
<1>19. /\ f # None /\ At(f, 2) # ds
       /\ SpliceInsert(f, 3, ds) = Onto(<<com, aws, r, ds, store>>, b)
  BY <1>3, <1>4, <1>5, MarkedBetween
<1>20. Reverse(d) = SpliceInsert(f, 3, ds)
  BY <1>10, <1>19, Zenon
<1>21. S3Rewrite(name) = d
  BY <1>1, <1>9, <1>10, <1>11, <1>12, <1>13, <1>18, <1>19, <1>20, S3Marked
<1> QED
  BY <1>1, <1>2, <1>21, Zenon

(* An accelerated name, whose mark is in front of the service.             *)
LEMMA S3Fast ==
  ASSUME NEW b, IsBucket(b)
  PROVE  S3Rewrite(Under(b, <<<<"s3", "accelerate">>>>, Amazon))
           = Under(b, <<<<"s3", "accelerate">>, <<"dualstack">>>>, Amazon)
<1>1. PICK com, aws, fast, ds :
        /\ com = <<"com">> /\ aws = <<"amazonaws">>
        /\ fast = <<"s3", "accelerate">> /\ ds = <<"dualstack">>
  OBVIOUS
<1>2. PICK name, d : /\ name = Under(b, <<fast>>, Amazon)
                     /\ d = Under(b, <<fast, ds>>, Amazon)
  OBVIOUS
<1>3. PICK s, f : /\ s = Onto(<<com, aws, fast>>, b)
                  /\ f = Onto(<<com, aws, ds, fast>>, b)
  OBVIOUS
<1>4. /\ com \in Labels /\ aws \in Labels /\ fast \in Labels /\ ds \in Labels
      /\ b \in Seq(Labels)
  BY <1>1, S3Words
<1>5. Amazon = <<aws, com>>
  BY <1>1, DomainsAre
<1>6. name \in Seq(Labels) /\ Reverse(name) = s
  <2>1. name = Under(b, <<fast>>, <<aws, com>>)
    BY <1>2, <1>5, Zenon
  <2> QED
    BY <1>3, <1>4, <2>1, OneUnder
<1>7. d \in Seq(Labels) /\ Reverse(d) = f
  <2>1. d = Under(b, <<fast, ds>>, <<aws, com>>)
    BY <1>2, <1>5, Zenon
  <2> QED
    BY <1>3, <1>4, <2>1, TwoUnder
<1>8. s \in Seq(Labels) /\ s[1] = com /\ s[2] = aws /\ s[3] = fast
  BY <1>3, <1>4, OntoThree
<1>9. Len(s) >= 3 /\ Len(s) # 5 /\ (Len(s) >= 4 => IsPlain(s[4]))
  BY <1>3, <1>4, OntoThree
<1>10. Len(s) >= 4 => s[4] # ds
  BY <1>1, <1>8, <1>9, PlainFourth
<1>11. S3Form(s, FALSE) = Form(f, FALSE)
  <2>1. com # fast /\ aws # fast
    BY <1>1
  <2>2. S3Form(s, FALSE) = Form(SpliceInsert(s, 2, ds), FALSE)
    BY <1>1, <1>8, <1>9, <2>1, S3Accelerated
  <2>3. SpliceInsert(s, 2, ds) = f
    BY <1>3, <1>4, OntoThreeInside
  <2> QED
    BY <2>2, <2>3, Zenon
<1>12. f # None /\ At(f, 2) = ds
  <2>1. /\ f \in Seq(Labels) /\ Len(f) = 4 + Len(b) /\ Len(b) \in Nat
        /\ f[3] = ds
    BY <1>3, <1>4, OntoFour
  <2> QED
    BY <2>1 DEF None, At
<1>13. Reverse(d) = IF At(f, 2) = ds THEN f ELSE SpliceInsert(f, 3, ds)
  BY <1>7, <1>12, Zenon
<1>14. S3Rewrite(name) = d
  BY <1>1, <1>6, <1>7, <1>8, <1>9, <1>10, <1>11, <1>12, <1>13, S3InAmazon
<1> QED
  BY <1>1, <1>2, <1>14, Zenon

(* An endpoint whose name is rewritten to the dual-stack one.              *)
LEMMA EndpointReached ==
  ASSUME NEW name, NEW dual, S3Rewrite(name) = dual,
         NEW e, e = Endpoint("s3", name, dual)
  PROVE  e.provider = "s3" /\ S3Rewrite(e.name) = e.dual
<1>1. e.provider = "s3" /\ e.name = name /\ e.dual = dual
  BY DEF Endpoint
<1> QED
  BY <1>1, Zenon

(* A service and a region, joined by a dash.                               *)
Dashed(service, r) == <<service>> \o r

(* Every documented S3 endpoint is rewritten to its dual-stack endpoint.   *)
LEMMA S3RegionalIs ==
  ASSUME NEW services, NEW suffix, NEW e \in S3Regional(services, suffix)
  PROVE  \E b \in Single, r \in Regions, service \in services :
           e = Endpoint("s3", Under(b, <<service, r>>, suffix),
                        Under(b, S3Dual(service, r), suffix))
<1>1. S3Regional(services, suffix) =
        {Endpoint("s3", Under(b, <<service, r>>, suffix),
                  Under(b, S3Dual(service, r), suffix)) :
           b \in Single, r \in Regions, service \in services}
  BY SMT DEF S3Regional, Under
<1> QED
  BY <1>1

(* The endpoints with a region of its own are reached, under either        *)
(* suffix.                                                                 *)
LEMMA S3RegionalReached ==
  ASSUME NEW services \in SUBSET (S3Services \cup {S3Website}),
         NEW suffix \in {Amazon, China},
         S3Website \in services => suffix = Amazon,
         NEW e \in S3Regional(services, suffix)
  PROVE  e.provider = "s3" /\ S3Rewrite(e.name) = e.dual
<1>1. PICK b \in Single, r \in Regions, service \in services :
        e = Endpoint("s3", Under(b, <<service, r>>, suffix),
                     Under(b, S3Dual(service, r), suffix))
  BY S3RegionalIs
<1>2. IsBucket(b) /\ Len(b) <= 1 /\ IsRegion(r)
  BY CdnAssumption, Zenon DEF Single
<1>3. CASE suffix = Amazon
  <2>1. S3Rewrite(Under(b, <<service, r>>, Amazon))
          = Under(b, S3Dual(service, r), Amazon)
    BY <1>2, S3InRegion, Zenon
  <2>2. e = Endpoint("s3", Under(b, <<service, r>>, Amazon),
                     Under(b, S3Dual(service, r), Amazon))
    BY <1>1, <1>3, Zenon
  <2> QED
    BY <2>1, <2>2, EndpointReached
<1>4. CASE suffix # Amazon
  <2>1. service \in S3Services /\ suffix = China
    BY <1>4
  <2>2. S3Rewrite(Under(b, <<service, r>>, China))
          = Under(b, S3Dual(service, r), China)
    BY <1>2, <2>1, S3InChinese, Zenon
  <2>3. e = Endpoint("s3", Under(b, <<service, r>>, China),
                     Under(b, S3Dual(service, r), China))
    BY <1>1, <2>1, Zenon
  <2> QED
    BY <2>2, <2>3, EndpointReached
<1> QED
  BY <1>3, <1>4, Zenon

(* Every documented S3 endpoint is rewritten to its dual-stack endpoint.   *)
LEMMA S3Reaches ==
  ASSUME NEW e \in S3Endpoints
  PROVE  e.provider = "s3" /\ S3Rewrite(e.name) = e.dual
<1> DEFINE First == {Endpoint("s3", Under(b, <<<<"s3">>>>, Amazon),
                              Under(b, S3Dual(<<"s3">>, UsEast1), Amazon)) :
                       b \in Buckets}
           WithRegion == {Endpoint("s3", Under(b, <<Dashed("s3", r)>>, Amazon),
                                   Under(b, S3Dual(<<"s3">>, r), Amazon)) :
                            b \in Buckets, r \in Regions}
           InRegion == S3Regional(S3Services \cup {S3Website}, Amazon)
           Chinese == S3Regional(S3Services, China)
           Fast == {Endpoint("s3", Under(b, <<<<"s3", "accelerate">>>>, Amazon),
                             Under(b, <<<<"s3", "accelerate">>,
                                        <<"dualstack">>>>, Amazon)) :
                      b \in Buckets}
<1>1. S3Endpoints = First \cup WithRegion \cup InRegion \cup Chinese \cup Fast
  BY SMT DEF S3Endpoints, Under, Dashed
<1>2. CASE e \in First
  <2>1. PICK b \in Buckets : e = Endpoint("s3", Under(b, <<<<"s3">>>>, Amazon),
                               Under(b, S3Dual(<<"s3">>, UsEast1), Amazon))
    BY <1>2, Zenon
  <2>2. S3Rewrite(Under(b, <<<<"s3">>>>, Amazon))
          = Under(b, S3Dual(<<"s3">>, UsEast1), Amazon)
    BY CdnAssumption, S3First, Zenon
  <2> QED
    BY <2>1, <2>2, EndpointReached
<1>3. CASE e \in WithRegion
  <2>1. PICK b \in Buckets, r \in Regions :
          e = Endpoint("s3", Under(b, <<Dashed("s3", r)>>, Amazon),
                       Under(b, S3Dual(<<"s3">>, r), Amazon))
    BY <1>3, SMT
  <2>2. S3Rewrite(Under(b, <<Dashed("s3", r)>>, Amazon))
          = Under(b, S3Dual(<<"s3">>, r), Amazon)
    BY CdnAssumption, S3WithRegion, Zenon DEF Dashed
  <2> QED
    BY <2>1, <2>2, EndpointReached
<1>4. CASE e \in InRegion
  <2>1. PICK suffix, services :
          suffix = Amazon /\ services = S3Services \cup {S3Website}
    OBVIOUS
  <2>2. e \in S3Regional(services, suffix)
    BY <1>4, <2>1, Zenon
  <2>3. /\ services \in SUBSET (S3Services \cup {S3Website})
        /\ suffix \in {Amazon, China}
        /\ S3Website \in services => suffix = Amazon
    BY <2>1
  <2> QED
    BY <2>2, <2>3, S3RegionalReached, Zenon
<1>5. CASE e \in Chinese
  <2>1. PICK suffix, services : suffix = China /\ services = S3Services
    OBVIOUS
  <2>2. e \in S3Regional(services, suffix)
    BY <1>5, <2>1, Zenon
  <2>3. /\ services \in SUBSET (S3Services \cup {S3Website})
        /\ suffix \in {Amazon, China}
    BY <2>1
  <2>4. S3Website \notin services
    BY <2>1 DEF S3Services, S3Website
  <2> QED
    BY <2>2, <2>3, <2>4, S3RegionalReached, Zenon
<1>6. CASE e \in Fast
  <2>1. PICK b \in Buckets :
          e = Endpoint("s3", Under(b, <<<<"s3", "accelerate">>>>, Amazon),
                Under(b, <<<<"s3", "accelerate">>, <<"dualstack">>>>, Amazon))
    BY <1>6, Zenon
  <2>2. S3Rewrite(Under(b, <<<<"s3", "accelerate">>>>, Amazon))
          = Under(b, <<<<"s3", "accelerate">>, <<"dualstack">>>>, Amazon)
    BY CdnAssumption, S3Fast, Zenon
  <2> QED
    BY <2>1, <2>2, EndpointReached
<1> HIDE DEF First, WithRegion, InRegion, Chinese, Fast
<1>7. e \in First \/ e \in WithRegion \/ e \in InRegion \/ e \in Chinese
      \/ e \in Fast
  BY <1>1, Zenon
<1> QED
  BY <1>2, <1>3, <1>4, <1>5, <1>6, <1>7, Zenon
-------------------------------------------------------------------------------
(* A label without its first part.                                         *)
LEMMA TailTuples ==
  /\ \A a, x, y : Tail(<<a, x, y>>) = <<x, y>>
  /\ \A a, x, y, z : Tail(<<a, x, y, z>>) = <<x, y, z>>
<1>1. ASSUME NEW S, NEW v \in Seq(S), Len(v) > 1
      PROVE  /\ Tail(v) \in Seq(S) /\ Len(Tail(v)) = Len(v) - 1
             /\ \A i \in 1..Len(Tail(v)) : Tail(v)[i] = v[i + 1]
  <2>1. v # <<>>
    BY <1>1
  <2> QED
    BY <2>1, HeadTailProperties
<1>2. ASSUME NEW a, NEW x, NEW y
      PROVE  Tail(<<a, x, y>>) = <<x, y>>
  <2>1. PICK S, v, w : S = {a, x, y} /\ v = <<a, x, y>> /\ w = Tail(v)
    OBVIOUS
  <2>2. v \in Seq(S) /\ Len(v) = 3 /\ v[2] = x /\ v[3] = y
    BY <2>1
  <2>3. /\ w \in Seq(S) /\ Len(w) = 3 - 1
        /\ \A i \in 1..Len(w) : w[i] = v[i + 1]
    BY <1>1, <2>1, <2>2
  <2>4. Len(w) = 2 /\ w[1] = x /\ w[2] = y
    BY <2>2, <2>3
  <2> QED
    BY <2>1, <2>3, <2>4, AsTuple
<1>3. ASSUME NEW a, NEW x, NEW y, NEW z
      PROVE  Tail(<<a, x, y, z>>) = <<x, y, z>>
  <2>1. PICK S, v, w : S = {a, x, y, z} /\ v = <<a, x, y, z>> /\ w = Tail(v)
    OBVIOUS
  <2>2. v \in Seq(S) /\ Len(v) = 4 /\ v[2] = x /\ v[3] = y /\ v[4] = z
    BY <2>1
  <2>3. /\ w \in Seq(S) /\ Len(w) = 4 - 1
        /\ \A i \in 1..Len(w) : w[i] = v[i + 1]
    BY <1>1, <2>1, <2>2
  <2>4. Len(w) = 3 /\ w[1] = x /\ w[2] = y /\ w[3] = z
    BY <2>2, <2>3
  <2> QED
    BY <2>1, <2>3, <2>4, AsTuple
<1> QED
  BY <1>2, <1>3

(* A label that joins oss and a region by a dash, and how to take the      *)
(* region out of it.                                                       *)
LEMMA NamedIs ==
  ASSUME NEW r \in OssRegions, NEW named, named = Dashed("oss", r)
  PROVE  /\ named \in Labels /\ Len(named) > 2
         /\ Head(named) = "oss" /\ Tail(named) = r
<1>1. named \in Labels
  <2>1. named \in Joined
    BY Zenon DEF Joined, Dashed
  <2> QED
    BY <2>1, Zenon DEF Labels
<1>2. ASSUME NEW x, NEW y, r = <<x, y>>
      PROVE  Len(named) > 2 /\ Head(named) = "oss" /\ Tail(named) = r
  <2>1. named = <<"oss", x, y>>
    BY <1>2, JoinTuples DEF Dashed
  <2>2. Len(named) = 3 /\ Head(named) = "oss"
    BY <2>1
  <2>3. Tail(named) = r
    <3>1. Tail(<<"oss", x, y>>) = <<x, y>>
      BY TailTuples
    <3> QED
      BY <1>2, <2>1, <3>1, Zenon
  <2> QED
    BY <2>2, <2>3
<1>3. ASSUME NEW x, NEW y, NEW z, r = <<x, y, z>>
      PROVE  Len(named) > 2 /\ Head(named) = "oss" /\ Tail(named) = r
  <2>1. named = <<"oss", x, y, z>>
    BY <1>3, JoinTuples DEF Dashed
  <2>2. Len(named) = 4 /\ Len(named) > 2 /\ Head(named) = "oss"
    BY <2>1
  <2>3. Tail(named) = r
    <3>1. Tail(<<"oss", x, y, z>>) = <<x, y, z>>
      BY TailTuples
    <3> QED
      BY <1>3, <2>1, <3>1, Zenon
  <2> QED
    BY <2>2, <2>3
<1>4. (\E x, y : r = <<x, y>>) \/ \E x, y, z : r = <<x, y, z>>
  BY Zenon DEF OssRegions
<1> QED
  BY <1>1, <1>2, <1>3, <1>4, Zenon

(* No label is empty, so that name_from_labels makes a name of them.       *)
LEMMA NameOfLabels ==
  ASSUME NEW d \in Seq(Labels)
  PROVE  NameFromLabels(d) = d
<1>1. EmptyLabel \notin Label
  BY DEF Label
<1>2. EmptyLabel \notin Words \cup OssRegions
  BY DEF Words, OssRegions, EmptyLabel, S3Website, UsEast1
<1>3. ASSUME NEW r \in Label, IsRegion(r)
      PROVE  <<"s3">> \o r # EmptyLabel
  <2>1. Len(<<"s3">> \o r) = 4 /\ Len(EmptyLabel) = 1 /\ 4 # 1
    BY <1>3, JoinedLabel DEF EmptyLabel
  <2> QED
    BY <2>1, Zenon
<1>4. ASSUME NEW r \in OssRegions
      PROVE  <<"oss">> \o r # EmptyLabel
  <2>1. Len(Dashed("oss", r)) > 2 /\ Len(EmptyLabel) = 1 /\ ~(1 > 2)
    BY NamedIs DEF EmptyLabel
  <2> QED
    BY <2>1, Zenon DEF Dashed
<1>5. EmptyLabel \notin Joined
  <2>1. EmptyLabel \notin {<<"s3">> \o r : r \in {r \in Label : IsRegion(r)}}
    BY <1>3, Zenon
  <2>2. EmptyLabel \notin {<<"oss">> \o r : r \in OssRegions}
    BY <1>4, Zenon
  <2> QED
    BY <2>1, <2>2, Zenon DEF Joined
<1>6. EmptyLabel \notin Labels
  BY <1>1, <1>2, <1>5, Zenon DEF Labels
<1>7. EmptyLabel \notin ToSet(d)
  BY <1>6, NotInSeq
<1> QED
  BY <1>7 DEF NameFromLabels

(* A search in vain.                                                       *)
LEMMA NotAmong ==
  ASSUME NEW S, NEW s \in Seq(S), NEW item,
         \A j \in 1..Len(s) : s[j] # item
  PROVE  Position(s, item) = -1
BY PositionIs

(* The labels of a concatenation.                                          *)
LEMMA JoinIs ==
  ASSUME NEW S, NEW p \in Seq(S), NEW q \in Seq(S), NEW w, w = p \o q
  PROVE  /\ w \in Seq(S) /\ Len(w) = Len(p) + Len(q)
         /\ \A j \in 1..Len(p) + Len(q) :
              w[j] = IF j <= Len(p) THEN p[j] ELSE q[j - Len(p)]
BY ConcatProperties

(* A name is rewritten to the one whose labels oss_rewrite leaves.         *)
LEMMA OssReturns ==
  ASSUME NEW name \in Seq(Labels), NEW d \in Seq(Labels),
         NEW s \in Seq(Labels), s = Reverse(name), OssDomain(s),
         Reverse(d) = OssBody(s)
  PROVE  OssRewrite(name) = d
<1>1. OssMatches(s) /\ Position(s, <<"aliyun", "inc">>) # 1
  BY OssDomainIs
<1>2. OssRewrite(name) = NameFromLabels(Reverse(OssBody(s)))
  BY <1>1, Zenon DEF OssRewrite
<1>3. Reverse(OssBody(s)) = d
  BY ReverseIs
<1> QED
  BY <1>2, <1>3, NameOfLabels, Zenon

(* Splices of short names.                                                 *)
LEMMA OssSplices ==
  /\ \A a, b, c, x : SpliceReplace(<<a, b, c>>, 2, x) = <<a, b, x>>
  /\ \A a, b, c, d, x : SpliceReplace(<<a, b, c, d>>, 3, x) = <<a, b, c, x>>
  /\ \A a, b, c, d : SpliceRemove(<<a, b, c, d>>, 3) = <<a, b, c>>
<1>1. ASSUME NEW a, NEW b, NEW c, NEW x
      PROVE  SpliceReplace(<<a, b, c>>, 2, x) = <<a, b, x>>
  BY DEF SpliceReplace, ReplaceAt
<1>2. ASSUME NEW a, NEW b, NEW c, NEW d, NEW x
      PROVE  SpliceReplace(<<a, b, c, d>>, 3, x) = <<a, b, c, x>>
  BY DEF SpliceReplace, ReplaceAt
<1>3. ASSUME NEW a, NEW b, NEW c, NEW d
      PROVE  SpliceRemove(<<a, b, c, d>>, 3) = <<a, b, c>>
  <2>1. PICK v, w, S : /\ v = <<a, b, c, d>> /\ w = SpliceRemove(v, 3)
                       /\ S = {a, b, c, d}
    OBVIOUS
  <2>2. v \in Seq(S) /\ Len(v) = 4
    BY <2>1
  <2>3. w \in Seq(S) /\ Removed(w, v, 3)
    BY <2>1, <2>2, SpliceRemoveIs
  <2>4. Len(w) = 3 /\ w[1] = v[1] /\ w[2] = v[2] /\ w[3] = v[3]
    BY <2>2, <2>3 DEF Removed
  <2>5. v[1] = a /\ v[2] = b /\ v[3] = c
    BY <2>1
  <2> QED
    BY <2>1, <2>3, <2>4, <2>5, AsTuple
<1> QED
  BY <1>1, <1>2, <1>3

(* A bucket of at most one label.                                          *)
LEMMA SingleIs ==
  ASSUME NEW b, IsBucket(b), Len(b) <= 1
  PROVE  b = <<>> \/ \E l : IsPlain(l) /\ b = <<l>>
<1>1. b \in Seq(Label) /\ Len(b) \in {0, 1}
  <2>1. PICK n : n = Len(b)
    OBVIOUS
  <2>2. b \in Seq(Label) /\ n \in Nat
    BY <2>1, BucketIs
  <2> QED
    BY <2>1, <2>2
<1>2. CASE Len(b) = 0
  BY <1>1, <1>2
<1>3. CASE Len(b) = 1
  <2>1. 1 \in 1..Len(b)
    BY <1>3
  <2>2. IsPlain(b[1])
    BY <2>1, BucketIs, Zenon
  <2>3. b = <<b[1]>>
    BY <1>1, <1>3
  <2> QED
    BY <2>2, <2>3, Zenon
<1> QED
  BY <1>1, <1>2, <1>3

(* The labels of OSS endpoints.                                            *)
LEMMA OssWords ==
  /\ <<"com">> \in Labels /\ <<"aliyuncs">> \in Labels /\ <<"oss">> \in Labels
  /\ <<"aliyun", "inc">> \in Labels /\ <<"cn", "hangzhou">> \in Labels
  /\ \A r \in OssRegions : r \in Labels
  /\ \A l : IsPlain(l) => l \in Labels /\ l # <<"oss">>
BY DEF Labels, Words, IsPlain

(* The native endpoint of a region, without a bucket: reversed, and as the *)
(* labels of its name.                                                     *)
LEMMA NativeName ==
  ASSUME NEW r \in Labels, NEW d, d = <<r>> \o Oss
  PROVE  /\ d \in Seq(Labels)
         /\ Reverse(d) = <<<<"com">>, <<"aliyuncs">>, <<"oss">>, r>>
<1>1. PICK com, ali, oss :
        com = <<"com">> /\ ali = <<"aliyuncs">> /\ oss = <<"oss">>
  OBVIOUS
<1>2. com \in Labels /\ ali \in Labels /\ oss \in Labels
  BY <1>1, OssWords
<1>3. Oss = <<oss, ali, com>>
  BY <1>1, DomainsAre
<1>4. <<r>> \o <<oss, ali, com>> = <<r, oss, ali, com>>
  BY JoinTuples
<1>5. d = <<r, oss, ali, com>>
  BY <1>3, <1>4, Zenon
<1>6. Reverse(<<r, oss, ali, com>>) = <<com, ali, oss, r>>
  BY ReverseTuples
<1>7. <<r, oss, ali, com>> \in Seq(Labels)
  BY <1>2
<1> QED
  BY <1>1, <1>5, <1>6, <1>7, Zenon

(* A region joined to oss by a dash comes to stand behind it; a bucket in  *)
(* front is dropped.                                                       *)
LEMMA OssNamedBody ==
  ASSUME NEW r \in OssRegions, NEW named, named = Dashed("oss", r),
         NEW com, com = <<"com">>, NEW ali, ali = <<"aliyuncs">>,
         NEW oss, oss = <<"oss">>, NEW s,
         \/ s = <<com, ali, named>>
         \/ \E l : IsPlain(l) /\ s = <<com, ali, named, l>>
  PROVE  s \in Seq(Labels) /\ OssDomain(s) /\ OssBody(s) = <<com, ali, oss, r>>
<1>1. /\ com \in Labels /\ ali \in Labels /\ oss \in Labels
      /\ \A l : IsPlain(l) => l \in Labels /\ l # oss
  BY OssWords
<1>2. /\ named \in Labels /\ Len(named) > 2 /\ Head(named) = "oss"
      /\ Tail(named) = r
  BY NamedIs
<1>3. named # oss
  <2>1. Len(oss) = 1 /\ ~(1 > 2)
    OBVIOUS
  <2> QED
    BY <1>2, <2>1, Zenon
<1>4. /\ s \in Seq(Labels) /\ Len(s) \in {3, 4}
      /\ s[1] = com /\ s[2] = ali /\ s[3] = named
      /\ Len(s) = 4 => s[4] # oss
  <2>1. CASE s = <<com, ali, named>>
    BY <1>1, <1>2, <2>1
  <2>2. ASSUME NEW l, IsPlain(l), s = <<com, ali, named, l>>
        PROVE  /\ s \in Seq(Labels) /\ Len(s) = 4
               /\ s[1] = com /\ s[2] = ali /\ s[3] = named /\ s[4] # oss
    BY <1>1, <1>2, <2>2
  <2> QED
    BY <2>1, <2>2
<1>5. OssDomain(s)
  BY <1>4 DEF OssDomain
<1>6. ~IsNative(s)
  BY <1>3, <1>4, <1>5, OssDomainIs
<1>7. OssLoc(s) = 2 /\ At(s, 2) = named
  BY <1>4, <1>6 DEF OssLoc, At
<1>8. IsNamed(s) /\ OssListed(s) = r
  BY <1>2, <1>7, Zenon DEF IsNamed, OssListed
<1>9. OssRegion(s) = r /\ r # <<>>
  BY <1>6, <1>8 DEF OssRegion, OssRegions
<1>10. Len(s) = 4 => Position(s, oss) = -1
  <2>1. ASSUME Len(s) = 4, NEW j \in 1..Len(s)
        PROVE  s[j] # oss
    <3>1. com # oss /\ ali # oss
      OBVIOUS
    <3>2. 1..4 = {1, 2, 3, 4}
      OBVIOUS
    <3>3. j \in {1, 2, 3, 4}
      BY <2>1, <3>2, Zenon
    <3>4. s[1] # oss /\ s[2] # oss /\ s[3] # oss /\ s[4] # oss
      BY <1>3, <1>4, <2>1, <3>1, Zenon
    <3> QED
      BY <3>3, <3>4, Zenon
  <2>2. s \in Seq(Labels)
    BY <1>4
  <2> QED
    BY <2>1, <2>2, NotAmong, Zenon
<1>11. PICK body : body = IF Len(s) = 4 /\ Position(s, <<"oss">>) = -1
                          THEN SpliceRemove(s, 3) ELSE s
  OBVIOUS
<1>12. body = <<com, ali, named>>
  <2>1. CASE s = <<com, ali, named>>
    <3>1. Len(s) = 3 /\ 3 # 4
      BY <2>1
    <3> QED
      BY <1>11, <2>1, <3>1, Zenon
  <2>2. CASE \E l : IsPlain(l) /\ s = <<com, ali, named, l>>
    <3>1. PICK l : s = <<com, ali, named, l>>
      BY <2>2
    <3>2. Len(s) = 4
      BY <3>1
    <3>3. body = SpliceRemove(s, 3)
      BY <1>10, <1>11, <3>2, Zenon
    <3>4. SpliceRemove(<<com, ali, named, l>>, 3) = <<com, ali, named>>
      BY OssSplices
    <3> QED
      BY <3>1, <3>3, <3>4, Zenon
  <2> QED
    BY <2>1, <2>2, Zenon
<1>13. SpliceReplace(body, 2, r) = <<com, ali, r>>
  <2>1. SpliceReplace(<<com, ali, named>>, 2, r) = <<com, ali, r>>
    BY OssSplices
  <2> QED
    BY <1>12, <2>1, Zenon
<1>14. SpliceInsert(<<com, ali, r>>, 2, oss) = <<com, ali, oss, r>>
  BY SpliceTuples
<1>15. OssBody(s) = SpliceInsert(SpliceReplace(body, 2, r), 2, <<"oss">>)
  BY <1>7, <1>8, <1>9, <1>11, Zenon DEF OssBody
<1> QED
  BY <1>4, <1>5, <1>13, <1>14, <1>15, Zenon

(* An endpoint without a region is Hangzhou's.                             *)
LEMMA OssBareBody ==
  ASSUME NEW com, com = <<"com">>, NEW ali, ali = <<"aliyuncs">>,
         NEW oss, oss = <<"oss">>, NEW home, home = <<"cn", "hangzhou">>,
         NEW s,
         \/ s = <<com, ali, oss>>
         \/ \E l : IsPlain(l) /\ Len(l) <= 2 /\ s = <<com, ali, oss, l>>
  PROVE  /\ s \in Seq(Labels) /\ OssDomain(s)
         /\ OssBody(s) = <<com, ali, oss, home>>
<1>1. /\ com \in Labels /\ ali \in Labels /\ oss \in Labels /\ home \in Labels
      /\ \A l : IsPlain(l) => l \in Labels
  BY OssWords
<1>2. /\ s \in Seq(Labels) /\ Len(s) \in {3, 4}
      /\ s[1] = com /\ s[2] = ali /\ s[3] = oss
  <2>1. CASE s = <<com, ali, oss>>
    BY <1>1, <2>1
  <2>2. ASSUME NEW l, IsPlain(l), s = <<com, ali, oss, l>>
        PROVE  /\ s \in Seq(Labels) /\ Len(s) = 4
               /\ s[1] = com /\ s[2] = ali /\ s[3] = oss
    BY <1>1, <2>2
  <2> QED
    BY <2>1, <2>2
<1>3. OssDomain(s)
  BY <1>2 DEF OssDomain
<1>4. IsNative(s)
  BY <1>2, <1>3, OssDomainIs
<1>5. Position(s, oss) # -1
  BY <1>4 DEF IsNative
<1>6. ASSUME NEW p, NEW T, p \in Seq(T), Len(p) <= 2
      PROVE  InHangzhou(p) = home
  <2>1. SubSeq(p, 3, Len(p)) = <<>>
    BY <1>6
  <2>2. PICK S : S = {"cn", "hangzhou"}
    OBVIOUS
  <2>3. home \in Seq(S)
    BY <2>2
  <2>4. home \o <<>> = home
    BY <2>3, ConcatEmptySeq
  <2> QED
    BY <2>1, <2>4, Zenon DEF InHangzhou
<1>7. CASE s = <<com, ali, oss>>
  <2>1. Len(s) = 3 /\ ~(3 > 3) /\ 3 # 4
    BY <1>7
  <2>2. OssLoc(s) = 2 /\ At(s, 2) = oss
    BY <1>2, <2>1 DEF OssLoc, At
  <2>3. Head(oss) = "oss" /\ Tail(oss) = <<>>
    OBVIOUS
  <2>4. IsNamed(s) /\ OssListed(s) = <<>>
    BY <2>2, <2>3, Zenon DEF IsNamed, OssListed
  <2>5. <<>> \notin OssRegions /\ home # <<>>
    BY DEF OssRegions
  <2>6. InHangzhou(<<>>) = home
    <3>1. <<>> \in Seq({}) /\ Len(<<>>) <= 2
      OBVIOUS
    <3> QED
      BY <1>6, <3>1
  <2>7. OssRegion(s) = home
    BY <1>4, <2>4, <2>5, <2>6, Zenon DEF OssRegion
  <2>8. OssBody(s) = SpliceInsert(SpliceReplace(s, 2, home), 2, <<"oss">>)
    BY <2>1, <2>2, <2>4, <2>5, <2>7, Zenon DEF OssBody
  <2>9. SpliceReplace(<<com, ali, oss>>, 2, home) = <<com, ali, home>>
    BY OssSplices
  <2>10. SpliceInsert(<<com, ali, home>>, 2, oss) = <<com, ali, oss, home>>
    BY SpliceTuples
  <2> QED
    BY <1>2, <1>3, <1>7, <2>8, <2>9, <2>10, Zenon
<1>8. ASSUME NEW l, IsPlain(l), Len(l) <= 2, s = <<com, ali, oss, l>>
      PROVE  OssBody(s) = <<com, ali, oss, home>>
  <2>1. Len(s) = 4 /\ 4 > 3 /\ s[4] = l
    BY <1>8
  <2>2. OssLoc(s) = 3 /\ At(s, 3) = l
    BY <1>4, <2>1 DEF OssLoc, At
  <2>3. Head(l) # "oss" /\ l \notin OssRegions /\ l \in Label
    BY <1>8 DEF IsPlain
  <2>4. ~IsNamed(s) /\ OssListed(s) = l
    BY <2>2, <2>3, Zenon DEF IsNamed, OssListed
  <2>5. InHangzhou(l) = home /\ home # <<>>
    BY <1>6, <1>8, <2>3, LabelIs
  <2>6. OssRegion(s) = home
    BY <1>4, <2>3, <2>4, <2>5, Zenon DEF OssRegion
  <2>7. OssBody(s) = SpliceReplace(s, 3, home)
    BY <1>5, <2>2, <2>4, <2>5, <2>6, Zenon DEF OssBody
  <2>8. SpliceReplace(<<com, ali, oss, l>>, 3, home) = <<com, ali, oss, home>>
    BY OssSplices
  <2> QED
    BY <1>8, <2>7, <2>8, Zenon
<1> QED
  BY <1>2, <1>3, <1>7, <1>8, Zenon

(* The endpoint without a region, in front of it at most one short label.  *)
LEMMA OssBare ==
  ASSUME NEW b, IsBucket(b), Len(b) <= 1,
         \A label \in ToSet(b) : Len(label) <= 2
  PROVE  OssRewrite(b \o Oss) = <<<<"cn", "hangzhou">>>> \o Oss
<1>1. PICK com, ali, oss, home :
        /\ com = <<"com">> /\ ali = <<"aliyuncs">> /\ oss = <<"oss">>
        /\ home = <<"cn", "hangzhou">>
  OBVIOUS
<1>2. PICK name, d : name = b \o Oss /\ d = <<home>> \o Oss
  OBVIOUS
<1>3. /\ com \in Labels /\ ali \in Labels /\ oss \in Labels /\ home \in Labels
      /\ \A l : IsPlain(l) => l \in Labels
  BY <1>1, OssWords
<1>4. d \in Seq(Labels) /\ Reverse(d) = <<com, ali, oss, home>>
  BY <1>1, <1>2, <1>3, NativeName
<1>5. Oss = <<oss, ali, com>>
  BY <1>1, DomainsAre
<1>6. ASSUME NEW s, Reverse(name) = s, name \in Seq(Labels),
             \/ s = <<com, ali, oss>>
             \/ \E l : IsPlain(l) /\ Len(l) <= 2 /\ s = <<com, ali, oss, l>>
      PROVE  OssRewrite(name) = d
  <2>1. /\ s \in Seq(Labels) /\ OssDomain(s)
        /\ OssBody(s) = <<com, ali, oss, home>>
    BY <1>1, <1>6, OssBareBody
  <2>2. Reverse(d) = OssBody(s)
    BY <1>4, <2>1, Zenon
  <2> QED
    BY <1>4, <1>6, <2>1, <2>2, OssReturns
<1>7. CASE b = <<>>
  <2>1. <<oss, ali, com>> \in Seq(Labels)
    BY <1>3
  <2>2. <<>> \o <<oss, ali, com>> = <<oss, ali, com>>
    BY <2>1, ConcatEmptySeq
  <2>3. name = <<oss, ali, com>>
    BY <1>2, <1>5, <1>7, <2>2, Zenon
  <2>4. Reverse(<<oss, ali, com>>) = <<com, ali, oss>>
    BY ReverseTuples
  <2> QED
    BY <1>1, <1>2, <1>6, <2>1, <2>3, <2>4, Zenon
<1>8. ASSUME NEW l, IsPlain(l), b = <<l>>
      PROVE  OssRewrite(name) = d
  <2>1. Len(l) <= 2
    <3>1. l \in ToSet(b)
      BY <1>8 DEF ToSet
    <3> QED
      BY <3>1
  <2>2. <<l>> \o <<oss, ali, com>> = <<l, oss, ali, com>>
    BY JoinTuples
  <2>3. name = <<l, oss, ali, com>>
    BY <1>2, <1>5, <1>8, <2>2, Zenon
  <2>4. Reverse(<<l, oss, ali, com>>) = <<com, ali, oss, l>>
    BY ReverseTuples
  <2>5. <<l, oss, ali, com>> \in Seq(Labels)
    BY <1>3, <1>8
  <2> QED
    BY <1>6, <1>8, <2>1, <2>3, <2>4, <2>5, Zenon
<1>9. OssRewrite(name) = d
  BY <1>1, <1>2, <1>7, <1>8, SingleIs, Zenon
<1> QED
  BY <1>1, <1>2, <1>9, Zenon

(* The endpoint of a region that is joined to oss by a dash.               *)
LEMMA OssNamed ==
  ASSUME NEW b, IsBucket(b), Len(b) <= 1, NEW r \in OssRegions
  PROVE  OssRewrite(Under(b, <<Dashed("oss", r)>>, Aliyun)) = <<r>> \o Oss
<1>1. PICK com, ali, oss, named :
        /\ com = <<"com">> /\ ali = <<"aliyuncs">> /\ oss = <<"oss">>
        /\ named = Dashed("oss", r)
  OBVIOUS
<1>2. PICK name, d : name = Under(b, <<named>>, Aliyun) /\ d = <<r>> \o Oss
  OBVIOUS
<1>3. /\ com \in Labels /\ ali \in Labels /\ oss \in Labels
      /\ \A l : IsPlain(l) => l \in Labels
  BY <1>1, OssWords
<1>4. r \in Labels /\ named \in Labels
  BY <1>1, NamedIs, OssWords
<1>5. d \in Seq(Labels) /\ Reverse(d) = <<com, ali, oss, r>>
  BY <1>1, <1>2, <1>4, NativeName
<1>6. name = Under(b, <<named>>, <<ali, com>>)
  <2>1. Aliyun = <<ali, com>>
    BY <1>1, DomainsAre
  <2> QED
    BY <1>2, <2>1, Zenon
<1>7. ASSUME NEW s, Reverse(name) = s, name \in Seq(Labels),
             \/ s = <<com, ali, named>>
             \/ \E l : IsPlain(l) /\ s = <<com, ali, named, l>>
      PROVE  OssRewrite(name) = d
  <2>1. s \in Seq(Labels) /\ OssDomain(s) /\ OssBody(s) = <<com, ali, oss, r>>
    BY <1>1, <1>7, OssNamedBody
  <2>2. Reverse(d) = OssBody(s)
    BY <1>5, <2>1, Zenon
  <2> QED
    BY <1>5, <1>7, <2>1, <2>2, OssReturns
<1>8. ASSUME b = <<>>
      PROVE  OssRewrite(name) = d
  <2>1. /\ <<named>> \in Seq(Labels) /\ <<named, ali, com>> \in Seq(Labels)
    BY <1>3, <1>4
  <2>2. <<>> \o <<named>> = <<named>>
    BY <2>1, ConcatEmptySeq
  <2>3. <<named>> \o <<ali, com>> = <<named, ali, com>>
    BY JoinTuples
  <2>4. name = <<named, ali, com>>
    BY <1>6, <1>8, <2>2, <2>3, Zenon DEF Under
  <2>5. Reverse(<<named, ali, com>>) = <<com, ali, named>>
    BY ReverseTuples
  <2> QED
    BY <1>7, <2>1, <2>4, <2>5, Zenon
<1>9. ASSUME NEW l, IsPlain(l), b = <<l>>
      PROVE  OssRewrite(name) = d
  <2>1. <<l>> \o <<named>> = <<l, named>>
    BY JoinTuples
  <2>2. <<l, named>> \o <<ali, com>> = <<l, named, ali, com>>
    BY JoinTuples
  <2>3. name = <<l, named, ali, com>>
    BY <1>6, <1>9, <2>1, <2>2, Zenon DEF Under
  <2>4. Reverse(<<l, named, ali, com>>) = <<com, ali, named, l>>
    BY ReverseTuples
  <2>5. <<l, named, ali, com>> \in Seq(Labels)
    BY <1>3, <1>4, <1>9
  <2> QED
    BY <1>7, <1>9, <2>3, <2>4, <2>5, Zenon
<1>10. b = <<>> \/ \E l : IsPlain(l) /\ b = <<l>>
  BY SingleIs
<1>11. OssRewrite(name) = d
  BY <1>8, <1>9, <1>10, Zenon
<1> QED
  BY <1>1, <1>2, <1>11, Zenon

(* A native name under the other domain of the provider comes under this.  *)
LEMMA OntoFourReplace ==
  ASSUME NEW b, IsBucket(b), NEW x \in Labels, NEW y \in Labels,
         NEW z \in Labels, NEW w \in Labels, NEW v \in Labels,
         NEW s, s = Onto(<<x, y, z, w>>, b)
  PROVE  SpliceReplace(s, 1, v) = Onto(<<x, v, z, w>>, b)
<1>1. PICK t, a, u : /\ t = Onto(<<x, v, z, w>>, b) /\ a = s
                     /\ u = SpliceReplace(a, 1, v)
  OBVIOUS
<1>2. PICK p, q : p = <<x, y, z, w>> /\ q = <<x, v, z, w>>
  OBVIOUS
<1>3. /\ p \in Seq(Labels) /\ q \in Seq(Labels) /\ Len(p) = 4 /\ Len(q) = 4
      /\ q[2] = v /\ \A j \in 1..4 : j # 2 => p[j] = q[j]
  BY <1>2
<1>4. PICK r : r = Reverse(b)
  OBVIOUS
<1>5. r \in Seq(Labels) /\ Len(r) \in Nat
  <2>1. b \in Seq(Labels)
    BY S3Words
  <2>2. Reverse(b) \in Seq(Labels)
    BY <2>1, ReverseIs
  <2>3. r \in Seq(Labels)
    BY <1>4, <2>2, Zenon
  <2> QED
    BY <2>3, LenProperties
<1>6. a = p \o r /\ t = q \o r
  BY <1>1, <1>2, <1>4, Zenon DEF Onto
<1>7. /\ a \in Seq(Labels) /\ Len(a) = Len(p) + Len(r)
      /\ \A j \in 1..Len(p) + Len(r) :
           a[j] = IF j <= Len(p) THEN p[j] ELSE r[j - Len(p)]
  <2>1. p \in Seq(Labels) /\ r \in Seq(Labels) /\ a = p \o r
    BY <1>3, <1>5, <1>6
  <2> QED
    BY <2>1, JoinIs
<1>8. /\ t \in Seq(Labels) /\ Len(t) = Len(q) + Len(r)
      /\ \A j \in 1..Len(q) + Len(r) :
           t[j] = IF j <= Len(q) THEN q[j] ELSE r[j - Len(q)]
  <2>1. q \in Seq(Labels) /\ r \in Seq(Labels) /\ t = q \o r
    BY <1>3, <1>5, <1>6
  <2> QED
    BY <2>1, JoinIs
<1>9. u \in Seq(Labels) /\ Replaced(u, a, 1, v)
  <2>1. 1 \in 0..Len(a)
    BY <1>3, <1>5, <1>7
  <2> QED
    BY <1>1, <1>7, <2>1, SpliceReplaceIs
<1>10. PICK n, m : n = Len(a) /\ m = Len(r)
  OBVIOUS
<1>11. /\ m \in Nat /\ n = 4 + m
       /\ \A j \in 1..n : a[j] = IF j <= 4 THEN p[j] ELSE r[j - 4]
       /\ Len(t) = n
       /\ \A j \in 1..n : t[j] = IF j <= 4 THEN q[j] ELSE r[j - 4]
  BY <1>3, <1>5, <1>7, <1>8, <1>10
<1>12. /\ Len(u) = Len(a) /\ u[2] = v
       /\ \A j \in 1..n : j # 2 => u[j] = a[j]
  <2>1. 1 < Len(a) /\ 1 + 1 = 2
    BY <1>10, <1>11
  <2> QED
    BY <1>9, <1>10, <2>1 DEF Replaced
<1>13. ASSUME NEW j \in 1..n
       PROVE  u[j] = t[j]
  <2>1. CASE j = 2
    BY <1>3, <1>11, <1>12, <2>1
  <2>2. CASE j # 2 /\ j <= 4
    <3>1. u[j] = a[j]
      BY <1>12, <2>2
    <3>2. a[j] = p[j] /\ t[j] = q[j]
      BY <1>11, <2>2
    <3>3. j \in 1..4
      BY <1>11, <2>2
    <3>4. p[j] = q[j]
      BY <1>3, <2>2, <3>3, Zenon
    <3> QED
      BY <3>1, <3>2, <3>4, Zenon
  <2>3. CASE ~(j <= 4)
    <3>1. j # 2
      BY <1>11, <2>3
    <3>2. u[j] = a[j]
      BY <1>12, <3>1, Zenon
    <3>3. a[j] = r[j - 4] /\ t[j] = r[j - 4]
      BY <1>11, <2>3
    <3> QED
      BY <3>2, <3>3, Zenon
  <2> QED
    BY <2>1, <2>2, <2>3
<1>14. u = t
  BY <1>8, <1>9, <1>12, <1>13, <1>10, <1>11, SeqEqual
<1> QED
  BY <1>1, <1>14, Zenon

(* A label in front of a suffix of three.                                  *)
LEMMA OneUnderThree ==
  ASSUME NEW S, NEW b \in Seq(S), NEW u \in S, NEW v \in S, NEW w \in S,
         NEW x \in S, NEW name, name = Under(b, <<x>>, <<u, v, w>>)
  PROVE  name \in Seq(S) /\ Reverse(name) = Onto(<<w, v, u, x>>, b)
<1>1. <<u, v, w>> \in Seq(S) /\ <<x>> \in Seq(S)
  OBVIOUS
<1>2. Back(<<x>>, <<u, v, w>>) = <<w, v, u, x>>
  <2>1. <<x>> \o <<u, v, w>> = <<x, u, v, w>>
    BY JoinTuples
  <2>2. Reverse(<<x, u, v, w>>) = <<w, v, u, x>>
    BY ReverseTuples
  <2> QED
    BY <2>1, <2>2, Zenon DEF Back
<1> QED
  BY <1>1, <1>2, UnderIs

(* What is matched under either domain, and continues under the first.     *)
LEMMA OssUnderEither ==
  ASSUME NEW name \in Seq(Labels), NEW d \in Seq(Labels),
         NEW s \in Seq(Labels), s = Reverse(name), Len(s) > 2,
         s[1] = <<"com">>, s[2] \in {<<"aliyuncs">>, <<"aliyun", "inc">>},
         NEW t \in Seq(Labels),
         t = IF s[2] = <<"aliyuncs">> THEN s
             ELSE SpliceReplace(s, 1, <<"aliyuncs">>),
         Reverse(d) = OssBody(t)
  PROVE  OssRewrite(name) = d
<1>1. PICK ali, inc : ali = <<"aliyuncs">> /\ inc = <<"aliyun", "inc">>
  OBVIOUS
<1>2. Len(s) >= 3 /\ ali # inc /\ s[1] # ali /\ s[1] # inc
  BY <1>1
<1>3. /\ Position(s, <<"com">>) = 0
      /\ Position(s, ali) = 1 <=> s[2] = ali
      /\ Position(s, inc) = 1 <=> s[2] = inc
  BY <1>2, EarlyPosition
<1>4. OssMatches(s)
  BY <1>1, <1>3 DEF OssMatches
<1>5. t = IF Position(s, <<"aliyun", "inc">>) = 1
          THEN SpliceReplace(s, 1, <<"aliyuncs">>) ELSE s
  BY <1>1, <1>2, <1>3, Zenon
<1>6. OssRewrite(name) = NameFromLabels(Reverse(OssBody(t)))
  BY <1>4, <1>5, Zenon DEF OssRewrite
<1>7. Reverse(OssBody(t)) = d
  BY ReverseIs
<1> QED
  BY <1>6, <1>7, NameOfLabels, Zenon

(* A bucket before a region, under either domain.                          *)
LEMMA OssNative ==
  ASSUME NEW b, IsBucket(b), NEW r \in OssRegions,
         NEW suffix \in {Aliyun, AliyunInc}
  PROVE  OssRewrite(Under(b, <<r, <<"oss">>>>, suffix)) = Under(b, <<r>>, Oss)
<1>1. PICK com, ali, inc, oss :
        /\ com = <<"com">> /\ ali = <<"aliyuncs">> /\ inc = <<"aliyun", "inc">>
        /\ oss = <<"oss">>
  OBVIOUS
<1>2. PICK name, d : /\ name = Under(b, <<r, oss>>, suffix)
                     /\ d = Under(b, <<r>>, Oss)
  OBVIOUS
<1>3. /\ com \in Labels /\ ali \in Labels /\ inc \in Labels /\ oss \in Labels
      /\ r \in Labels /\ b \in Seq(Labels)
  BY <1>1, OssWords, S3Words
<1>4. PICK domain : domain \in {ali, inc} /\ suffix = <<domain, com>>
  BY <1>1, DomainsAre DEF AliyunInc
<1>5. PICK s, t : /\ s = Onto(<<com, domain, oss, r>>, b)
                  /\ t = Onto(<<com, ali, oss, r>>, b)
  OBVIOUS
<1>6. domain \in Labels
  BY <1>3, <1>4
<1>7. name \in Seq(Labels) /\ Reverse(name) = s
  <2>1. name = Under(b, <<r, oss>>, <<domain, com>>)
    BY <1>2, <1>4, Zenon
  <2> QED
    BY <1>3, <1>5, <1>6, <2>1, TwoUnder
<1>8. d \in Seq(Labels) /\ Reverse(d) = t
  <2>1. Oss = <<oss, ali, com>>
    BY <1>1, DomainsAre
  <2>2. d = Under(b, <<r>>, <<oss, ali, com>>)
    BY <1>2, <2>1, Zenon
  <2> QED
    BY <1>3, <1>5, <2>2, OneUnderThree
<1>9. /\ s \in Seq(Labels) /\ Len(s) > 3 /\ s[1] = com /\ s[2] = domain
  BY <1>3, <1>5, <1>6, OntoFour
<1>10. /\ t \in Seq(Labels) /\ Len(t) > 3 /\ t[1] = com /\ t[2] = ali
       /\ t[3] = oss /\ t[4] = r
  BY <1>3, <1>5, OntoFour
<1>11. OssBody(t) = t
  <2>1. OssDomain(t)
    BY <1>1, <1>10 DEF OssDomain
  <2>2. IsPlaced(t[4])
    BY <1>10, ListedIsPlaced
  <2> QED
    BY <1>1, <1>10, <2>1, <2>2, NativeStays
<1>12. t = IF s[2] = ali THEN s ELSE SpliceReplace(s, 1, ali)
  <2>1. domain = ali => t = s
    BY <1>5, Zenon
  <2>2. SpliceReplace(s, 1, ali) = t
    BY <1>3, <1>5, <1>6, OntoFourReplace
  <2> QED
    BY <1>9, <2>1, <2>2, Zenon
<1>13. Reverse(d) = OssBody(t)
  BY <1>8, <1>11, Zenon
<1>14. OssRewrite(name) = d
  <2>1. /\ name \in Seq(Labels) /\ d \in Seq(Labels) /\ s \in Seq(Labels)
        /\ s = Reverse(name) /\ t \in Seq(Labels) /\ Reverse(d) = OssBody(t)
    BY <1>7, <1>8, <1>9, <1>10, <1>13, Zenon
  <2>2. Len(s) > 2
    BY <1>9, LenProperties
  <2>3. s[1] = <<"com">> /\ s[2] \in {<<"aliyuncs">>, <<"aliyun", "inc">>}
    BY <1>1, <1>4, <1>9, Zenon
  <2>4. t = IF s[2] = <<"aliyuncs">> THEN s
            ELSE SpliceReplace(s, 1, <<"aliyuncs">>)
    BY <1>1, <1>12, Zenon
  <2> QED
    BY <2>1, <2>2, <2>3, <2>4, OssUnderEither, Zenon
<1> QED
  BY <1>1, <1>2, <1>14, Zenon

(* Every documented OSS endpoint is rewritten to its dual-stack endpoint.  *)
LEMMA OssReaches ==
  ASSUME NEW e \in OssEndpoints
  PROVE  e.provider = "oss" /\ OssRewrite(e.name) = e.dual
<1> DEFINE Short == {b \in Single : \A label \in ToSet(b) : Len(label) <= 2}
           Bare == {Endpoint("oss", b \o Oss, <<<<"cn", "hangzhou">>>> \o Oss) :
                      b \in Short}
           Named == {Endpoint("oss", Under(b, <<Dashed("oss", r)>>, Aliyun),
                              <<r>> \o Oss) :
                       b \in Single, r \in OssRegions}
           Native == {Endpoint("oss", Under(b, <<r, <<"oss">>>>, suffix),
                               Under(b, <<r>>, Oss)) :
                        b \in Buckets, r \in OssRegions,
                        suffix \in {Aliyun, AliyunInc}}
<1>1. OssEndpoints = Bare \cup Named \cup Native
  BY SMT DEF OssEndpoints, Under, Dashed
<1>2. ASSUME NEW name, NEW dual, OssRewrite(name) = dual,
             e = Endpoint("oss", name, dual)
      PROVE  e.provider = "oss" /\ OssRewrite(e.name) = e.dual
  <2>1. e.provider = "oss" /\ e.name = name /\ e.dual = dual
    BY <1>2 DEF Endpoint
  <2> QED
    BY <1>2, <2>1, Zenon
<1>3. \A b \in Single : b \in Buckets /\ IsBucket(b) /\ Len(b) <= 1
  BY CdnAssumption DEF Single
<1>4. CASE e \in Bare
  <2>1. PICK b \in Short : e = Endpoint("oss", b \o Oss,
                                        <<<<"cn", "hangzhou">>>> \o Oss)
    BY <1>4, Zenon
  <2>2. /\ IsBucket(b) /\ Len(b) <= 1
        /\ \A label \in ToSet(b) : Len(label) <= 2
    BY <1>3, <2>1
  <2>3. OssRewrite(b \o Oss) = <<<<"cn", "hangzhou">>>> \o Oss
    BY <2>2, OssBare, Zenon
  <2> QED
    BY <1>2, <2>1, <2>3
<1>5. CASE e \in Named
  <2>1. PICK b \in Single, r \in OssRegions :
          e = Endpoint("oss", Under(b, <<Dashed("oss", r)>>, Aliyun),
                       <<r>> \o Oss)
    BY <1>5, SMT
  <2>2. OssRewrite(Under(b, <<Dashed("oss", r)>>, Aliyun)) = <<r>> \o Oss
    BY <1>3, OssNamed, Zenon
  <2> QED
    BY <1>2, <2>1, <2>2
<1>6. CASE e \in Native
  <2>1. PICK b \in Buckets, r \in OssRegions, suffix \in {Aliyun, AliyunInc} :
          e = Endpoint("oss", Under(b, <<r, <<"oss">>>>, suffix),
                       Under(b, <<r>>, Oss))
    BY <1>6, SMT
  <2>2. OssRewrite(Under(b, <<r, <<"oss">>>>, suffix)) = Under(b, <<r>>, Oss)
    BY CdnAssumption, OssNative, Zenon
  <2> QED
    BY <1>2, <2>1, <2>2
<1> HIDE DEF Bare, Named, Native
<1>7. e \in Bare \/ e \in Named \/ e \in Native
  BY <1>1, Zenon
<1> QED
  BY <1>4, <1>5, <1>6, <1>7, Zenon
-------------------------------------------------------------------------------
(* The labels of Oracle's endpoints.                                       *)
Stores == Label \cup OracleServices \cup {<<"ds">>, <<"compat">>}
          \cup ToSet(CloudSuffix) \cup ToSet(OciSuffix)

(* What they are.                                                          *)
LEMMA StoresAre ==
  /\ \A suffix \in {CloudSuffix, OciSuffix} : suffix \in Seq(Stores)
  /\ <<"ds">> \in Stores /\ <<"compat">> \in Stores
  /\ <<"objectstorage">> \in Stores
  /\ \A service \in OracleServices : service \in Stores
  /\ \A l \in Label : l \in Stores
<1>1. CloudSuffix \in Seq(Stores) /\ OciSuffix \in Seq(Stores)
  <2>1. CloudSuffix = <<<<"oraclecloud">>, <<"com">>>>
    BY DEF CloudSuffix, Dotted
  <2>2. /\ <<"oraclecloud">> \in ToSet(CloudSuffix)
        /\ <<"com">> \in ToSet(CloudSuffix)
    BY <2>1 DEF ToSet
  <2>3. /\ <<"oci">> \in ToSet(OciSuffix)
        /\ <<"customer", "oci">> \in ToSet(OciSuffix)
    BY DEF ToSet, OciSuffix
  <2> QED
    BY <2>1, <2>2, <2>3 DEF Stores, OciSuffix
<1> QED
  BY <1>1 DEF Stores, OracleServices

(* A name whose last label before the suffix is not ds.                    *)
LEMMA OracleFirst ==
  ASSUME NEW body \in Seq(Stores), NEW suffix \in {CloudSuffix, OciSuffix},
         Len(body) >= 2, Last(body) # <<"ds">>
  PROVE  OracleRewrite(body \o suffix) = OracleBody(body, suffix, FALSE)
<1>1. PICK w : w = body \o suffix
  OBVIOUS
<1>2. suffix \in Seq(Stores)
  BY StoresAre
<1>3. w \in Seq(Stores)
  BY <1>1, <1>2, ConcatProperties
<1>4. EndsWith(w, suffix) /\ SubSeq(w, 1, Len(w) - Len(suffix)) = body
  BY <1>1, <1>2, BeforeSuffix
<1>5. suffix = IF EndsWith(w, CloudSuffix) THEN CloudSuffix ELSE OciSuffix
  <2>1. CASE suffix = CloudSuffix
    BY <1>4, <2>1
  <2>2. CASE suffix = OciSuffix
    <3>1. EndsWith(w, <<<<"oci">>, <<"customer", "oci">>, <<"com">>>>)
      BY <1>4, <2>2 DEF OciSuffix
    <3>2. w[Len(w) - 1] = <<"customer", "oci">>
      BY <1>3, <3>1, EndsWithThree
    <3>3. <<"customer", "oci">> # <<"oraclecloud">>
      OBVIOUS
    <3>4. ~EndsWith(w, CloudSuffix)
      BY <1>3, <3>2, <3>3, EndsWithTwo DEF CloudSuffix
    <3> QED
      BY <2>2, <3>4
  <2> QED
    BY <2>1, <2>2
<1>6. PICK has : has = FALSE
  OBVIOUS
<1>7. /\ body = SubSeq(w, 1, Len(w) - Len(suffix))
      /\ has = (Last(body) = <<"ds">>)
      /\ body = IF has THEN Front(body) ELSE body
  BY <1>4, <1>6
<1>8. OracleRewrite(w) = IF ~EndsWith(w, suffix) \/ Len(body) < 2
                         THEN None ELSE OracleBody(body, suffix, has)
  BY <1>5, <1>7, Zenon DEF OracleRewrite
<1>9. ~(Len(body) < 2)
  BY LenProperties
<1> QED
  BY <1>1, <1>4, <1>6, <1>8, <1>9, Zenon

(* What is in front of the suffix: a store, its region last.               *)
InFront(ns, q) == ns \o q

(* What is in front of the suffix of an endpoint is such a store, and its  *)
(* last label is no ds.                                                    *)
LEMMA OracleBodyIs ==
  ASSUME NEW body \in OracleBodies \cup CompatBodies
  PROVE  /\ body \in Seq(Stores) /\ IsStore(body) /\ Len(body) >= 2
         /\ Last(body) # <<"ds">>
<1>1. \A b \in Single : IsBucket(b) /\ Len(b) <= 1
  BY CdnAssumption DEF Single
<1>2. ASSUME NEW r \in Regions
      PROVE  r \in Stores /\ r # <<"ds">>
  <2>1. r \in Label /\ Len(r) = 3 /\ Len(<<"ds">>) = 1 /\ 3 # 1
    BY CdnAssumption DEF IsRegion
  <2>2. r # <<"ds">>
    BY <2>1, Zenon
  <2> QED
    BY <2>1, <2>2, StoresAre
<1>3. ASSUME NEW l, IsPlain(l)
      PROVE  l \in Stores /\ l # <<"compat">>
  BY <1>3, StoresAre DEF IsPlain
<1>4. CASE body \in OracleBodies
  <2>1. OracleBodies = {InFront(ns, <<service, r>>) :
                          ns \in Single, service \in OracleServices,
                          r \in Regions}
    BY SMT DEF OracleBodies, InFront
  <2>2. PICK ns \in Single, service \in OracleServices, r \in Regions :
          body = InFront(ns, <<service, r>>)
    BY <1>4, <2>1, SMT
  <2>3. service \in Stores
    BY StoresAre
  <2>4. ASSUME ns = <<>>
        PROVE  body = <<service, r>>
    <3>1. <<service, r>> \in Seq(Stores)
      BY <1>2, <2>3
    <3>2. <<>> \o <<service, r>> = <<service, r>>
      BY <3>1, ConcatEmptySeq
    <3> QED
      BY <2>2, <2>4, <3>2, Zenon DEF InFront
  <2>5. ASSUME NEW l, ns = <<l>>
        PROVE  body = <<l, service, r>>
    <3>1. <<l>> \o <<service, r>> = <<l, service, r>>
      BY JoinTuples
    <3> QED
      BY <2>2, <2>5, <3>1, Zenon DEF InFront
  <2>6. CASE body = <<service, r>>
    BY <1>2, <2>3, <2>6 DEF IsStore, Last
  <2>7. ASSUME NEW l, IsPlain(l), body = <<l, service, r>>
        PROVE  /\ body \in Seq(Stores) /\ IsStore(body) /\ Len(body) >= 2
               /\ Last(body) # <<"ds">>
    BY <1>2, <1>3, <2>3, <2>7 DEF IsStore, Last
  <2>8. ns = <<>> \/ \E l : IsPlain(l) /\ ns = <<l>>
    BY <1>1, SingleIs
  <2> QED
    BY <2>4, <2>5, <2>6, <2>7, <2>8, Zenon
<1>5. CASE body \in CompatBodies
  <2>1. PICK Spaces, front : Spaces = Single \ {<<>>} /\ front = Compat
    OBVIOUS
  <2>2. CompatBodies = {Under(ns, front, <<r>>) : ns \in Spaces, r \in Regions}
    BY <2>1, SMT DEF CompatBodies, Under
  <2>3. PICK ns \in Spaces, r \in Regions : body = Under(ns, front, <<r>>)
    BY <1>5, <2>2, SMT
  <2>4. /\ ns \in Single /\ ns # <<>> /\ r \in Regions
        /\ body = Under(ns, Compat, <<r>>)
    BY <2>1, <2>3, Zenon
  <2>5. PICK l : IsPlain(l) /\ ns = <<l>>
    BY <1>1, <2>4, SingleIs
  <2>6. PICK compat, store :
          compat = <<"compat">> /\ store = <<"objectstorage">>
    OBVIOUS
  <2>7. body = <<l, compat, store, r>>
    <3>1. Compat = <<compat, store>>
      BY <2>6 DEF Compat
    <3>2. <<l>> \o <<compat, store>> = <<l, compat, store>>
      BY JoinTuples
    <3>3. <<l, compat, store>> \o <<r>> = <<l, compat, store, r>>
      <4>1. PICK S, p, w : /\ S = {l, compat, store, r}
                           /\ p = <<l, compat, store>> /\ w = p \o <<r>>
        OBVIOUS
      <4>2. p \in Seq(S) /\ r \in S /\ Len(p) = 3
        BY <4>1
      <4>3. p[1] = l /\ p[2] = compat /\ p[3] = store
        BY <4>1
      <4>4. /\ w \in Seq(S) /\ Len(w) = Len(p) + 1
            /\ \A j \in 1..3 : w[j] = p[j]
            /\ w[4] = r
        <5>1. <<r>> \in Seq(S) /\ Len(<<r>>) = 1 /\ <<r>>[1] = r
          BY <4>2
        <5> QED
          BY <4>1, <4>2, <5>1, ConcatProperties
      <4>5. Len(w) = 4
        BY <4>2, <4>4
      <4>6. w = <<w[1], w[2], w[3], w[4]>>
        BY <4>4, <4>5, AsTuple
      <4>7. w[1] = l /\ w[2] = compat /\ w[3] = store
        BY <4>3, <4>4
      <4> QED
        BY <4>1, <4>4, <4>6, <4>7, Zenon
    <3> QED
      BY <2>4, <2>5, <3>1, <3>2, <3>3, Zenon DEF Under
  <2>8. compat \in Stores /\ store \in Stores
    BY <2>6, StoresAre
  <2>9. /\ body \in Seq(Stores) /\ Len(body) = 4
        /\ body[2] = compat /\ body[3] = store /\ body[4] = r
    BY <1>2, <1>3, <2>5, <2>7, <2>8
  <2> QED
    BY <1>2, <2>6, <2>9 DEF IsStore, Last
<1> QED
  BY <1>4, <1>5

(* Every documented Oracle endpoint is rewritten to its dual-stack one.    *)
LEMMA OracleReaches ==
  ASSUME NEW e \in OracleEndpoints
  PROVE  e.provider = "oracleobjectstorage" /\ OracleRewrite(e.name) = e.dual
<1> DEFINE Domains == {OciSuffix, CloudSuffix}
           Plain == {Endpoint("oracleobjectstorage", InFront(body, suffix),
                              OracleDual(body, OciSuffix)) :
                       body \in OracleBodies \cup CompatBodies,
                       suffix \in Domains}
           Bare == {Endpoint("oracleobjectstorage",
                             Under(Compat, <<r>>, suffix),
                             OracleDual(<<<<"objectstorage">>, r>>,
                                        OciSuffix)) :
                      r \in Regions, suffix \in Domains}
           Dual == {Endpoint("oracleobjectstorage", OracleDual(body, suffix),
                             OracleDual(body, suffix)) :
                      body \in OracleBodies, suffix \in Domains}
<1>1. OracleEndpoints = Plain \cup Bare \cup Dual
  BY SMT DEF OracleEndpoints, InFront, Under
<1>2. ASSUME NEW name, NEW dual, OracleRewrite(name) = dual,
             e = Endpoint("oracleobjectstorage", name, dual)
      PROVE  /\ e.provider = "oracleobjectstorage"
             /\ OracleRewrite(e.name) = e.dual
  <2>1. /\ e.provider = "oracleobjectstorage"
        /\ e.name = name /\ e.dual = dual
    BY <1>2 DEF Endpoint
  <2> QED
    BY <1>2, <2>1, Zenon
<1>3. CASE e \in Plain
  <2>1. PICK Bodies : Bodies = OracleBodies \cup CompatBodies
    OBVIOUS
  <2>2. PICK body \in Bodies, suffix \in Domains :
          e = Endpoint("oracleobjectstorage", InFront(body, suffix),
                       OracleDual(body, OciSuffix))
    BY <1>3, <2>1, SMT
  <2>3. /\ body \in Seq(Stores) /\ IsStore(body) /\ Len(body) >= 2
        /\ Last(body) # <<"ds">>
    BY <2>1, OracleBodyIs, Zenon
  <2>4. OracleRewrite(InFront(body, suffix)) = OracleBody(body, suffix, FALSE)
    BY <2>3, OracleFirst DEF InFront
  <2>5. OracleBody(body, suffix, FALSE) = OracleDual(body, OciSuffix)
    BY <2>3 DEF OracleBody, OracleSuffix, OracleDual, IsStore
  <2> QED
    BY <1>2, <2>2, <2>4, <2>5, Zenon
<1>4. CASE e \in Bare
  <2>1. PICK r \in Regions, suffix \in Domains :
          e = Endpoint("oracleobjectstorage", Under(Compat, <<r>>, suffix),
                       OracleDual(<<<<"objectstorage">>, r>>, OciSuffix))
    BY <1>4, SMT
  <2>2. PICK compat, store, body :
          /\ compat = <<"compat">> /\ store = <<"objectstorage">>
          /\ body = <<compat, store, r>>
    OBVIOUS
  <2>3. /\ compat \in Stores /\ store \in Stores /\ r \in Stores
        /\ r # <<"ds">>
    <3>1. r \in Label /\ Len(r) = 3 /\ Len(<<"ds">>) = 1 /\ 3 # 1
      BY CdnAssumption DEF IsRegion
    <3>2. r # <<"ds">>
      BY <3>1, Zenon
    <3> QED
      BY <2>2, <3>1, <3>2, StoresAre
  <2>4. /\ body \in Seq(Stores) /\ Len(body) = 3 /\ Last(body) = r
        /\ body[1] = compat /\ body[2] = store
    BY <2>2, <2>3 DEF Last
  <2>5. Tail(body) = <<store, r>>
    <3>1. Tail(<<compat, store, r>>) = <<store, r>>
      BY TailTuples
    <3> QED
      BY <2>2, <3>1, Zenon
  <2>6. Under(Compat, <<r>>, suffix) = body \o suffix
    <3>1. Compat = <<compat, store>>
      BY <2>2 DEF Compat
    <3>2. <<compat, store>> \o <<r>> = <<compat, store, r>>
      <4>1. PICK p, w : p = <<compat, store>> /\ w = p \o <<r>>
        OBVIOUS
      <4>2. /\ p \in Seq(Stores) /\ Len(p) = 2
            /\ p[1] = compat /\ p[2] = store
        BY <2>3, <4>1
      <4>3. /\ w \in Seq(Stores) /\ Len(w) = 3 /\ w[3] = r
            /\ w[1] = p[1] /\ w[2] = p[2]
        <5>1. <<r>> \in Seq(Stores) /\ Len(<<r>>) = 1 /\ <<r>>[1] = r
          BY <2>3
        <5> QED
          BY <4>1, <4>2, <5>1, ConcatProperties
      <4>4. w = <<w[1], w[2], w[3]>>
        BY <4>3, AsTuple
      <4> QED
        BY <4>1, <4>2, <4>3, <4>4, Zenon
    <3> QED
      BY <2>2, <3>1, <3>2, Zenon DEF Under
  <2>7. OracleRewrite(body \o suffix) = OracleBody(body, suffix, FALSE)
    <3>1. Len(body) >= 2
      BY <2>4
    <3> QED
      BY <2>3, <2>4, <3>1, OracleFirst
  <2>8. OracleBody(body, suffix, FALSE)
          = OracleDual(<<<<"objectstorage">>, r>>, OciSuffix)
    <3>1. OracleBody(body, suffix, FALSE)
            = Tail(body) \o <<<<"ds">>>> \o OciSuffix
      BY <2>2, <2>4, Zenon DEF OracleBody
    <3> QED
      BY <2>2, <2>5, <3>1, Zenon DEF OracleDual
  <2> QED
    BY <1>2, <2>1, <2>6, <2>7, <2>8, Zenon
<1>5. CASE e \in Dual
  <2>1. PICK body \in OracleBodies, suffix \in Domains :
          e = Endpoint("oracleobjectstorage", OracleDual(body, suffix),
                       OracleDual(body, suffix))
    BY <1>5, SMT
  <2>2. body \in Seq(Stores) /\ IsStore(body)
    BY OracleBodyIs
  <2>3. OracleRewrite(OracleDual(body, suffix)) = OracleDual(body, suffix)
    BY <2>2, StoresAre, OracleAgain DEF OracleDual
  <2> QED
    BY <1>2, <2>1, <2>3, Zenon
<1> HIDE DEF Plain, Bare, Dual
<1>6. e \in Plain \/ e \in Bare \/ e \in Dual
  BY <1>1, Zenon
<1> QED
  BY <1>3, <1>4, <1>5, <1>6, Zenon

(* A provider of rewrites asks, for a name without aliases, for what the   *)
(* name is rewritten to.                                                   *)
LEMMA RewriteOfTheName ==
  ASSUME NEW id \in MatchRewrite, NEW f, f.cnames = <<>>
  PROVE  Detect(id, f).target = Rewrite(id, f.name)
<1>1. PICK v, d : v = Rewritten(id, f) /\ d = Rewrite(id, f.name)
  OBVIOUS
<1>2. Hostnames(f) = <<f.name>>
  BY DEF Hostnames
<1>3. v = <<d>>
  <2>1. PICK h : h = <<f.name>>
    OBVIOUS
  <2>2. v = [i \in DOMAIN h |-> Rewrite(id, h[i])]
    BY <1>1, <1>2, <2>1, Zenon DEF Rewritten
  <2>3. DOMAIN h = 1..1 /\ h[1] = f.name
    BY <2>1
  <2> QED
    BY <1>1, <2>2, <2>3
<1>4. FirstRewritten(v) = d
  <2>1. Len(v) = 1 /\ v[1] = d /\ 1..1 = {1}
    BY <1>3
  <2>2. PICK I : I = {i \in 1..Len(v) : v[i] # None}
    OBVIOUS
  <2>3. CASE d = None
    <3>1. I = {}
      BY <2>1, <2>2, <2>3
    <3>2. SelectInSeq(v, LAMBDA name : name # None) = 0
      BY <2>2, <3>1 DEF SelectInSeq
    <3> QED
      BY <2>3, <3>2 DEF FirstRewritten
  <2>4. CASE d # None
    <3>1. I = {1}
      BY <2>1, <2>2, <2>4
    <3>2. Min(I) = 1
      <4>1. Min(I) = Least(I) /\ I \in SUBSET Nat /\ I # {}
        BY <3>1 DEF Min, Least
      <4>2. Least(I) \in I
        BY <4>1, LeastIsLeast
      <4> QED
        BY <3>1, <4>1, <4>2
    <3>3. SelectInSeq(v, LAMBDA name : name # None) = 1
      BY <2>2, <3>1, <3>2 DEF SelectInSeq
    <3> QED
      BY <2>1, <3>3 DEF FirstRewritten
  <2> QED
    BY <2>3, <2>4
<1>5. Detect(id, f) = DetectRewrite(v)
  BY <1>1, TablesAre DEF Detect
<1>6. DetectRewrite(v).target = d
  BY <1>4 DEF DetectRewrite, NotDetected, Asks
<1> QED
  BY <1>1, <1>5, <1>6

(* The endpoints of the three providers that have storage: each is         *)
(* rewritten to the dual-stack endpoint.                                   *)
LEMMA EndpointsReach ==
  ASSUME NEW e \in Endpoints
  PROVE  /\ e.provider \in {"s3", "oss", "oracleobjectstorage"}
         /\ Rewrite(e.provider, e.name) = e.dual
<1>1. CASE e \in S3Endpoints
  BY <1>1, S3Reaches DEF Rewrite
<1>2. CASE e \in OssEndpoints
  BY <1>2, OssReaches DEF Rewrite
<1>3. CASE e \in OracleEndpoints
  BY <1>3, OracleReaches DEF Rewrite
<1> QED
  BY <1>1, <1>2, <1>3 DEF Endpoints

-------------------------------------------------------------------------------
(* A call runs with what detect says of its facts.                         *)
Faithful(c) ==
  stage[c] # "idle" =>
    /\ ctx[c].plans = [id \in Providers |-> Detect(id, facts[c]).plan]
    /\ ctx[c].a = facts[c].a

CdnInv ==
  /\ ChainInv
  /\ facts \in [Calls -> Facts]
  /\ \A c \in Calls : Faithful(c)

cdnVars == <<chainVars, facts>>

(* Before any call, CdnInv holds.                                          *)
LEMMA CdnBegins == CdnInit => CdnInv
<1>1. ASSUME CdnInit
      PROVE  CdnInv
  <2>1. ChainInit /\ facts = [c \in Calls |-> NoFacts]
    BY <1>1 DEF CdnInit
  <2>2. ChainInv /\ \A c \in Calls : stage[c] = "idle"
    BY <2>1, ChainBegins DEF ChainInit
  <2>3. NoFacts \in Facts
    <3>1. <<>> \in Name /\ <<>> \in Seq(Name)
      BY EmptySeq DEF Name
    <3>2. {} \in SUBSET [addr : IPv4, ttl : Nat]
      OBVIOUS
    <3> HIDE DEF Name
    <3> QED
      BY <3>1, <3>2 DEF NoFacts, Facts
  <2> QED
    BY <2>1, <2>2, <2>3 DEF CdnInv, Faithful
<1> QED
  BY <1>1

(* The context that a call starts with is one that the chain is built for. *)
LEMMA StartedContext ==
  ASSUME NEW f \in Contexts, NEW chain \in Chains
  PROVE  [arpa |-> IsIpv4OnlyArpa(f.name), a |-> f.a, chain |-> chain,
          plans |-> [id \in Providers |-> Detect(id, f).plan]] \in Context
<1>1. f \in Facts /\ Providers \subseteq MakeIds
  BY CdnAssumption
<1>2. PICK plans : plans = [id \in Providers |-> Detect(id, f).plan]
  OBVIOUS
<1>3. plans \in [Providers -> Plan \cup {NoPlan}]
  BY <1>1, <1>2, DetectIsPlan
<1>4. f.a \in SUBSET [addr : IPv4, ttl : Nat]
  BY <1>1 DEF Facts
<1>5. IsIpv4OnlyArpa(f.name) \in BOOLEAN
  BY DEF IsIpv4OnlyArpa
<1> QED
  BY <1>2, <1>3, <1>4, <1>5 DEF Context

(* A step of a call changes nothing of the context of any call under way.  *)
LEMMA RunStays ==
  ASSUME ChainTypeOK, NEW c \in Calls, Run(c)
  PROVE  /\ ctx' = ctx /\ facts' = facts
         /\ \A d \in Calls : stage'[d] # "idle" => stage[d] # "idle"
<1>1. stage \in [Calls -> {"idle", "running", "done"}]
  BY DEF ChainTypeOK
<1>2. CASE TryNext(c)
  BY <1>2 DEF Run, TryNext
<1>3. CASE Succeed(c)
  BY <1>1, <1>3 DEF Run, Succeed, Ready, Trying
<1>4. CASE GiveUp(c)
  BY <1>1, <1>4 DEF Run, GiveUp
<1>5. CASE \E answer \in References : Resolve(c, answer)
  BY <1>5 DEF Run, Resolve
<1> QED
  BY <1>2, <1>3, <1>4, <1>5 DEF Run, ChainStep

(* The steps of Cdn are steps of the chain, of contexts that cdn.rs makes. *)
LEMMA CdnIsChain ==
  ASSUME CdnNext \/ UNCHANGED cdnVars
  PROVE  ChainNext \/ UNCHANGED chainVars
<1>1. ASSUME NEW c \in Calls, NEW f \in Contexts, NEW chain \in Chains,
             Start(c, f, chain)
      PROVE  ChainNext
  BY <1>1, StartedContext DEF Start, ChainNext
<1>2. ASSUME NEW c \in Calls, ChainStep(c)
      PROVE  ChainNext
  BY <1>2 DEF ChainNext
<1>3. ASSUME NEW c \in Calls, NEW answer \in References, Resolve(c, answer)
      PROVE  ChainNext
  BY <1>3, CdnAssumption DEF ChainNext, Sourced
<1>4. CASE UNCHANGED cdnVars
  BY <1>4 DEF cdnVars
<1> QED
  BY <1>1, <1>2, <1>3, <1>4 DEF CdnNext, Run

(* Whatever a call does, CdnInv is kept.                                   *)
LEMMA CdnKeeps ==
  ASSUME CdnInv, CdnNext \/ UNCHANGED cdnVars
  PROVE  CdnInv'
<1>1. ChainInv'
  BY CdnIsChain, ChainKeeps DEF CdnInv
<1>2. ASSUME NEW c \in Calls, NEW f \in Contexts, NEW chain \in Chains,
             Start(c, f, chain)
      PROVE  CdnInv'
  <2>1. f \in Facts
    BY CdnAssumption
  <2>2. /\ ctx \in [Calls -> Context \cup {NoContext}]
        /\ stage \in [Calls -> {"idle", "running", "done"}]
    BY DEF CdnInv, ChainInv, ChainTypeOK
  <2>3. PICK x : x = [arpa |-> IsIpv4OnlyArpa(f.name), a |-> f.a,
                      chain |-> chain,
                      plans |-> [id \in Providers |-> Detect(id, f).plan]]
    OBVIOUS
  <2>4. /\ ctx' = [ctx EXCEPT ![c] = x]
        /\ stage' = [stage EXCEPT ![c] = "running"]
        /\ facts' = [facts EXCEPT ![c] = f]
    BY <1>2, <2>3 DEF Start, Begin
  <2>5. x.a = f.a /\ x.plans = [id \in Providers |-> Detect(id, f).plan]
    BY <2>3
  <2>6. facts' \in [Calls -> Facts]
    BY <2>1, <2>4 DEF CdnInv
  <2>7. ASSUME NEW d \in Calls
        PROVE  Faithful(d)'
    <3>1. CASE d = c
      BY <2>2, <2>4, <2>5, <3>1 DEF Faithful, CdnInv
    <3>2. CASE d # c
      BY <2>2, <2>4, <3>2 DEF Faithful, CdnInv
    <3> QED
      BY <3>1, <3>2
  <2> QED
    BY <1>1, <2>6, <2>7 DEF CdnInv
<1>3. ASSUME NEW c \in Calls, Run(c)
      PROVE  CdnInv'
  <2>1. /\ ctx' = ctx /\ facts' = facts
        /\ \A d \in Calls : stage'[d] # "idle" => stage[d] # "idle"
    BY <1>3, RunStays DEF CdnInv, ChainInv
  <2> QED
    BY <1>1, <2>1 DEF CdnInv, Faithful
<1>4. CASE UNCHANGED cdnVars
  BY <1>1, <1>4 DEF CdnInv, Faithful, cdnVars, chainVars
<1> QED
  BY <1>2, <1>3, <1>4 DEF CdnNext

(* Every state of a behaviour satisfies CdnInv.                            *)
THEOREM CdnAlways == CdnSpec => []CdnInv
<1>1. CdnInit => CdnInv
  BY CdnBegins
<1>2. CdnInv /\ [CdnNext]_cdnVars => CdnInv'
  BY CdnKeeps
<1> QED
  BY <1>1, <1>2, PTL DEF CdnSpec, cdnVars
-------------------------------------------------------------------------------
(* The name asked for in place of a name settles: the rewrite of the name  *)
(* it came from, unless that strays, leaves it alone or refuses it, and    *)
(* nothing it consists of was read past the end of the labels.             *)
LEMMA Settle == CdnInv => RewritesSettle
<1> SUFFICES ASSUME CdnInv, NEW c \in Calls,
                    NEW h \in ToSet(Hostnames(facts[c])),
                    Target(c) # None, IdAt(c) \in Settling,
                    Target(c) = Rewrite(IdAt(c), h)
             PROVE  /\ Panic \notin ToSet(Target(c))
                    /\ \/ Rewrite(IdAt(c), Target(c)) \in {None, Target(c)}
                       \/ Strays(IdAt(c), h)
  BY DEF RewritesSettle
<1>1. h \in Name
  BY HostnamesAreNames DEF CdnInv
<1> QED
  BY <1>1, RewriteSettles

(* A record with an address of a provider of a range has one of the range: *)
(* only what its plan claims is transformed, and what is appended to that  *)
(* is behind the translator.                                               *)
LEMMA OwnRangeOnly == CdnInv => EmbedsOnlyItsOwnRange
<1> SUFFICES ASSUME CdnInv, NEW c \in Calls, NEW r \in records[c],
                    winner[c] \in DOMAIN OwnRange, r.addr.via = "transform"
             PROVE  InCidr(r.addr.of, OwnRange[winner[c]])
  BY DEF EmbedsOnlyItsOwnRange
<1>1. /\ stage[c] = "done" /\ ctx[c] \in Context
      /\ at[c] \in DOMAIN ctx[c].chain.ids /\ winner[c] = IdAt(c)
      /\ IdAt(c) \in Ids
      /\ YieldedAt(c) = YieldedBy(c, at[c])
  BY WonRecords DEF CdnInv
<1>2. PICK appended \in Appendable(ctx[c], IdAt(c)) :
        records[c] = YieldedAt(c) \cup appended
  BY WonRecords DEF CdnInv
<1>3. r \notin appended
  BY <1>1, <1>2, AppendedIsTyped DEF IsEmbedded
<1>4. PICK got : got = heard[c][at[c]]
  OBVIOUS
<1>5. r \in Yielded(ctx[c], winner[c], got)
  BY <1>1, <1>2, <1>3, <1>4 DEF YieldedBy, IdAt
<1>6. got \in Sourced(IPv6)
  BY <1>1, <1>4, PositionIsTyped DEF CdnInv, ChainInv
<1>7. winner[c] \in Providers /\ winner[c] # "nat64"
  BY <1>1, TablesAre DEF Ids
<1>8. PICK plan : plan = PlanOf(ctx[c], winner[c])
  OBVIOUS
<1>9. plan # NoPlan /\ plan \in Plan
  BY <1>1, <1>5, <1>8, PlanIsTyped DEF Yielded
<1>10. PICK made \in Combined(plan, "transform", ctx[c], got) : r.addr = made
  BY <1>5, <1>7, <1>8, <1>9 DEF Yielded
<1>11. made.of \in plan.claims
  BY <1>1, <1>6, <1>9, <1>10, CombinedIsTyped
<1>12. plan = Detect(winner[c], facts[c]).plan
  <2>1. plan = ctx[c].plans[winner[c]]
    BY <1>7, <1>8 DEF PlanOf
  <2>2. ctx[c].plans = [id \in Providers |-> Detect(id, facts[c]).plan]
    BY <1>1 DEF CdnInv, Faithful
  <2> QED
    BY <1>7, <2>1, <2>2
<1>13. facts[c] \in Facts
  BY DEF CdnInv
<1> QED
  BY <1>10, <1>11, <1>12, <1>13, DetectClaims

(* What a call asks for, at the turn of the provider, in place of a        *)
(* documented endpoint.                                                    *)
LEMMA ReachEndpoint == CdnInv => RewritesReachTheEndpoint
<1> SUFFICES ASSUME CdnInv, NEW c \in Calls, NEW e \in Endpoints,
                    Trying(c), IdAt(c) = e.provider,
                    facts[c].name = e.name, facts[c].cnames = <<>>
             PROVE  Target(c) = e.dual
  BY DEF RewritesReachTheEndpoint
<1>1. /\ e.provider \in {"s3", "oss", "oracleobjectstorage"}
      /\ Rewrite(e.provider, e.name) = e.dual
  BY EndpointsReach
<1>2. e.provider \in MatchRewrite /\ e.provider # "nat64"
  BY <1>1, TablesAre
<1>3. IdAt(c) \in Providers
  <2>1. stage[c] # "idle" /\ at[c] \in DOMAIN ctx[c].chain.ids
    BY DEF Trying
  <2>2. IdAt(c) \in Ids
    BY <2>1, PositionIsTyped DEF CdnInv, ChainInv, IdAt
  <2> QED
    BY <1>2, <2>2 DEF Ids
<1>4. Detect(e.provider, facts[c]).target = Rewrite(e.provider, facts[c].name)
  BY <1>2, RewriteOfTheName
<1> QED
  BY <1>1, <1>3, <1>4, Zenon DEF Target

(* Whatever names, addresses and SOA records the calls start from, no      *)
(* rewrite sends a client from a dual-stack name to a third name.          *)
THEOREM NeverToAThirdName == CdnSpec => []RewritesSettle
BY CdnAlways, Settle, PTL

(* An address outside a provider's range never goes into its prefix.       *)
THEOREM NeverEmbedsAStranger == CdnSpec => []EmbedsOnlyItsOwnRange
BY CdnAlways, OwnRangeOnly, PTL

(* The promises of the chain, kept with the plans that cdn.rs makes and    *)
(* not only with any.                                                      *)
THEOREM ProvidersKeepToTheChain ==
  CdnSpec => [](/\ FirstThatYields
                /\ SpecificBeforeGeneric
                /\ TranslatorOnlyAsConfigured
                /\ NeverOutlivesItsSource)
<1>1. CdnInv => /\ FirstThatYields
                /\ SpecificBeforeGeneric
                /\ TranslatorOnlyAsConfigured
                /\ NeverOutlivesItsSource
  BY FirstYields, SpecificFirst, TranslatorConfigured, NeverOutlives
     DEF CdnInv
<1> QED
  BY <1>1, CdnAlways, PTL

(* Who asks for a documented endpoint is sent to the dual-stack one of the *)
(* same bucket, service and region, for any buckets and regions.           *)
THEOREM SentToTheSameEndpoint == CdnSpec => []RewritesReachTheEndpoint
BY CdnAlways, ReachEndpoint, PTL
===============================================================================
